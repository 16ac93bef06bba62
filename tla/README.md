# TLA+ models of the ginkgo handset system

The repository turns a Redmi Note 8 ("ginkgo") into a mainline Linux machine. Its own logic is

* `src/initramfs/ginkgo-status.c` with `ginkgo-wifi-flow.h` and `ginkgo-status-gpu.c`: the HUD, the
  only user interface of the machine, one process that draws meters, reads the touch screen and
  manages Wi-Fi,
* `src/rootfs-overlay/usr/local/sbin/`: the shell scripts the HUD and systemd start,
* `src/overlays/linux/`: a panel, a backlight and a battery gauge driver,
* `src/initramfs/init.c`: the first process of the machine,
* `src/scripts/`: host-side build and flashing scripts.

`PROJECT.json` lists every part with its status, maps every definition to the lines it stands for,
and lists the hazards, runs, mutants, findings and theorems.

## Inventory

| Component | State | Operations | Talks to | Hard because |
|---|---|---|---|---|
| Wi-Fi decisions (`ginkgo-wifi-flow.h`) | none | pure functions of strings and flags | called by the manager | overlapping outcomes (exit code, text, what is queued) |
| Wi-Fi manager (`ginkgo-status.c`) | the job slot, `want_*` and `pend_*`, `connecting`, `join_wait_live`, `forgetting`, `forget_ssid`, `connect_ssid`, the scan list, the live SSID, the sheet and its animation | taps, `poll_job`, `maybe_confirm_join`, `kick_pending`, the once-a-second sample, `nmcli` / `iw` / script jobs | forks one job at a time; NetworkManager behind it | taps arrive between any two steps, jobs answer late, fail to start, are killed; results are applied to variables that moved on |
| Connect script (`ginkgo-wifi-connect.sh`) | the saved profiles, `$ATTEMPT`, `GAVE_PSK` | join with and without a password, forget | nmcli, killed by the manager | several steps on the profiles, each may fail or be the last; profiles that share a name or a network; NetworkManager moves by itself |
| Touch input | multi-touch slots, the armed contact, the held key | evdev events (`handle_ev`), `EVIOCGMTSLOTS` | the sheets, the screen | events are read late or dropped while the slots are read as they are now; two fingers; the sheet and the screen change under a finger |
| Screen and backlight | `screen_off`, `t_user`, `bl_cur` | power key, idle timer, slider | panel driver, GPU scanout | blanking interrupts a present, and races a touch |
| GPU scanout (`ginkgo-status-gpu.c`) | the GBM buffers, the pending flip | present, blank, unblank, idle | DRM | a flip may time out and complete later |
| Meters and drawing | smoothed numbers | sampling, drawing | /proc, /sys | nothing that another part depends on |
| Panel driver | `inited`, `asleep`, the supplies | prepare, enable, disable, unprepare, `panel_sleep`, remove | DSI host, DRM core, HUD through sysfs | two callers with a view of their own, every command may fail |
| Backlight driver | two registers | update brightness | I2C | a half-written value |
| Battery gauge driver | the HOLD bit | probe, get_property | regmap | readers without a lock, a chain of fall-backs, arithmetic at the ends |
| USB gadget scripts | the configfs tree, the UDC, the role | start, stop, restart, role switch | kernel gadget layer, systemd, the HUD | each step may fail or be the last, half a tree is left; others unbind the gadget |
| Boot, first-boot scripts | mounts, marker files | run once per boot | init, systemd | retries, a crash between an action and its marker |
| Host scripts, vendored drivers, firmware, fonts | files | build steps | - | not a running system |

What makes each part correct:

* **Wi-Fi manager**: one request at a time; a spinner always has somebody who ends it; a queued request
  never undoes a forget; a result is applied to the request it belongs to; a forgotten network does
  not come back; the sheet names the network it acts on.
* **Connect script**: no profile of another network is touched; an accepted password is stored; a join that
  ends does not lose a saved network; a forget leaves nothing of the network behind.
* **Touch and screen**: a live finger is never let go of, a lifted one always; a touch taps at most once; a touch
  on a dark screen only wakes it; lamp, bar and kept brightness agree.
* **Scanout**: a buffer on screen is never handed back for rendering, no buffer leaks.
* **Panel**: the supplies are balanced, and `asleep` is what the panel was last told.
* **Gauge**: the HOLD bit is always given back; a battery is reported empty only if every word read says so; the current is
  made of valid samples.
* **USB**: whatever an earlier run left, a stop clears it and a restart repairs it.

## Plan

| # | Modules | Content | State |
|---|---|---|---|
| 1 | `WifiFlow`, `WifiHud`, `WifiJoin`, `WifiHudProofs`, `WifiHudRefinement` | the Wi-Fi manager, its promise, its invariants and the refinement proved | done |
| 2 | `PanelDriver`, `HudDisplay`, `HudDisplayProofs` | buffers, flips, blanking and the panel below them, its invariants proved | done |
| 3 | `WifiScript`, `WifiScriptProofs` | the connect script, one nmcli call per step, over the profiles and the radio, killed anywhere, proved | done |
| 4 | `TouchInput`, `TouchInputProofs` | slots, taps, the held key, the brightness bar, blanking, proved | done |
| 5 | `UsbGadget`, `UsbGadgetProofs` | configfs set-up and tear-down with failures and kills, systemd, role switch, proved | done |
| 6 | `QgGauge`, `QgGaugeProofs` | readers that share HOLD, the fall-backs, the arithmetic, proved | done |
| 7 | `WifiSystem` | manager, script and radio in one model, for the hazard at `ginkgo-status.c:2474` | planned |

## The modules

**`WifiFlow`** holds `ginkgo-wifi-flow.h`: one operator per inline function, same names, no state. A
network name is a member of `SSID`, the empty string is `NoSsid`, and a password is whether it is there.

**`WifiHud`** is the Wi-Fi manager. `hud` is a record with one field per static variable and each C function
is an operator from a HUD state to a HUD state, so an action is the composition of all the calls of its
handler. `pc` is where the main loop is:

| action | code |
|---|---|
| `PollNothing` | `poll_job` finds no job or a running one, `maybe_confirm_join`, the sheet's animation |
| `PollRadio` `PollInfo` `PollScan` `PollLink` `PollConnect` `PollForget` | `poll_job` reaps a job of that kind, then `kick_pending`, `maybe_confirm_join` and the animation |
| `Kick` | once a second `sample_signal` re-applies the scan list's active row; `kick_pending`; the periodic `wifi_info` or `wifi_scan` |
| `TapHome` `TapList*` `TapDetail*` `TapPass*` | the branches of `tap()` that change what is modelled |
| `osk_on_down` `osk_on_up` | a key of the on-screen keyboard is held under a finger, and acts when the finger lifts |

A key acts on the lift whatever has become of the sheet: `osk_on_up` asks only for `osk_held`, and the script's
answer closes the sheet without clearing it (line 2737). The Join key then submits a password for a join that is
being confirmed. `late` remembers that this has happened, until the HUD is without a join and without a queued one.

Taps are delivered in both halves of an iteration, because `drain_inputs` runs at its start and again
while a frame waits for its flip. `want_x` is `x \in want`; the animation is the boolean `shown`, whether it
is past the threshold `tap()` compares it with; one row of the scan list per SSID, and where the code stops
at the first matching row the model chooses any. `RETRY_PSK` is modelled as the code has it, and
`NoRetryLoop` shows that it is never taken unless `late`. `apply_wifi_ssid` takes the SSID as it is once "gemini-", which
older scripts put before a profile's name, is taken off (lines 2323-2326): the model is about networks whose own
names do not begin like that.

NetworkManager, the radio and the script are the environment: a job that ends may print anything it can
print at any time (`PollInfo` any state, `PollScan` any list, `PollLink` any SSID, `PollConnect` any
exit status and text of `ScriptAnswers`). Nothing is assumed about how the answers of two jobs relate.

**`WifiJoin`** is the abstract promise: one request at a time, a join is for one network from beginning to
end, is confirmed only after the script answered, and gives way only to a forget, which gives way to
nothing. A password submitted during a confirmation is its one exception (`Resubmit`): it is queued, outlives the
confirmation and its 12 s timer, and may take the place of the join it finds when the queue is next emptied, which may be a
later one (`Overtaken`); a forget ends that. `HudJoins` is its specification under the mapping of `Phase`, `Network` and
`late` of `WifiHud`.

**`WifiHudProofs`** proves the invariants, **`WifiHudRefinement`** the rest; **`MCWifiHud`** holds the definitions the configurations need.

**`PanelDriver`** has one operator per callback of `panel-huaxing-ft8719.c`, from the driver's record to the
driver's record. A callback is told whether its transfers succeed, and `on` is what the glass does.

**`HudDisplay`** is the way of a frame to the glass. `gl` holds the static variables of
`ginkgo-status-gpu.c`; `kms` and `panel` are below it; `pc` is `"wait"` inside `wait_flip`.

| action | code |
|---|---|
| `PresentNoBuffer` `PresentNoFb` `PresentModeset` `PresentRefused` | `hud_gl_present`, by the branch it leaves through |
| `PresentFlip`, then `WaitDone` or `WaitQuiet` | `hud_gl_present` through `wait_flip`: up to the flip, and from the end of the wait |
| `WaitEvent` `WaitQuiet` | an iteration of `wait_flip` that reads events, or whose `poll` times out |
| `WaitInput` | `gl_idle`, which is `drain_inputs`: the power key calls `set_screen` in the middle of the present |
| `PowerKey` `IdleOff` `TouchWake` | `set_screen` from the main loop, with all of `hud_gl_blank` |
| `Vblank` | external: the flip takes effect and its event is queued |

The kernel is modelled as the HUD uses it: a modeset of an active CRTC only changes the buffer, one of an
inactive CRTC enables the panel unless the DRM core's flag says that it is enabled, switching the CRTC off
completes the flip under way and disables the panel. GBM is the set `locked` of buffers it handed out.
`Faults` is a constant: the set of operations that may fail in an instance, so that every property names
what it depends on.

**`WifiScript`** is `ginkgo-wifi-connect.sh`. `sh` holds its place and its variables, `nm` the profiles and the
one radio's activation. One step is one nmcli call or one read of its answer, so that NetworkManager (`NmConnected`,
`NmFailed`, `NmLost`, `NmAuto`) and the HUD's kill come between any two.

| action | code |
|---|---|
| `Join` `Forget` `Kill` | `wifi_connect`, `wifi_forget`, `abort_job` of the HUD |
| `ReadState` `ReadRow` | `live_ok`: the state of the device, then the row in use; `wait_live` and `already_up` are loops over it |
| `Choose` `TrySaved` `Judge` `NeedPassword` `OpenFailed` | without a password: the saved profiles one by one, then NEED_PASSWORD or an open profile |
| `ModifyExisted` `Existed` `DeleteProfiles` `Add` `ModifyAdded` `RetryPsk` `DeviceConnect` `Explain` | with a password: modify what is there, or delete and add, WPA-PSK after SAE, `device wifi connect` |
| `Up` `UpWait` | `nmcli -w 30 connection up`, and its end |
| `DeleteId` `DeleteLegacy` `ListForget` `ReadInUse` `Disconnect` | forget |

A profile is `ssid`, `name`, key management, the stored secret and whether the secret comes from an agent; a
password is the access point's own ("good") or not. Writes may fail where the script goes on without looking.
`WifiHud` takes the exit status and text of the script as inputs (`ScriptAnswers`); `Exit` of `WifiScript` is where
they come from. `LegacyAssumption` says that no network is called "gemini-" and the name of another: older builds gave
that name to a profile, and `uuids_for_ssid` (line 116) takes whatever profile bears it for the network's own, so that a
network really called so would have its profile changed by a join of the other. The model and the proofs are
about machines without such a pair of names.

**`TouchInput`** is `handle_ev` and all it calls. `kern` is the slots as the kernel has them, `queue` the frames the
HUD has yet to read, `hud` the static variables.

| action | code |
|---|---|
| `handle_ev` | the events of one frame and its SYN: dropped (`mute`), waking (`Wake`), or a contact that begins (`Contact`), moves (`Moved`, `Slide`) or ends (`Released`) |
| `Power` | KEY_POWER and the idle timer: `set_screen` |
| `JobSheet` | `poll_job` and `maybe_confirm_join` open or close the password sheet |
| `Later` | the 250 ms after an unblank, or the 3 s after a blank, are over |
| `Land` `Move` `Lift` | external: fingers; a queue that is full becomes one SYN_DROPPED |

**`UsbGadget`** is `usb-gadget-rndis.sh` as the sequence of steps it has still to do, over the configfs tree; the step
that removes a node has the node's name.
`setup_gadget`, `Mkdir`, `find_udc`, `setup_network`, `teardown_network` and `teardown_gadget` are its functions,
under `set -e` each step without a "|| true" may fail and end the script with part of what it makes left behind,
`Killed` may replace any step, `SystemdStart`, `SystemdStop` and `ByHand` are its callers, `usb_host` and
`usb_gadget_disconnect` the two other programs that unbind the gadget.

**`QgGauge`** is `qcom-pmi632-qg.c`: one action per register access of `qg_get_property`, for any number of readers,
and the arithmetic as operators under the driver's names. `ReadEntry` is an iteration of the loop over the FIFO, with
the loop's counter, sum and number of samples in the reader's record; `volts` remembers the voltage words it has
read. `Scaled` splits a product that does not fit TLC's
integers; `ScaledExact` in `QgGaugeProofs` shows that it is the driver's 64-bit quotient.

## The runs

Bounds: two networks are the fewest that tell a stale selection from the current one, a queued request from
the one under way and a name from its sibling; every variable is finite, so nothing is cut off and there is
no state constraint. The 12 s timer is a choice: it may have run out at any iteration in which the wait
was on before.

| run | instance | shows |
|---|---|---|
| `wifi_hud_faults` | two symmetric networks, any job may fail to start | the spinners, the queue, the selection and the one job stay tied together |
| `wifi_hud_names` | an ordinary network and an 802.1X one with a sibling name, jobs start | `TypeOK`; the HUD implements `WifiJoin`; the script is never started for an 802.1X network, though the list it is looked up in changes |
| `wifi_hud_live` | one network, jobs start, fairness | every request ends, and the queue drains |
| `wifi_hud_pass_title` | violation | the password sheet can name one network and submit for another |
| `wifi_hud_sibling` | violation | a report of the network being joined can be ignored |
| `hud_display` | four buffers, rendering may fail | no tearing, no left-over flip or event, HUD, CRTC and glass agree, the panel is powered once |
| `hud_display_faults` | three buffers; modesets, flips, swaps, panel commands and supplies fail, flips are late; fairness | no buffer is lost, events do not pile up, frames come back |
| `hud_display_unblank` | violation | an unblank after a CRTC that could not be switched off leaves the panel dark |
| `wifi_script` | two networks, room for two profiles, one more poll; calls that fail, kills | profiles are kept, wrong saved passwords surface, accepted ones are stored, networks are not lost, a forget forgets |
| `touch_input` | two slots, two touches, two queued frames | a live finger is kept, a touch taps once, nothing stays held, the brightnesses agree |
| `usb_gadget` | the whole state space, any step may fail or be killed | a stop that ends leaves nothing, a restart that ends has repaired whatever it found |
| `qg_gauge` | two symmetric readers, two FIFO entries, failing accesses, warm restarts | HOLD is released; a capacity of 0 means that every voltage word read says so; the current is between valid samples |

Display bounds: a surface of GBM has four buffers, and three are the fewest with which one can be on the screen,
one under way and one free. `MaxSpins` is the code's four quiet polls. At most two events are ever queued,
which is proved. `MaxSupplies` counts the supplies to two, enough to see them enabled twice. A blank in a
wait is followed by an unblank in the same wait only when the flip may be late: the power key is ignored for
400 ms and a touch for 3 s, and a flip that is not late lands within a frame.

Script bounds: two profiles are the fewest with which one shares the network and another the name, and with which an
add may find no room; every combination of eight kinds of profile is a start. The script asks for `s1` only,
because the networks differ in nothing else. Touch bounds: a second finger, a slot that is used again and a queue
that overflows need two of each; the third touch that some of these would need repeats what the second shows.
Gauge bounds: the raw words are the two that mean "no sample" and one on each side of them, the voltages and states of
charge those at the ends of the ranges; the proofs are about all of them. `usb_gadget` has no bound.

`wifi_hud_live` has one network because liveness of a request does not depend on another network's name, and
the state graph stays small enough for TLC's temporal check. It assumes that jobs start: `wifi_connect`
ignores the result of `start_nmcli`, so a join whose script cannot be started keeps its spinner until the
user forgets the network (hazard at `ginkgo-status.c:2179`).

**Fairness.** `WF(PollNothing \/ PollJob)` and `WF(Kick)`: the main loop never blocks (reads are
non-blocking, `waitpid` uses `WNOHANG`) and never exits. `SF(PollJob)`: a job ends by itself, since the
`nmcli` calls and the script bound every wait, and the loop reaps it when it has. Strong, because the action
is disabled in the other half of each iteration. The last conjunct says that time passes: a wait that stays
on is ended by the timer. Taps are not fair. `JoinEnds` and `QueueDrains` are about a user who leaves
the HUD alone, because each password submitted during a join legitimately starts another. For `JoinEnds` that is
one who submits no password, with the sheet (`TapPassJoin`) or through a held key (`osk_on_up`), and has none left over in the
queue (`late`): a password run with another join's flags may be answered by "need" over and over.

The other modules state no fairness and are checked for safety only.

For the display, `WF(Vblank)` is the kernel's promise of an event per flip, `WF(WaitEvent \/ WaitDone)` and
`WF(Present)` say that the loop goes on, and `SF(PresentModeset /\ gl'.crtc_set)` that a modeset tried for ever
works in the end; the code has nothing else to offer than to try again. Keys and touches are not fair.
`FramesComeBack` is not checked with a failing `eglMakeCurrent`, after which the code does not render until the
next blank, nor with a failing `drmModeAddFB2`, which loses a buffer each time (both are listed hazards).

**Symmetry** is used only where no constant tells the networks, profiles or readers apart and only for
properties without liveness.

**What the properties leave out.** Each of these is what the code does, and a listed hazard says where.

* No property is about the name on the home card: while NetworkManager is busy by itself it is the last join's target,
  although nothing joins (`ginkgo-status.c:1415`).
* `osk_held` is cleared neither by `reset_touch` nor when the sheet closes, so a key held when the screen blanks takes the
  release of a later touch, and one held when the sheet closes acts after it (`ginkgo-status.c:1807`). `NothingStuck` leaves
  `osk_held` out. `WifiHud` has such a key, and a password it submits while a join is confirmed makes `late` true:
  `ConfirmingIsQuiet`, `QueuedJoinIsCurrent`, `NoRetryLoop`, `JoinEnds` and `WifiJoin` promise less while it is.
* A flip that `wait_flip` gave up on leaves its event in the queue, and the wait of the next flip ends on it: the
  buffer still on the screen is handed back (`ginkgo-status-gpu.c:241`, against "DRM page flip is the vsync." in line
  456). `ScanoutHeld` is checked and proved for flips that land in time.
* `NetworkNotLost` is about a run that ends by itself. A kill, or an add that fails, between the deletion of the
  profile and the add does lose the network (`ginkgo-wifi-connect.sh:392`). A refused password stays in the
  profile (line 376).
* `PasswordPersisted` is about a run that used its password: one that finds the radio already on the network ends
  with 0 and stores nothing (`ginkgo-wifi-connect.sh:295`).
* `NothingStuck` leaves `osk_held` out: `reset_touch` does not clear it, so a key held when the screen blanks takes the
  release of a later touch, and a key held when the sheet closes acts after it. `WifiHud` has `TapPassJoin` only with
  the sheet up and does not show what such a key would submit.
* `CapacityHonest` trusts the words: two empty voltage words and an empty state of charge are reported as 0 %, for a battery
  that need not be empty (`qcom-pmi632-qg.c:223`).
* `RestartRepairs` and `StopLeavesNothing` are about a script that ran to its end. One of which a step fails promises nothing
  but what the next stop or restart makes of it.
* `HoldReleased` says nothing of the second reader whose read falls after the first one's clear.

## What is proved

`WifiHudProofs` proves for every set of networks, every sibling relation and every failure to start a job
that `WifiHud` keeps `TypeOK`, `ForgetOwnsJob`, `ForgetHoldsSelection`, `ConnectJobIsJoin`,
`ConfirmingIsQuiet`, `QueuedJoinIsCurrent`, `NoRetryLoop` and `ForgottenIsGone`. The assumptions are the
two named ones on the constants (`SsidAssumption`, `HudAssumption`).

None of these is inductive alone. `Inv` is the conjunction of `Hud`'s types and five parts over a HUD state
(three of them with `late` as a parameter), so that lemmas can speak of the states *between* the calls of one handler:

* `ForgetOK`: the forget spinner, its job, its sheet and its selection go together, and exclude a join;
* `JoinOK`: script, spinner and confirmation of a join, behind which nothing is queued unless `late`;
* `PskOK`: unless `late`, a join without a password is for a network whose password the session does not have;
* `GoneOK`: the network being forgotten is not shown, and nothing joins;
* `QueueOK`: a queued join is a password, and no forget is about; unless `late`, it is for `connect_ssid`.

`Mid` is their conjunction and holds between calls; `Good` adds that a queued join has a join to wait for
or is `late`, which holds only after `kick_pending`: between the end of the script and `kick_pending` the spinner is
already off while the queue is still there. There is one lemma per C function that changes state
(`ConnectGood`, `ForgetGood`, `SubmitGood`, `KickGood`, ...), one per job kind that is reaped, and then one
per action.

`HudDisplayProofs` proves about `HudDisplay`, for any number of buffers, in three layers by what may fail:

* whatever fails: `TypeOK`, from `EventInv`, which counts the events queued and still to come: a wait that
  gives up leaves one at most. With no failing framebuffer also `HeldIsKnown`;
* with a kernel that takes commits and flips and lands them in time (`Prompt`): `ScanoutHeld` and
  `NoStaleEvent`, from `PromptInv`, which follows a flip through a wait (under way, its event queued, its event
  read), also when the CRTC goes off in between;
* with a panel that answers as well (`Answers`): `ScreenAgrees` and `PanelPoweredOnce`, from `GlassInv`: the
  CRTC, the DRM core's flag, the glass and the driver's two fields say the same.

The assumptions on failures are needed: the first two are false when a flip is late, the last two when a command to the panel is lost.

`WifiHudRefinement` proves that `WifiHud` implements `WifiJoin` (`HudImplementsWifiJoin`), and in the same pass
over the actions `HudNoEnterpriseJoin` and `HudNoOrphanJoin`. `Effect`
relates the HUD before and after a step: the request goes on, ends, starts, is answered, gives way to a forget or, if
`late`, is overtaken (`RequestStep`), and what holds of the target and of the spinner still does. A call that starts no request is `Calm`, and
a `Calm` call has that effect, so that only the calls that do start one (`wifi_connect`, the forget, the submitted
password) and the reaping of a job need an argument of their own. `NoEnterpriseJoin` is not inductive: the security is
copied when a row is selected, the row may leave the list, and `TargetOK` says that the copy then is still the selected
network's own. `HudNoOrphanJoin` assumes `Starts = {TRUE}`, for the reason given for `wifi_hud_live`.

`WifiScriptProofs` proves about `WifiScript`, for every set of networks, names, profiles and number of polls, with every
write allowed to fail and a kill before every step: `TypeOK`, `SavedWrongSurfaces`, `PasswordPersisted`, `NetworkNotLost`,
`ForgetForgets` and `ProfilesKept`. `Inv` says which places of the script each of its three uses may be at, and where a
loop of polls or a failed activation goes on from there (`Places`); that the profiles a loop still has before it exist and
match the network (`TodoKnown`, `WorkedOn`); that a refused password is judged (`RefusalJudged`); and one part per
promise that says from which place on it holds (`NotLost`, `Persisted`, `Forgotten`): a profile may be missing only
between the delete and the add. `NamesOK` keeps `LegacyAssumption` true of the profiles the script makes.

`TouchInputProofs` proves about `TouchInput`, for every number of slots and touches and every length of the queue:
`TypeOK`, `BrightnessAgrees`, `OneTapPerTouch`, `NothingStuck` and `LiveFingerKept`. `Fine` is about the HUD alone and is
kept by every call (a bound finger has a slot and a lit screen, a contact has a finger, a drag a contact). `KernOK`,
`BoundOK` and `TappedOK` tie it to the kernel: touches have different numbers, none of them used again; the finger the
HUD is bound to is in the slot the HUD has it in, or has gone, and then a frame that says so is still to be read; a
touch that has tapped is in no slot any more. `NothingStuck` is not inductive without the promise of a frame to come.

`UsbGadgetProofs` proves about `UsbGadget`: `TypeOK`, `StopLeavesNothing` and `RestartRepairs`. The model has no constant,
so that the run is exhaustive as well; the proof says why the scripts are right. A script is always a tail of one of six
sequences (`Start`, `Build`, `Stop`, `TeardownGadget`, `Restart`, `Rebuild`), and `Phase` says for its place in it what has
been made by now (`Made`, `Linked`) or has gone (`Gone`). The order of `teardown_gadget` is what `GoneBefore` is about:
when a directory's turn comes, nothing that would keep it is left. `Sound` says what the kernel guarantees of any half of
a tree. That two sequences in a row are the sequence one expects is proved step by step (`Joined`, `RestIs`).

`QgGaugeProofs` proves about `QgGauge`, for any readers, FIFO length, raw words and states of charge, and whatever
fails: `TypeOK`, `HoldIsReleased`, `CapacityIsHonest` and `CurrentIsHonest`. `GaugeInv` behind them is `HoldReleased` with
`Threads`: every reader's record has its type, a capacity it has answered was honest when it was computed, its voltage
is not below any voltage word it has read (`Heard`), and what it knows of the current is sound (`Known`). While it reads the FIFO the sum of n samples lies between n times the smallest
and n times the largest of them (`SumOf`); dividing by n, towards zero, leaves the mean between the two. That is why the
FIFO is read one entry per step: a sum computed by one recursive definition could not be reasoned about. `OnlyOne` and
`HoldKept` say once for all actions that a step of one reader disturbs no other and keeps HOLD accounted for.
`ConversionsFit` and `CapacityMonotone` are about the operators: what they return fits the driver's `int`, and a higher
voltage never gives a lower capacity. The assumption is `GaugeAssumption`, which says what a 16-bit register can hold.

## What is only model-checked, and what is not modelled

Liveness under fairness is out of the prover's reach and stays with TLC: `JoinEnds`, `ForgetEnds`, `ConfirmEnds` and
`QueueDrains` of `WifiHud`, `FramesComeBack` of `HudDisplay`. Every safety invariant, action property and refinement that a passing run checks is
also proved. The proofs are about the models: that a model does what the code does rests on reading, and that each
property would notice a plausible bug on the mutants.

Not modelled, and why:

* the texts and colours shown, signal strengths, list scrolling and the length limits of buffers; the renderer and
  the panel's command tables: no decision depends on them;
* the backlight driver: two writes of one value, no state;
* boot, first-boot scripts, reboot to fastboot, host scripts: one process, one pass, in an order the source fixes;
* `src/reference/`, `src/firmware/` and the font: vendored or generated. They are most of the repository's lines.
