# A specification of the watch pre-test tools

`src/jz_pretest` is the factory test of a wrist watch: a shell script that walks
through the hardware list, one test program or script per item, and the operator
who touches the screen after each. This directory holds TLA+ specifications of its
parts, the TLC configurations that check them on small instances, and theorems
about them that TLAPS proves for all values of the constants.

`PROJECT.json` lists the runs, the mutants that show each property can fail, the
source lines each definition stands for, the hazards and the theorems.

## 1. The system

Paths are relative to `src/jz_pretest`.

| Part | State it keeps | Operations |
|---|---|---|
| **Orchestrator**: `pretest.sh`, `LoadPretest.sh`, `test_eventnum.c` | position in the checks, `err`, `failed_count`, the failures in `$@`, `/tmp/check_touch.log` | `checktouch`, `check_scripts`, hang or last touch |
| **Touch widget library**: `test_keyboard/widget.c`, `list.c`, used by `inputevent.c` and `test_touchscreen/test_touchbutton.c` | touch state (`rec_touch`), per button `result`, `mode`, picture | `start_listen`, `get_touch`, `catch_action_for_button`, `draw_button`, callbacks |
| **DHCP client**: `test_wifi/libnetutils/dhcpclient.c`, `dhcpmsg.c`, `packet.c` | state, timeout, transaction id, the one `dhcp_info` | `do_dhcp`, `dhcp_init_ifc` |
| **Interface utilities**: `ifc_utils.c`, `netcfg.c`, `test_wifi.sh` | one global control socket, the interface's addresses, routes, flags, DNS properties | `ifc_*`, the commands of one `netcfg` line |
| **dhcpcd protocol**: `dhcp_utils.c` | system properties shared with the dhcpcd daemon | `dhcp_do_request`, `dhcp_do_request_renew`, `dhcp_stop`, `dhcp_release_lease` |
| **Current test**: `get_select.c` and `currenttest` in six scripts | a log written by a background `getevent` | poll loop until a touch selects pass or fail |
| **Bluetooth bring-up**: `test_bluetooth/test_bluetooth.c`, `test_bluetooth.sh` | serial line to the controller, alarm | reset with retry, read address, event filter, scan enable, test mode |
| **sndkit**: `test_speaker/sndkit_only_replay` | device, two threads, the WAV being cut or expanded | play, record, `makewav`, `strip_wav` |
| **OSS audio test**: `test_audio/oss_test/sndtest.c` | device, alarm flag | record and replay until the alarm |
| **LCD test**: `test_lcd/test_lcd.c` | two frame buffers and which of them is shown | fill, pan, seven pictures |
| **VCOM writer**: `test_write_vcom_vol/vcom.c` | a partition image | read, change, write back |
| **Sensor polls**: `test_frizz.c`, `test_pah8001.c`, `test_current.c`, `test_charge.sh` | attempts made, the last sample, good reads so far | polling loops and their verdicts |
| **Log parsers and samplers**: `get_coordinate.c`, `get_proximity.c`, `test_gsensor.c`, `test_brightness.sh`, ... | none that outlives a call | parse one log, print |
| **Image and text helpers** | none | output |

How they meet:

- The orchestrator starts every other part as a child and sees its **exit status**,
  nothing else. Programs that return 0 on an error (`inputevent`, `sndkit`,
  `sndtest`, `vcom`) therefore pass silently.
- `/tmp/check_touch.log` is **shared**: `checktouch` writes it, and the current test
  of a later script reads it, through `test_eventnum`, to learn which device the
  touch screen is.
- `netcfg` calls the DHCP client, which calls the interface utilities, and all
  three use the same global control socket.
- The touch library is a **callback** system: the library stores a result, calls the
  program's `func`, and reads afterwards what the callback did to `mode`.
- Kernel queues (evdev), the network segment, the Bluetooth controller and dhcpcd
  run **concurrently** with the program.

What is hard here, and what makes each part correct:

| Part | Hard behaviour | Correct when |
|---|---|---|
| Orchestrator | a touch screen registering late; one `err` for all calls; the count and the list of failures kept apart | a pass means all listed tests passed; every failure is counted, and none is shown that was not; a test starts only after a touch; the run ends |
| Touch widget | lost events when the queue overflows; early returns from a read loop; results, callback and mode in order | only touched buttons are counted; every tap is counted; the listening ends exactly when the results are complete; pictures follow the finger |
| DHCP client | replies lost, late, repeated or a neighbour's; one `dhcp_info` overwritten by each packet; doubled timeouts | what is configured was granted to this host; only answers to this host's transaction matter; it ends within the backoff |
| Interface utilities | nested open and close of one global socket; partly done configurations | a command never uses a closed socket; a failure is reported |
| dhcpcd protocol | a result left from an earlier request; a late one | a result from before a request is never its answer |
| Current test | a log not yet created by the background process | a missing log is not a failed test |
| Bluetooth | a resent reset is answered twice; no timeout after the reset; a closed line | an answer belongs to the command waited for; it ends |
| sndkit, sndtest | short chunks, 24 and 32 bit lengths, threads over one device | lengths agree with the data; both threads end |
| LCD | two buffers drawn in turn by three functions, sizes that do not divide, pans refused | the screen shows whole pictures, in their order |
| Sensor polls | reads that fail between good ones, samples of the wrong length, parts that are left in test mode | a sample is of one attempt, an earlier reading is not judged again, and a part that passes has been put back |

## 2. The modules

| Module | Models | Extended by |
|---|---|---|
| `Lease` | what a DHCP client promises: ask for what was offered, end with what was granted | implemented by `DhcpClient` |
| `DhcpClient` | `do_dhcp`, `dhcp_init_ifc` and the segment around it | `MCDhcp` (runs), `DhcpClientProofs` |
| `TouchWidget` | `start_listen`, the touch state machine, the evdev queue | `MCTouch`, `TouchWidgetProofs` |
| `Pretest` | `pretest.sh`, `test_eventnum` | `MCPretest`, `PretestProofs` |
| `Sndkit` | `sndkit`: main, replay and record threads, `makewav`, `strip_wav`, the 24 and 32 bit conversions | `MCSndkit`, `WavProofs`, `MCTools` |
| `Netcfg` | the commands of a `netcfg` line down to their ioctls, `ifc_configure`, `test_wifi.sh` | `MCTools`, `NetutilsProofs` |
| `CurrentTest` | the loop `currenttest` of six scripts, `get_select`, the background `getevent` | `Bluetooth` |
| `Bluetooth` | `test_bluetooth`, its script, the controller; the work of its current test | `MCTools`, `ScriptProofs` |
| `DhcpcdProps` | the functions of `dhcp_utils.c`, init and the daemon around them | `MCTools`, `NetutilsProofs` |
| `SndTest` | `test_snd.sh` and its three runs of `sndtest` | `MCTools`, `ScriptProofs` |
| `Lcd` | `test_lcd` with its two buffers, drawing call by drawing call | `MCTools`, `ScriptProofs` |
| `Sensors` | the polls of `test_frizz`, `test_pah8001`, `test_current`, `test_charge.sh` | `MCTools`, `ScriptProofs` |
| `MCTools` | `Sndkit` and the tools below it, in one behaviour space: `pretest.sh` runs one script at a time, so a behaviour is one tool's and the others are at rest | run `tools`, `ToolsProofs` |

Definitions named "Mutant" beside an action are that action with a plausible bug.
They belong to no specification; each property is shown to fail under one of them.

### DhcpClient

The client is one process blocked in `poll`. `pc` is "start", "poll" or "returned";
the other variables of the first block are the locals of `dhcp_init_ifc` and
`last_good_info`. Each action is one turn of the loop:

- `Resend`, `AssumeOffer`, `GiveUp`: `poll` returned 0. The timeout is doubled up to
  `TIMEOUT_MAX`; at the limit the client configures what `info` holds if its type is
  an offer, and otherwise fails.
- `Discard`, `TakeOffer`, `TakeAck`, `TakeNak`, `IgnoreType`: a packet arrived. All of
  them begin with `Arrives`, which decodes the packet into `info` **before** anything
  asks whose packet it is, as `dhcpclient.c:487` does.
- `LinkFails`, `SetupFails`, `Begin`: the other exits, and the prologue. `sock` may be
  "bad": the result of `open_raw_socket` is never looked at.

The segment is external. `wire` holds every message the client sent, `replies` every
reply a server sent to it. Neither forgets, so a reply can be delivered late, twice,
out of order or never. `Noise` is what the raw socket overhears: any well formed
packet to a neighbour, and broken packets to this host. Servers are assumed to keep
to one offered address and to grant only what they offered.

Abstracted: checksums, ports and lengths (a packet that `receive_packet` filters out
is a stuttering step), the lease's other parameters (they travel with `ipaddr`),
`ifc_configure` (ok or error).

`ImplementsLease` is the refinement. In `Lease` the offers and grants are those in
`replies` (`LeasesOf`), what was asked for are the messages with an address
(`LeasesAsked`), and the outcome and the configured lease are those of the return:
"leased" after an ACK, "fallback" after `AssumeOffer`. Receiving, discarding and
resending are stuttering steps. It is claimed for a segment without neighbours; with
one, finding 1 is in its way.

### TouchWidget

One evdev queue between the driver (`Report`, `Lift`) and the listener. The screen is
a grid: X and Y are separate events, as in the kernel, and a button is a cell. `Push`
is the evdev client buffer: when it is full, everything but the newest event is
replaced by one `SYN_DROPPED`. The listener reads one event per step: `ReadAbs`
stores a coordinate and resets the touch state; `ReadSyn` advances it
(RESET, KEEP, END); `TouchOff`, `TouchOn`, `TouchEnds`, `IdleSyn` are the cases of
`catch_action_for_button` followed, where a button's id is returned, by `Dispatch`:
store the result, call the callback, look at the mode. `check_bt` is the callback of
the touch screen test.

The constants choose the program: `Callback` = all buttons and no `EcsButton` is
`test_touchbutton.c`; no callback and `EcsButton` = pass and fail is `inputevent.c`.
`Fast` and `DrawEnd` are the button's `Fast_Touch` and `Draw_Button_In_End`.

`touched` and `tapped` are history variables. Where a touch began is not kept, as in the code.

Abstracted: pixels (a coordinate is the row or column it falls in), the drawing
lock, key pictures (`catch_action_for_keyboard`), `MaxReports` bounds the driver.

### Pretest

`pc` is the place in the script: "ask" and "again" (the loop of `checktouch` before
the first `getevent` and after it), "items" (the loop of `check_scripts`), "script"
(a test runs), "hang" and "passed". `check` counts the calls of `check_scripts`,
with 0 for the touch before them and `LastTouch` for the loop at the end.
`GetEvent(device)` is one `getevent -c 1`: it writes the log, looks the number up and
decides. `ExitStatus` is what the shell makes of `return -1`. A test script is its
exit status.

The touch screen may register late (`Register`). `runs` and `confirmed` are history.

### Sndkit

`main` and the two threads are three processes. `p_pc` and `r_pc` are the places in
`play` and `record`: "read" and "write" are the two halves of a chunk, "none" before
the start. A byte is its number in the stream it comes from, so that a lost, repeated
or displaced byte shows. `wav_expand_24bit_to_32bit` and `wav_32bit_to_24bit` work on
a memory from 0, in the order in which the code moves the samples; the reference is
`Widened` and `Narrowed`. `makewav` and `strip_wav` share the variables of `play`
(`Copy`), since they run instead of it. A write takes any part in `Parts`, a read of
the device or of a pipe delivers any part, and each of them may fail.

`recorded` is what was written to the output file, by `record`, `makewav` or `strip_wav`.
None of the three opens the file with `O_TRUNC`: `RecordFile` is what is then found under
its name, with an older file of `OldLen` bytes showing where it was not written over
(`OldByte`). `RecordedWhole` and `ConvertedWhole` speak of `RecordFile`.

`buffer_size` may be any number, as `-B` has it. With one that is no multiple of three each
chunk of a 24 bit WAV file ends within a sample, whose rest `play` drops: `PlayedIsFile`
has the condition `Aligned` for this reason.

Assumed: a regular file is read in full blocks; 24 bit samples are played from files only;
the device delivers whole samples of four bytes to a 24 bit WAV recording. When the last
chunk of a 24 bit file has one or two samples, `assert(src == data)` (`wav.c:192`) is false:
the program ends there ("aborted"), unless it was built without assertions. The options, the
header's fields and the mixer only decide the parameters or a failure before the start
(`SetupFails`).

### Netcfg

`ops` is what is left of the current command, most of it one ioctl each; `done` the
commands of the line that succeeded. Each operation may be refused (`Refused`), and
`Others`, another program or the driver, may act between any two. The kernel's side,
`net`, is external: taking an address away or lowering the interface flushes its routes,
a new address takes the prefix length of its class. `TestWifi`, `CallNetcfg`,
`SeeLowered` and `SeeRaised` are `test_wifi.sh`, which only sees what is printed.

### CurrentTest and Bluetooth

`log` is `/tmp/test_select.log`: absent, empty, or what `get_select` makes of its five
lines. `forked` counts background shells that have not yet opened it, `linked` the
`getevent`s that write to the file which has that name now; one that writes to a removed
file has no effect. A touch may or may not complete the five events. `taken` are the touches
whose events a `getevent` has so far: the five lines may be of several, and a driver does
not repeat an x or a y that is what it was, so `Tells` combines the x of one place and the
y of another, or the zero that `get_select` begins with (`Origin`; `F1` turns the screen).

`hci` is the number of the command whose answer `test_bluetooth` waits for. `pending`
and `events` are the two directions of the line. The controller is external: it boots
once it is powered, loses or keeps what it was sent before, then answers in order, with
an error only if it is faulty. `Expired` is the alarm handler, which sends the reset
again until something was read. In `test_bluetooth.sh` the exit code decides once; in the
current test the same program is the work and its code is not looked at (`ExitWith`).

### DhcpcdProps

Any number of callers; `call[c]` is the place in a function, its answer, and what was
seen since its erasure or `ctl.stop`. A wait ends with the awaited value or, at any time,
because the naps are used up. An "ok" does not say to which request or interface it is an
answer, here as in the code. External: init and dhcpcd. Init does nothing to start a service
that runs. It is assumed to handle a `ctl`
property before a nap of 200 ms ends; the daemon's hook writes the lease before the result,
and may do both until it is reaped.

### SndTest

The three processes of `test_snd.sh` one after the other, each with new variables.
`record_file` may hold an older recording. The alarm may go off anywhere in the loop;
a read is restarted, not interrupted, by it.

### Lcd

`memory` is the mapped device, a word per pixel, `smem_len` its length, which the driver
chooses and the code never compares with what it draws (`test_lcd.c:87`), and `yoffset` the
pan it shows. A write beyond it is lost (`Beyond`). A picture is a sequence of blocks
(`strokes`), and each step draws one: `FillColor`, `Stripes` and `Squares` are the three
kinds, `NextPicture` the pan between two, which may be refused. As in the code the blocks
are addressed by the screen's width and filled by the stride; where lines are padded the two
differ, so `ShowsPictures` speaks of screens whose lines are not and, like `DrawsInMemory`,
of memories that hold two buffers (`TwoBuffers`). Assumed: a pan takes effect at once; a
pixel has 32 bits, as the drawing functions have it whatever `vi` says. `Expected` states
what the code shows where its comments are silent: the lines that three stripes leave over
keep the black of the fourth picture, and the stripes are on the screen only until `Squares`
clears both buffers, the visible one too. `progress_bar` and `gr_exit` are not called and
left out.

### Sensors

`raw_data` holds the words of a sample that are as they should be, and `seen` what the
part delivered. `frizz_test` is one attempt of any of the three tests, which differ in
the number of words; `Pah8001Start` to `poweroff` are the two tests of the PAH8001 with
an error path from each ioctl; `ReadCurrent` may read nothing, and then judges what is in
its buffer, uninitialized at first; that loop need not end. A
failed read of the frame average only ends its loop, so that it may pass with nothing read.
`Cat` may fail and give nothing, which the shell's `-eq` takes for 0 (`test_charge.sh:69`);
`PollFails` is the node that holds neither 0 nor 1. `Plug` is the tester's doing.
The screens of `test_current` are `TouchWidget`'s.

## 3. The runs

| Run | Instance | Shows |
|---|---|---|
| `dhcp_shared` | one server, two addresses, one neighbour, two transaction ids | `TypeOK`, `AckedLeaseIsOurs`, `SelectedOfferRequested`, `BackoffBudget`, `AdvancesOnOwnAnswer` (an answer to this client's transaction, an ACK for an address one of its REQUESTs named) with foreign packets at any time |
| `dhcp_alone` | two servers, two addresses, BOOTP, no neighbour | `ImplementsLease`; `QuietEnds` under fairness |
| `dhcp_assumed` | as `dhcp_shared` | **violated**: `AssumedWasOffered` (finding 1) |
| `touch_screen` | 2 by 2 grid, three buttons of different kinds and a free cell, queue of 4, 5 reports | `TypeOK`, `EndsWhenAllCounted`, `PictureFollowsTouch` under overflow |
| `touch_live` | a key and a pass and a fail button (both `ECS_LISTEN`, one of them `Fast`), a free cell, queue of 16, 4 reports | `CountedWasTouched`, `OneVerdict`; `TapCounts` under fairness |
| `touch_torn` | four buttons, queue of 4 | **violated**: `CountedWasTouched` (finding 2) |
| `pretest_watch` | a list of eight items, one without a check, one listed twice | the type, `PassMeansAllPassed`, `FailuresNamed`, `ScriptFindsTouchscreen`, `StartsAfterTouch`; `EndsOnceFound` under fairness |
| `pretest_late` | the same | **violated**: `RunEnds` (finding 3) |
| `pretest_twice` | the same | **violated**: `FailedAreShown` (finding 4) |
| `tools` | `MCTools`, one tool at a time, see below | the properties of sndkit (`PlayedIsFile`, `RecordedIsSound`, `RecordedWhole`, `ConvertedWhole`, `LoopsEnd`), netcfg (`Configured`, `NoOldLease`, `SocketLost`, `WifiOk`), the current test and Bluetooth (`VerdictWasTouched`, `UnselectedIsRace`, `SuccessIsReal`, `TestEnds`), dhcp_utils.c (`FreshAnswer`, `StopForgets`), test_snd.sh (`HearsThisRecording`, `ScriptEnds`), the LCD (`ShowsPictures`, `DrawsInMemory`), the sensor polls (`PassRestsOnReads`), and the types of all |
| `sound_record` | sndkit alone | **violated**: `AllEnds` (finding 5) |
| `bt_slow` | Bluetooth alone | **violated**: `GoodPasses` (finding 6) |

### Bounds

- DHCP: two transaction ids are the fewest that tell an answer to the DISCOVER from
  one to the REQUEST; every REQUEST of a run uses the same id, so more add nothing.
  Two addresses let an overheard offer differ from the own one. One neighbour is
  enough, since `Noise` holds every packet it could cause. The
  proofs drop all these bounds.
- Touch: a queue of 4 overflows inside the second group, so both torn groups and lost
  lifts occur; 5 reports allow a touch on each of three buttons with slides between
  them. 4 reports and 16 places mean no overflow (at most 3 events per report and one
  per lift), and allow a tap on each of the three buttons of `touch_live`.
- Pretest: the list has an order different from the checks', an item without a check
  and a repeated one; all results of the scripts are tried.

- sndkit: a buffer of 24 bytes is the smallest multiple of 12 that holds more than one
  sample of three and of four bytes and splits between them; files of 26 and 34 bytes
  end in a later chunk, with a rest that is no sample; trailers of 8 bytes and files
  cut by 6; a recording of 36 bytes is a chunk and a half; incomplete reads and writes of 5
  bytes split samples of every width. An older file of 40 bytes is longer than all that is
  written, so that its end shows.
- netcfg: two leases tell an old one from a new one; two lines and two doings of others
  allow a lease, a disturbance and a failing second line.
- Bluetooth: three commands or answers on the line are the first reset and two repeated
  ones; two background processes not yet running are one more than a current test has unless
  it is quick; the screen is not turned (`F1`), and it is touched above the buttons on one
  side only (`AboveOn`), which is where a log without an x falls; one further script gives
  the second current test, which may find the log of the first.
- dhcp_utils.c: two callers and three calls are a request that timed out, or a stop, and
  two that follow or overlap it. Two p2p interfaces share all properties, which is the
  only case in which callers meet.
- test_snd.sh: a buffer of two samples; the old recording of four is longer than some and
  shorter than other new ones of at most five.
- LCD: a screen of 3 by 5 and a board of 2 by 2: neither stripes nor squares divide it,
  so a word and lines are left over; padding of 0 and 1; a memory of 40 words holds two
  buffers of padded lines exactly, one of 29 not even two of lines without padding.
- Sensor polls: three attempts, words and polls show a repeated, a short and a last
  sample; four reads of which two are not enough let the number of good ones fall on both
  sides.

`CHECK_DEADLOCK FALSE` is set everywhere: all programs return.

### Fairness

- `DhcpClient`: `poll` restarts with the whole timeout after every packet, so a
  timeout is certain only when packets stop. Weak fairness is on
  `segment = "quiet" /\ PollTimesOut` and on nothing else; deliveries and servers are
  not fair.
- `TouchWidget`: weak fairness of the listener. `epoll_wait` is level triggered, so
  events left in the queue wake it again; the driver is not fair.
- `Pretest`: weak fairness of the script's own steps (every test script returns)
  and of `Register`; strong fairness of the operator's touch, which other devices'
  events may precede but not prevent for ever.

- sndkit: weak fairness of main and of each thread's steps other than failures: the
  threads are scheduled, the device delivers and takes sound.
- Bluetooth: weak fairness of the controller (boots, answers), of the alarm and of the
  programs; strong fairness of a touch of "success" that completes the five events and
  makes that log: the operator touches again while nothing happens. A closed line is left out.
- test_snd.sh: weak fairness of its steps, and of the alarm.

## 4. What is proved

TLAPS checks every proof to the last leaf. Every invariant and every action property that a
passing run checks is a theorem, and so is the refinement; liveness is only model-checked.
Assumptions on bounds say that they are numbers; those that restrict more are named below,
and so are the conditions within a property (`Aligned`, `TwoBuffers`).

| Module | Proves about |
|---|---|
| `DhcpClientProofs` | `DhcpClient`, `Lease` |
| `TouchWidgetProofs` | `TouchWidget` |
| `PretestProofs` | `Pretest` |
| `WavProofs`, `SndkitProofs` | `Sndkit`: the conversions; the player, the recorder and the copies |
| `ScriptProofs` | `SndTest`, `CurrentTest` and `Bluetooth`, `Sensors`, `Lcd` |
| `NetutilsProofs` | `Netcfg`, `DhcpcdProps` |
| `ToolsProofs` | `MCTools`: all of the last three rows at once |

**`DhcpClientProofs`**, for any servers, addresses, neighbours and number of
transaction ids, from `ClientAssumption` (no neighbour has this host's hardware
address), `ZeroAssumption` and `XidAssumption`:

- `TypeCorrect`, `BackoffCorrect`, `AdvancesCorrect`, `AckedLeaseCorrect`,
  `SelectedOfferCorrect`: the properties of `dhcp_shared`. `AdvancesOnOwnAnswer` does not say
  which of several REQUESTs an ACK answers: they share one id, and a repeated one is built
  from what `info` then holds.
- `UsesOnlyOffersCorrect`: with `Neighbour = {}`, requests and the fallback are for offers only.
- `ImplementsLeaseCorrect`: with `Neighbour = {}`, `Spec` implements `Lease`, the property
  of `dhcp_alone`.

`BackoffBudget` is not inductive. It needs how much time has been spent in terms of the
state and the timeout: in the first state, `timeout - 4000`, in the second at most 28 s
more. `AdvancesOnOwnAnswer` needs that every answer to this host follows a message of it
with the same type, id and, for an ACK, address (`AnswerInv`). `AckedLeaseIsOurs` needs an
invariant of the segment (`ReplyInv`): every reply with an address carries an address and
server that were offered, an ACK moreover one that the client requested, and it has options.
`ImplementsLease` needs all of these, that without a neighbour what `info` holds was offered
to this host (`AloneInv`), and that offers and grants are complete (`WholeInv`); then every
action is one of `Lease`'s or a stutter (`StepImplements`).

**`TouchWidgetProofs`**, for any grid, buttons, kinds and queue length:

- `TypeCorrect`; `PictureCorrect` and `VerdictCorrect` without further assumption;
  `EndsCorrect` for the touch screen test (all buttons have `check_bt`, none is given
  ECS_LISTEN, and there is one).
- `PictureFollowsTouch` needs that the picture of a button to be released is drawn
  pressed only while `bt_id` is it; `OneVerdict` that an ECS_LISTEN button has a
  result only after the return; `EndsWhenAllCounted` that a mode changes only in the
  step that completes the results.

These hold under **any** loss of events. `CountedWasTouched` does not (finding 2).

- `CountedCorrect`: with `4 * MaxReports <= MaxQueue`, the queue never being full,
  `CountedWasTouched`. Its invariant says that the queue is not overrun (`RoomInv`: three
  events per report and one per lift), that an X is followed by the Y and the
  synchronisation of a place the finger was on (`GroupInv`), and that the listener's place
  is such a place, or will be after the Y in front of the queue (`FollowInv`).

`TapCounts` is liveness and model-checked.

**`PretestProofs`**, for any hardware list and touch screen number:

- `TypeCorrect`, `PassCorrect`, `FailuresNamedCorrect`,
  `ScriptFindsTouchscreenCorrect`, `StartsAfterTouchCorrect`.
- Of an item that is listed twice `FailuresNamed` does not say that its failure is shown,
  which is false (finding 4). It needs the running form: the count is the number of failed
  items, the failures are those of the checks already made, and `err` is the status of
  the last item of the current check before `k`. `PassMeansAllPassed` needs that
  every item of a finished check was tested, and that the count is 0 only if nothing
  failed.

**`WavProofs`**, for chunks of every length:

- `NarrowCorrect`, `ExpandCorrect`: what `wav_32bit_to_24bit` and `wav_expand_24bit_to_32bit`
  leave in the buffer they work in: each sample in its place, although source and
  destination overlap, the first three samples through `tmp_sample`.
- `RoundTripCorrect`: one undoes the other, but for a rest that is no sample.

The loops are recursive functions of the number of turns. The memory after `i` turns is given
in closed form (`NarrowedAt`, `WidenedAt`); what a turn reads has not been overwritten by
the turns before (`NarrowTurn`, `WidenTurn`), so the closed form satisfies the
recursion, and by induction nothing else does. The library's induction theorems take an
operator, so `SetInduction` states induction for a set, from the well-foundedness of `<`.

**`SndkitProofs`**, for any buffer that is not empty (`BufferAssumption`), any files, any length
of the recording and of an older file, and incomplete reads and writes of any length:

- `RecordedWholeCorrect`: needs what `main` at each place has started (`Control`) and the
  balance of a recording (`Balance`). What is written, what is left of the chunk and
  `record_len` add up to the announced length.
- `PlayedIsFileCorrect`, `RecordedIsSoundCorrect`, `ConvertedWholeCorrect`,
  `SndkitTypeCorrect`: none of the properties is inductive, since they do not speak of the
  buffer. What was written, and then the chunk from the place that is to be written
  next, begin one stream (`Continues`): the bytes of the file, widened if they are of 24
  bits, or those of the device, narrowed. A write moves bytes from one part to the other
  (`WriteContinues`), a read replaces a chunk that was written to its end by the next bytes
  (`ReadContinues`; that it was written is `Written`). That a converted chunk continues the stream
  follows from `WavProofs` and from the place in the file or of the device being one between
  samples (`PlayInv`, `RecordInv`). For the file this needs `Aligned`, the condition of
  `PlayedIsFile`; without it only that the player's bytes are bytes is proved.

**`ScriptProofs`** of `test_snd.sh`, for any lengths of buffer, file and recording, and any
incomplete reads and writes, from `SamplesAssumption` (the buffer is not empty):

- `HearsThisRecordingCorrect`: needs that what was played, what is in the buffer and what is
  in the file beyond it follow each other (`Older`), and that the three processes of
  the script have one file.
- `SndTestTypeCorrect`: what is to be written fits the buffer, what is read the file.

Of the current test and Bluetooth, for any number of background processes, resets and scripts:

- `VerdictWasTouchedCorrect`: while a current test runs, what is in the log was made of
  touches during it (`LogIsOurs`), the x of one and the y of one, or zero: `Prepare` removes
  the file, and a `getevent` of an earlier test writes to the removed one.
- `UnselectedIsRaceCorrect`, an action property: needs that while a current test is under way
  and the log is absent a `getevent` of its own is still to open it (`CtRoom`).
- `SuccessIsRealCorrect`: every answer of success on the line was given in this run
  (`OwnAnswers`: `init_uart` drops older ones), and the commands before `hci` were executed
  (`InOrder`). It holds with repeated resets, although an answer may be read for a later
  command (finding 6): its length or code differ, which is a failure, not a success.
- `BtTypeCorrect`.

Of the sensor polls, for any number of words, attempts and polls:

- `PassRestsOnReadsCorrect`: needs that the PAH8001 is out of its test mode before a pass is
  possible (`Pah8001Inv`), that the buffer of `test_current` holds the last current read or
  none (`CurrentInv`), and that a supply other than the one seen last was plugged or
  unplugged, or its `cat` failed (`ChargeInv`). It does not say that a frame average or a
  current was read at all, which is false.
- `SensorsTypeCorrect`: a read is counted once at most, so that what is counted stays within
  the timeout.

Of the LCD test, for any screen, padding and even number of squares that fit
(`SizesAssumption`):

- `ShowsPicturesCorrect`: the property is of the visible buffer, and what becomes visible was
  drawn before. The invariant has three parts. The strokes still to come are the end of the plan
  of the picture at hand (`PlanInv`, `Plan`); `yoffset` is that of the picture before
  (`Panned`); and each of the two buffers holds what the strokes made so far leave there
  (`Drawn`), for the board square by square. That a stroke covers exactly its columns and
  lines needs that a place determines its buffer, line and column, and that squares and
  stripes stay on the screen (`SquaresFit`, `ThirdsFit`).
- `LcdTypeCorrect`, `DrawsInMemoryCorrect`: also with padded lines and refused pans, the
  program keeps to its plan, and, where the memory holds two buffers (`TwoBuffers`), no stroke
  leaves it (`BlockMapped`, `ClearMapped`).

**`NetutilsProofs`** of dhcp_utils.c, for any callers, interfaces and number of calls:

- `FreshAnswerCorrect`: until a call reads "ok", an "ok" in the property is one that was
  written since its erasure (`Fresh`), by whichever daemon and for whichever request.
- `StopForgetsCorrect`: a call of `dhcp_stop` since whose `ctl.stop` nothing was started
  knows that no renewal runs, then that the daemon has stopped, and only then overwrites
  the result (`Silent`).
- `DhcpcdTypeCorrect`.

Of `netcfg`, for any leases, set of lines, number of lines and doings of others,
from `LinesAssumption` (a line is a sequence of commands, and no lease is none):

- `ConfiguredCorrect`, `NoOldLeaseCorrect`: need what each operation still to come
  implies of those done (`LineInv`, `DhcpInv`): at operation `i` of the twelve of "dhcp",
  as long as nobody disturbed it, the interface is what the first `i - 1` made of it.
- `SocketLostCorrect`: needs which operations leave the control socket open, and that a
  command that met a closed one never ends well (`SockInv`).
- `WifiOkCorrect`: needs what each of the script's dumps was a dump of (`WifiInv`).
- `NetcfgTypeCorrect`.

**`ToolsProofs`**, of the specification that run `tools` checks, from the assumptions of all
its tools and `RestAssumption` (there is a file for the sndkit at rest):

- `ToolsTypeCorrect`, `ToolsSafeCorrect`, `ToolsRaceCorrect`: every invariant and action
  property of the run, each with the conditions it has in its own module. A step of the
  tools is a step of one tool and a stutter of the others (`StepIsOfOne`), and a tool at
  rest satisfies its invariant (`SndkitAtRest` and the like).

Only model-checked are the liveness properties (`QuietEnds`, `TapCounts`, `EndsOnceFound`,
`LoopsEnd`, `TestEnds`, `ScriptEnds`), since the provers used here reason neither about
fairness nor about `ENABLED`, and what the six runs that end in a violation show.

## 5. Findings

1. `dhcpclient.c:430`: the fallback "configuring with offered parameters" takes `info`,
   which any overheard packet overwrites; it may configure a neighbour's offer
   (`dhcp_assumed`).
2. `widget.c:403`: `SYN_DROPPED` is ignored; after an overflow the old X and the new Y
   make a place where the finger never was (`touch_torn`).
3. `pretest.sh:64`: `test_eventnum` returns -1, the shell compares 255 with -1, and
   the touch screen that registers late is never looked up again (`pretest_late`).
4. `pretest.sh:94`: `check_scripts` returns the `err` of its last script only; an item listed
   twice that fails and then passes is counted and hangs the watch, but the list of the
   devices that failed (`pretest.sh:210`) leaves it out (`pretest_twice`).
5. `sndkit.c:459`: `record_len` counts bytes of the file but is asked of the device; a 24
   bit WAV recording stops at its last three bytes and does not end, against
   `--duration` (`sndkit.c:211`) (`sound_record`).
6. `test_bluetooth.c:633`: the alarm repeats the reset; when the controller was only slow,
   it answers both, the second answer is read as that to Read_BD_ADDR, and a good
   controller fails (`bt_slow`).

The models also contain what follows. No run is made of it, and the properties say no more
than what remains true beside it:

- `widget.c:506`: a finger that slides onto a button has it counted, although `widget.h:96`
  says that the touch must have begun there.
- `sndkit.c:541`, `657`, `1032`: the output is opened without `O_TRUNC`; the end of a longer
  older file stays behind the new data (in `RecordFile`).
- `sndkit.c:693`: `strip_wav` returns 0 after a failed read, where `makewav` returns -1.
- `sndkit.c:377`: with a buffer that is no multiple of three, which `-B` takes, a 24 bit WAV
  file is played shifted by a byte in every chunk.
- `wav.c:192`: `assert(src == data)` is false for a last chunk of one or two samples.
- `get_select.c:84`: the five lines may be of several touches or have no x; the verdict may
  then be that of a button nobody touched.
- `dhcp_utils.c:227`: the late "ok" of a request that timed out, even for another p2p
  interface, is taken for the answer to the next one; "shouldn't ever happen" (`:234`) happens
  when another caller erases the result in between.
- `test_pah8001.c:161`: a frame average whose first read fails passes with nothing read.
- `test_current.c:53`: a current that is never read is judged by an uninitialized buffer.
- `test_charge.sh:69`: an empty `cat` is a 0, and may count as a change of the supply.
- `sndtest.c:510`: success is reported when nothing was played.

## 6. Not modelled

`PROJECT.json` names the parts without a module with the reason:

- **VCOM writer** (`vcom.c`): `main` allocates room for `parts_alloc` partitions, but
  `parts_alloc` stays 0, since the code that reads it is disabled (`#if 0`, lines 358 to 383);
  it then writes `pinfo[-1]` (line 180) and reads `pinfo[0]` to `pinfo[4]` (line 290). Almost
  every run is undefined behaviour from its first step, and nothing remains to be stated of
  read, change and write back.
- **Single-shot parsers and samplers**: sequential programs in which no state outlives a call.
- **Image and text helpers**: output only.

Of parts with a module are left out: pixels, images and texts; mounting and board versions
(`pretest.sh` before the first touch); the pictures of keys (`catch_action_for_keyboard`);
functions of `ifc_utils.c`, `test_bluetooth.c` and `test_lcd.c` that nothing calls. `PROJECT.json`
says so component by component.

What could be added: the exit status of `inputevent` and `test_keyboard.sh`, which pass
when a device cannot be opened (`inputevent.c:35`); `Pretest` and `CurrentTest`
composed through `/tmp/check_touch.log`, of which each models its own end.
