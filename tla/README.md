# Verification of the ESPHome PN7160 component

TLA+ modules, TLC configurations and TLAPS proofs for the enhanced PN7160/PN7161
NFC component in `src/components`. The component is a cooperative driver: ESPHome's
scheduler calls `PN7160::loop()` again and again; each call takes the driver one
pass through a state machine that talks NCI over I2C or SPI to the controller chip
(the *NFCC*), and calls the user's automations when tags come and go.

Everything is relative to this directory; line numbers refer to
`src/components/pn7160/pn7160.cpp` unless another file is named.

    tlc -workers 2 -config NciFsmSafety.cfg NciFsm.tla
    tlapm NciFsmProofs.tla

| Module | Extends | About |
|---|---|---|
| `NciFsm` | | the state machine, its error counter and its watchdogs |
| `Supervisor` | | what the state machine promises: abstract specification of `NciFsm` |
| `NciLink` | | the exchange of commands and answers, with the chip's queue |
| `TagCache` | | tags, the cache, the triggers, the chip's RF side |
| `MifareClassic`, `MifareUltralight` | the first | the operations on a tag as plans of exchanges |
| `TagTask` | `MifareUltralight` | the task on an activated tag: driver, user, tags |
| `CardEmulation` | | the driver as a tag: driver, user, readers |
| `NciFsmProofs`, `NciFsmRefinement`, `NciLinkProofs`, `TagCacheProofs`, `CardEmulationProofs` | the module | theorems |
| `MifareProofs` | `MifareUltralight` | lemmas about the plans of both kinds of tag |
| `TagTaskProofs` | `TagTask`, `MifareProofs` | theorems |
| `MCTagCache`, `MCTagTask` | the module | tags as model values, symmetry |

Each module keeps what its properties are about and takes the others' part as a
choice: to `NciFsm` an exchange is its outcome, which `NciLink` has as messages; to
`NciLink` a task is one exchange, which `TagTask` has in full; to `TagTask` a tag on
the reader is activated, which `TagCache` explains.

## 1. Inventory

### 1.1 Components

| Component | State it keeps | Operations | Correct when |
|---|---|---|---|
| **NCI state machine** (`loop`, `nci_fsm_transition_`, `nci_fsm_set_state_`, `nci_fsm_set_error_state_`; 20-53, 673-793) | `nci_state_`, `nci_state_error_`, `error_count_`, `last_nci_state_change_`, `Component` failed flag | bring the chip up in five steps, start discovery, wait for messages, select a tag, escalate after too many errors | it leaves every transient state; an error count is never charged to another state; it gives up only for repeated failures of one boot step |
| **Watchdogs** (`loop` 42-49, `perform_health_check_` 1274-1306, `reset_via_ven_`) | `last_health_check_`, `health_check_fail_count_` | fast recovery of `EP_*` states, periodic health check, reset by the VEN pin | a lost notification cannot wedge the driver; the health check's reset complements the error counter |
| **Configuration** (`refresh_core_config_`, `send_core_config_`, `send_init_config_`, `set_polling_on/off`, `set_tag_emulation_on/off`) | `polling_enabled_`, `listening_enabled_`, `config_refresh_pending_`, `core_config_is_solo_` | a switch sets the pending flag, the state machine takes it up in RFST_IDLE, RFST_DISCOVERY or RFST_W4_HOST_SELECT | the chip is configured for the modes the user asked for |
| **Tag cache and triggers** (`select_endpoint_`, `purge_old_tags_`, `erase_tag_`, `process_rf_intf_activated_oid_`, `process_rf_discover_oid_`, `process_generic_error`; 515-670, 855-1068) | `discovered_endpoint_` (UID, discovery ID, `last_seen`, `trig_called`), `selecting_endpoint_` | entries come from two notifications, go by time or failed activation; `on_tag`, `on_tag_removed` | the automations' view is the cache, every present tag is reported, every removed one taken back (as long as the driver has not given up), none that stays |
| **Tag tasks** (`next_task_`, `read_mode`, `write_mode`, `clean_mode`, `format_mode`) | `next_task_`, `next_task_message_to_write_` | what to do with the next tag; afterwards back to reading | a requested task is done once, and `on_finished_write` tells its outcome |
| **Command exchange** (`transceive_` 1189-1240, `read_nfcc`, `write_nfcc` in `pn7160_i2c.cpp`, `pn7160_spi.cpp`, `wait_for_irq_`) | none; the chip's output queue and the IRQ line are its hidden state | write a command, wait for the line, read, retry the read | an answer is matched to its own command, no notification is lost |
| **Card emulation** (`card_emu_t4t_get_response_` 1096-1187) | `ce_state_`, `card_emulation_message_` | SELECT app/CC/NDEF, READ, WRITE by an external reader | a reader that reads in chunks gets the message |
| **MIFARE Classic** (`pn7160_mifare_classic.cpp`) | none besides the tag | authenticate, read, write, format, clean by blocks | no trailer is written as data, a failure is reported |
| **MIFARE Ultralight** (`pn7160_mifare_ultralight.cpp`) | none besides the tag | capacity, NDEF search, read, write, clean by pages | the message read is the message written; no page outside the data area is written |
| **Automation wrappers** (`automation.h`) | none | forward to the methods above | |
| **Code generation** (`__init__.py`, `pn7160_i2c/__init__.py`, `pn7160_spi/__init__.py`) | none at run time | build-time | |

### 1.2 Interactions

- *Scheduler -> driver*: `setup()` enters the state machine once, then `loop()`.
  After `mark_failed()` the scheduler does not call `loop()` any more.
- *Driver -> chip*: commands through `transceive_()`, which blocks for one answer.
- *Chip -> driver*: notifications wait in the chip, the IRQ line is high; one is
  read per pass by `process_message_()`.
- *Driver -> user*: `on_tag`, `on_tag_removed`, `on_finished_write`,
  `on_emulated_tag_scan` run synchronously inside a pass.
- *User -> driver*: automations call the public methods, between passes or from
  inside such a trigger.

### 1.3 What is hard

Nothing here is preemptive; the difficulty is in *when* things happen relative to
the passes: a switch of the modes while the refresh of an earlier switch is half
done, a tag lifted between its discovery and its selection, a notification lost, a
link that fails in any one of five bring-up steps, and two watchdogs plus one error
counter that watch the same states with different clocks. `PROJECT.json` lists each
hazard at its line, with the property aimed at it. Below the state machine the same
holds of messages: the chip's queue has one order, the driver's expectation another,
and nothing in a message says which command it answers but its type. And on a tag every
operation is a sequence of writes that a hand may interrupt.

## 2. Modules

### 2.1 NciFsm: the driver's control

One module for `setup()`, `loop()`, the state machine, the watchdogs and the mode
switches. An exchange with the chip is its outcome, chosen under a variable `link`:
`up` (commands succeed), `down` (commands fail, nothing is received), `flaky`
(either). `pc` says where in a pass `loop()` is:

| `pc` | Place in the code | Actions |
|---|---|---|
| `loop` | not running | `FastRecovery` (42-49, ends the pass), `LoopStart` |
| `health` | `perform_health_check_()` | `HealthSkip`, `HealthOk`, `HealthStuck` |
| `fsm` | the switch of `nci_fsm_transition_()` | `ResetCore`, `InitCore`, `SendInitConfig`, `SetDiscoverMap`, `SetListenModeRouting`, `Idle`, `SelectEndpoint`, `Wait`, `NothingToDo` |
| `refresh`, `refresh_wait` | `refresh_core_config_()` called from RFST_IDLE / from a waiting state | `RefreshCoreConfig` |
| `start` | rest of RFST_IDLE | `StartDiscovery` |
| `await` | IRQ test and `process_message_()` | `NoTransition`, `ListenActivated`, `PollActivated`, `LastDiscovered`, `RfDeactivated`, `ActivationFailed` |
| `callback` | the task on an activated tag, with the user's triggers | `PollDeactivate` |

A bring-up step that succeeds falls through to the next case of the switch in the
same pass (`pc` stays `fsm`), one that fails ends the pass. `SetTagEmulation`,
`SetPolling` and `SetTestMode` are the user's calls, possible between passes and in
the callback. `Tick` lets time pass anywhere, at most `MaxLag` between two entries
of `loop()`; clocks are kept as ages.

Left out: bytes and pins; that `set_tag_emulation_on()` needs a message. Triggers
that run elsewhere in a pass (`on_tag_removed` from the purge, `on_emulated_tag_scan`)
are the last thing their pass does to the state machine, so a call from them is a
call at `pc = "loop"`.

### 2.2 TagCache: tags, cache and triggers

`TagCache` composes the tag side of the driver with the chip's RF side and with
tags that come and go. The chip is external: it is modelled from how the driver uses
it. One tag in the field is activated at once; several are offered with discovery
IDs, in any order, with one `discover` notification each, and the host selects one;
a selected tag that has gone gives DISCOVERY_TARGET_ACTIVATION_FAILED. `ntf` is the
queue of notifications that keeps IRQ high; a pass reads one.

A pass is up to three steps (`loop`, then `idle` or `await`, then `purge`), so that
tags move in between. `selecting_endpoint_` is modelled as the `bool` that it is in
`pn7160.h`. `on` is the automations' view: the UIDs for which `on_tag` ran and
`on_tag_removed` did not.

With `Faults`, a command may not reach the chip, the answer to a stop may be lost, a
message may be lost by a failed read. An answer that arrives late, or a notification
read in the place of an answer, belong to the command exchange and are NciLink's.

`BringUp` is one pass through the bring-up: it starts at one of its five states and ends
in RFST_IDLE or at the first state that fails (`BootFailed`), which is tried again in the
next pass, with `error_count` as in `nci_fsm_set_error_state_()` (781-796): too many
failures of NFCC_RESET, NFCC_INIT or NFCC_CONFIG are the end (`GivenUp`, `mark_failed()`),
of the other two a new reset, and so are refused starts (`DiscoveryFailed`). After the end
there is no pass and no purge any more, so that the automations keep the tags they were
told of; the properties that are about removal say so. A failing bring-up restarts the
chip all the same (its VEN pin), and the single exchanges are NciFsm's and NciLink's. Of
`nci_state_error` only RFST_DISCOVERY is told apart, the one value that RFST_IDLE asks for;
`state_age` is kept of the `EP_` states, the only ones with a timeout here; `target` is a
discovery ID.

The purge goes through the cache entry by entry, from the end: the automations that
`on_tag_removed` calls may come between two entries. Listen mode, the refresh and the
health check are left out; so are tags other than NFC-A, because `build_tag_()` builds no
others.

### 2.3 Supervisor: what the state machine promises

Three variables: the stages of the bring-up completed, the failures of the present
one, whether the driver has given up. A stage is completed, retried, or, with its
budget of failures used up, ends in starting over or (in NFCC_RESET, NFCC_INIT,
NFCC_CONFIG) in giving up; only starting over takes a chip that is up away. NciFsm
instantiates it as `SV` with `Stage` computed from `nci_state` and `pc`,
`error_count` and `failed`, and implements it: `Supervised` is checked in
`fsm_safety` and proved in `NciFsmRefinement`. It says what is left of 1300 lines for
someone who only asks whether the reader will come up.

### 2.4 NciLink: commands and answers

The chip here is a record: its RF state `rf`, the core configuration in force
`config`, and `out`, the queue of what it has to say. A command appends its response
(or a refusal) to the queue and a notification of the chip's own appends too; the
host reads the head. `Transceive(chip, cmd)` is the set of outcomes of
`transceive_()` (1189-1240), `Reads(chip)` that of one `read_nfcc()`:

| Fault | In the code | Effect |
|---|---|---|
| `unsent` | `write_nfcc()` fails (`pn7160_i2c.cpp:36`) | nothing sent, the host knows |
| `lost` | a write that never arrived (SPI's `write_nfcc()` cannot tell) | the host reads whatever is next |
| `late` | the answer comes after the last of the retried reads (1207) | the host gives up, the answer stays in the queue |
| `dropped` | the IRQ line does not fall in time after a read (`pn7160_i2c.cpp:29`, `pn7160_spi.cpp:33`) | the message is gone, the read is repeated |

The state machine around it has one action per exchange: `ResetCore`,
`ResetNotification`, `InitCore`, the commands of `send_init_config_()` one by one
(`SendInitConfig`, with the RF tuning command whose failure is passed over, then
`SendInitCoreConfig`), `SetDiscoverMap`, `SetListenModeRouting`, `Idle`,
`StartDiscovery` (which accepts a stale status), `RefreshStop` and `Refresh`,
`SelectEndpoint`, `NothingToSelect`, `ProcessMessage`, a task's first exchange, and
`Deactivate`. The rest of a task, time, the health check, test mode and switching
polling off are left out: NciFsm has them. `nci_state_error_` is not kept, because
NciFsm's ErrorBelongsToState says it follows from state and count. In listen mode a reader
may put the emulated tag to sleep and wake it again (`ReaderSleeps`, `ReaderWakes`): the
deactivation of type "sleep" takes the driver to RFST_LISTEN_SLEEP (`AfterSleep`, 1058-1067).
A tag on the reader is never put to sleep, because the driver asks for type "idle" only (503).

`lost`, `lateInBoot`, `refused` and `outOfStep` are history variables: what the properties
except. `outOfStep` is set by a fault and by a command sent to a chip that has something to
say (the answer is then not what is read next); it is cleared where VEN is pulled, and where
a start of discovery finds the chip's queue empty and ends in discovery.

### 2.5 MifareClassic, MifareUltralight and TagTask: what is done to a tag

The first two are pure: an operation is a sequence of exchanges (`auth`, `read`,
`write`, a block or page, what is written), each marked with what the code does if it
fails: `abort`, `remember` (go on, return failure), `skip` (the sector, as if nothing
had happened), `end` (return success). `CleanPlan`, `FormatPlan`, `WritePlan`,
`ReadPlan` and their Ultralight siblings follow the loops of the C++ functions, the
block arithmetic past the trailers included; next to them stand the reference
definitions of what the tag should hold (`Cleaned`, `Formatted`, `UlCleaned`).
A Classic tag has at most 32 sectors (`ClassicAssumption`): from block 128 on sectors have
16 blocks and `sect_to_auth_()` another branch (133-137), which no loop here but that of a
very long message would reach. A block holds a named content; the i-th block of a message m is `Chunk(m, i)`, where m
is the message's length in bytes. `BYTE` stands for 256.

`TagTask` runs the plans. One step is one exchange: `Succeeds`, `Refused` (the tag
left, or does not know the key), `Garbled` (lost on the way there or back), or
`TakenForDone` (a page write whose answer is not looked at). A tag leaves at any
exchange. When an operation returns, the task goes on as
`process_rf_intf_activated_oid_()` does: `FormattedForWriting`, `FinishedWrite`,
`FinishedRead`, then the automation's turn (`pc` is `on_tag` or
`on_finished_write`, with the user's calls enabled), then `End`, which sets reading
mode again. Ultralight tags come with the states that this driver, or another with
the same layout, leaves behind: empty, or with a message at page 4. A message behind a
lock control TLV (start index 7) and a page of ones are not among them. Every one has a page 4
(the module's assumption), which capacities below 4 bytes would not. `NextSector` is where
cleaning goes on after a sector that refused the key (150).

### 2.6 CardEmulation: the driver as a tag

A reader selects the application, the capability container, and the NDEF file, reads
the length, reads the message in parts of at most `MaxRead`, may write, and may leave
after any command; then another comes. `ProcessData` is
`process_data_message_()` with `card_emu_t4t_get_response_()`; `Reply` is the
transceive_() that sends the answer, and that takes the head of the chip's queue for
its credit; the credit that then comes late is left in the queue, and a later pass only
logs it (`IgnoreCredit`). A reader that puts the tag to sleep and wakes it again is here one
that leaves and another that comes: both kinds of deactivation reset the file selection
(1047). A byte of a message is the pair of the message and its index, so that an
answer with the wrong part is told from the right one. `Refresh` (a switch of the
modes taken up) comes in two forms: with no reader's message in the queue it goes
well (`RefreshIdle`); with one, the stop reads it in place of its answer and the chip
is restarted (`RefreshMeetsReader`; NciLink has the exchange).

## 3. Runs

| Run | Instance | Shows |
|---|---|---|
| `fsm_safety` | 2 errors tolerated, `EpTimeout` 2, `HealthInterval` 10, `MaxLag` 2, polling and emulation switched at will | TypeOK, ErrorBelongsToState, EpStateBounded, ConfigCoherent, PollActiveTransient, InitNeverStuck, GivesUpOnlyInBoot, Supervised (the refinement) |
| `fsm_recovery` | 1 error tolerated, `HealthInterval` 2, polling switched, test mode used | RecoversWhenLinkUp, SwitchTakesEffect |
| `fsm_chip_loss` | violation of ChipLossNoticed | a chip that goes silent in RFST_DISCOVERY is never noticed |
| `link` | 1 fault of any kind, 4 errors tolerated, queue of 3 | TypeOK, NoMutualWait, ConfigInForce, FatalOnlyInBoot, ComesToRest |
| `link_late` | violation of NeverFailsForGood: 1 late answer | the driver gives up for good on a link that works |
| `tags` | two tags, TTL 1, `EpTimeout` 1, no error tolerated, two tasks, faults for ever | TypeOK, OneEntryPerTag, UserViewMatchesCache, RemovalLatency, SelectionEnds, RemovedAfterLeaving |
| `tags_report` | tag `a` stays, `b` comes and goes, TTL 6, no faults | StationaryReported |
| `tags_ghost` | violation of NoGhostRemoval | `on_tag_removed` for a tag that never moved |
| `tags_unreported` | violation of RemovedOnlyIfReported | `on_tag_removed` for a tag `on_tag` never named |
| `tasks` | a Classic of 3 sectors, an Ultralight of 24 or 64 bytes, `BYTE` 16, messages of 5 and 50 bytes, 1 failed exchange, 3 calls of the user | TypeOK, WriteModeHasMessage, OneTagPerRequest, OkMeansDone, NoLockout, ReadBack, WriteLeavesPrefix, DroppedOnlyWritten |
| `emulation` | messages of 3 and 6 bytes, at most 4 bytes in a READ, 2 readers | TypeOK, ShortCopyIsTrue, ScanOnceRead, BackToDiscovery, ReaderIsServed |
| `emulation_copy` | violation of CopyIsTrue, same instance | a message read in two parts arrives wrong |

Bounds and why they suffice.

- *Error limit*: with 2 (or 1) tolerated errors the counter passes every value at
  which the code decides (0, below, at, above the limit).
- *`HealthInterval` 10 in `fsm_safety`* satisfies `PromptScheduling`,
  (2 + 3) * 2 <= 10, with equality, and is not generous: at 8 the theorem's
  assumption fails. In `fsm_recovery` it is 2, so that health checks do find
  stuck states and their reset runs.
- *Ages* saturate above every threshold they are compared with (`AgeCapAssumption`;
  in TagCache the cap is above the bound that RemovalLatency states).
- *One fault in `link`, 4 errors tolerated*: FatalOnlyInBoot is about a fault that is
  over, against retries that are not. It is proved for up to `NFCC_MAX_ERROR_COUNT` + 1
  faults and false for one more: each takes one retry. With 4 errors a pass through all
  commands of NFCC_CONFIG, one behind, comes well before the limit. ConfigInForce and
  NoMutualWait are proved for any number of faults.
- *Queue of 3 in `link`*: the chip starts no more notifications beyond 3, responses come
  on top, so that several are behind one another when a command is sent. How deep the real
  chip's queue gets between two passes of `loop()` is nothing this repository says, so no
  property may depend on it. NoMutualWait, ConfigInForce and FatalOnlyInBoot are proved for every
  length; of ComesToRest TLC agrees as well for (faults, queue) = (1, 4), (2, 3), (3, 2) and
  (0, 6). What is *not* claimed is that driver and chip come together again by themselves:
  with a queue of 4 a driver several messages behind can come to rest in RFST_DISCOVERY while
  the chip is idle, without any fault. NoMutualWait exempts that case as out of step.
- *No error tolerated in `tags`* (`NFCC_MAX_ERROR_COUNT` 0): giving up takes two failures
  of one boot state, and the counter passes 0, the limit and the step beyond it. The
  other tag runs tolerate one. The proofs take any limit.
- *Two tags* are the least that make the chip offer a choice; the stale selection
  index, the starvation question and the re-used discovery IDs all need just two.
- *TTL 6 passes in `tags_report`*: with two tags on the reader one reading cycle
  (discover twice, select, activate, deactivate, restart) takes that many passes. With
  a shorter TTL entries expire before their turn and StationaryReported fails. The
  firmware's `tag_ttl_` is 5000 ms (`pn7160.h:362`); the main README documents a
  default of 250 ms, a figure that leaves far fewer passes.
- *No faults in `tags_report`*: with unrestricted faults nothing is ever reported,
  so that liveness holds only for a working link.
- *3 sectors in `tasks`*: the first is formatted by code of its own, the second holds
  the start of a message, the third is like all that follow; the long message crosses
  from the second to the third. A Classic tag may have foreign keys in its last sector.
- *`BYTE` 16*: 5 bytes make a short header, 50 a long one, as 255 does. 24 bytes hold the
  short message and not the long one; the last page of 64 bytes is
  page 20, which wraps, as page 260 of a large tag does.
- *1 failed exchange, 3 calls*: every exchange of every operation is the failed one in
  some behaviour, on top of a tag that leaves and returns without a limit. 3
  calls are a message, the write mode, and one from inside the task.
- *Messages of 3 and 6 bytes in `emulation`*: one fits the READ of 4, one does not. Two
  readers: what the first leaves behind is met by the second.

Fairness. *WF(Driver)*: ESPHome's main loop calls `loop()` for ever and a pass
always ends. *WF(Nfcc)*: the controller acts on its own. *SF(Tick)* in TagCache (WF
in NciFsm, where a step never disables it for good): time passes; without it a run
could squeeze infinitely many passes into one instant, and no timeout would run out.
NciLink has no clock and no cache: *SF(FastRecovery, when nothing comes)* is the endpoint
states' timeout, *SF(NothingToSelect)* the purge of a cache that nothing refreshes. A tag that
does refresh it can keep the driver from finding it empty, so both are assumed only once the
antenna is quiet (`AntennaQuiet`: from some time on the chip starts nothing of its own); that
the cache is then empty in the end is TagCache's SelectionEnds. *WF(Selected)* is the chip's
answer to a selection. In CardEmulation, *WF(ReaderAsks)*: a reader that stays asks for what it
misses. Nothing is assumed of the link, the notifications, the tags or the user; ComesToRest says
itself that it is about a quiet antenna and a user who stops switching.

## 4. What the properties say

- **ErrorBelongsToState**: counter and error state rise and fall together and name
  the state the driver is in, so the decision at 784 to retry, reset or give up
  never starts from another state's failures. `set_test_mode()` is the one
  exception, stated in the property: it files an error under whatever state it is.
- **EpStateBounded**: whatever notification is lost, an endpoint state is left
  within the fast recovery's limit and one scheduling gap.
- **ConfigCoherent / SwitchTakesEffect**: a switch of the modes during a refresh or
  an initialisation is neither forgotten nor pending for ever. This is about the
  host's record. `send_core_config_()` records the configuration *before* it sends
  it (394), so host and chip may differ after a failed command: see ConfigInForce.
- **InitNeverStuck**: if the scheduler's gaps are short against the health check
  interval, no health check finds an initialisation state too old. Together with
  EpStateBounded this means that the documented VEN reset
  practically never happens: the error counter is always first, by restarting the
  initialisation or by giving up. With the default interval of 60 s and limit of
  10 errors the gaps only have to stay below 4.6 s. This is what makes
  the end of `link_late` more than a corner case: no health check comes before it.
- **GivesUpOnlyInBoot**: `mark_failed()` follows `NFCC_MAX_ERROR_COUNT + 1` earlier
  failures in the very state that fails now, unless test mode is used.
- **PollActiveTransient**: RFST_POLL_ACTIVE has no timeout, no error count and is none of
  the health check's states; the reset after a failed stop (1013) is what ends it.
- **Supervised**: see 2.3. It does not settle the hazard at 752, where a refresh
  leaves RFST_DISCOVERY and the same pass goes on to read a message whose state overwrites
  the reset: the refinement mapping counts such a pass as one of a chip that is up until
  it ends, and so absorbs it. What holds there is ConfigCoherent: the switch stays pending
  and is taken up later.
- **NoMutualWait**: RFST_DISCOVERY, RFST_LISTEN_ACTIVE and RFST_LISTEN_SLEEP have no timeout
  and no error count; that driver and chip do not wait there for each other rests on every
  path into them. The property says that a driver in step with the chip, waiting with
  nothing left to read, is in the state that belongs to the chip's. Only a fault, or a
  command sent to a chip that had something to say, puts the two out of step: then the
  lost notification of the hazard at 1040, a notification taken for an answer (1218), the
  ignored result of a stop (520, 852) and the stale status taken by `start_discovery_()`
  (486) all lead to a mutual wait. The property exempts them (`outOfStep`): it does not
  catch those hazards, because the code does not prevent them.
- **ConfigInForce**: the record made before the command is sent is true again after every
  reset, of either side, and false only when the chip did not take the command (`refused`);
  two ways lead there: a failed exchange, and a refresh in RFST_W4_HOST_SELECT, where
  discovery is not stopped first and the chip refuses to be configured. Then the next
  refresh finds the record right and clears the pending flag. The property exempts exactly
  these two; what it is about is the record that survives a reset of the chip (348).
- **FatalOnlyInBoot / ComesToRest**: a late answer shifts all answers by one. In NFCC_INIT
  and NFCC_CONFIG the shift stays through every retry and ends in giving up; nowhere else
  does it. And it keeps the driver in no loop: once the antenna is quiet and the user has
  settled, restarting, selecting and starting discovery end, whatever the driver was
  behind with. Where it rests need not be where the chip does.
- **OneTagPerRequest**: no task is done twice, not even when an automation sets a mode
  in `on_tag` or `on_finished_write` or the task failed: the reset to reading at 1008
  is unconditional. The price is that an automation's request from inside a task is
  forgotten, which the property does not forbid.
- **OkMeansDone, NoLockout, ReadBack, WriteLeavesPrefix, DroppedOnlyWritten**: a
  task that was interrupted anywhere leaves a tag that can be formatted again, success is
  success, what was written is read back, and a partial write leaves the first part of
  the new message on a formatted tag. The exceptions are in the properties:
  cleaning passes over a sector it cannot open (150), an unreadable capacity counts as an
  empty tag (94, 157 of the Ultralight file), a page write's answer is not looked at (178), a
  long message on an Ultralight tag cannot be read back (107), and a last page above
  the byte's range is not cleaned (159). `on_finished_write` is called for a write that
  failed as for one that did not, and the message is dropped in both cases. These exceptions
  are hazards that no property catches: the code has nothing against them.
- **ShortCopyIsTrue / CopyIsTrue**: a reader that one READ is enough for gets a true copy,
  whatever earlier readers left behind. That every reader does, which the documents say
  (TESTING.md:134, 178, README.md:259), is false: parts at an offset of 2 or more are answered
  with the head of the message (1161). `emulation_copy` has the trace. Both leave out sessions in which
  the user sets another message.
- **ScanOnceRead, BackToDiscovery, ReaderIsServed**: the scan is reported once for a reader
  that got to the end; a file selection does not outlive its reader unless the
  deactivation was taken for a credit (1091) or for the answer to a stop (418), two hazards
  that BackToDiscovery exempts; a reader that stays is answered, also after those.
- **UserViewMatchesCache**: a tag the automations believe present is exactly a cached
  entry with `trig_called`; no tag is reported twice in a row or left on for ever.
- **RemovalLatency**: TESTING.md's "`tag_ttl` + 1 polling cycle", with the one pass
  that purges nothing (fast recovery) made explicit, until the driver has given up: after
  `mark_failed()` (788) there is no purge.
- **RemovedAfterLeaving**: with faults for ever, a tag that leaves for good is reported as
  removed, or the driver gives up in the end.
- **SelectionEnds**: a refused selection neither counts an error nor starts a
  timeout, and a failed one may erase nothing; the purge is what ends it.

Where code and documents differ (findings, each with its run): the component still
fails permanently, after one late answer (README.md:248 of the repository); the health check exchanges nothing with the chip (README.md:19); `on_tag_removed` may name a tag that has not
moved (TESTING.md:182) or that was never reported (TESTING.md:119, 183); the emulated message
arrives in full only if one READ is enough for it (TESTING.md:134, 178, README.md:259). Read, not
checked by a run: `PN7160::set_clean_mode()` and its siblings are called by
`automation.h` and declared in `pn7160.h`, but not defined: the modules
take them as `clean_mode()` and so on; `is_writing()` returns `write_mode_`, which nothing
sets; nothing in the component validates the I2C
frequency (README.md:21); a link that is down for the error counter's budget makes the
driver give up too, with no late answer involved (GivesUpOnlyInBoot has the count).
`start_discovery_()` switches on the status byte of whatever message it read (486), and the
comment at 487 says that the chip then is or will remain in discovery. In NciLink with one
command not sent and a queue of 3 it need not be: the stop in `select_endpoint_()` (520) is
the one not sent, the selection fails, its CORE_GENERIC_ERROR notification is read as the
answer to RF_DISCOVER_CMD, which the chip refused, and the driver waits in RFST_DISCOVERY for
a chip that waits for a selection.

## 5. Proofs

`NciFsmProofs` and `NciFsmRefinement` prove, for all values of the constants that meet
`ConstantsAssumption` and `AgeCapAssumption`, and any set of automation calls:

| Theorem | Assumes | Argument |
|---|---|---|
| `TypeCorrect` | | one step per action (`TypeStep`); `SetStateType` and `SetErrorStateType` say what the two setters return |
| `PcCorrect` | | `PcMatchesState` is inductive |
| `PollActiveTransientCorrect` | | a part of `PcMatchesState` |
| `ErrorBelongsToStateCorrect` | | `StepMoves`: every step leaves the state machine alone, sets a state, files an error that belongs to it, or is the failing test mode |
| `GivesUpOnlyInBootCorrect` | no test mode calls | by `StepMoves` from ErrorBelongsToState: the error filed at the limit is the state's own |
| `EpStateBoundedCorrect` | | inductive with `lag`: only `FastRecovery` or a new state resets the age when a pass begins |
| `ConfigCoherentCorrect` | | inductive as it stands |
| `InitAgeCorrect` | | inductive: every gap spent in an initialisation state is paid for by one error, `state_age <= MaxLag * Passes + lag` |
| `InitNeverStuckCorrect` | `PromptScheduling` | InitAge with the counter at its largest |
| `PassMatchesStageCorrect` | no test mode calls | inductive with the above: a pass that awaits a message has no errors counted and no boot state |
| `SupervisedCorrect` | no test mode calls, `PromptScheduling` | initial states map to initial states; each action maps to one of Supervisor's or to a stutter; the health check's reset cannot come (`InitNeverStuck`) in a stage that is not up |

The strengthenings: TypeOK is needed everywhere for arithmetic; `PcMatchesState`
because a pass of a failed component or a "start" outside RFST_IDLE would break
ErrorBelongsToState; `InitAge` because InitNeverStuck alone says nothing about how the
age came to be; `PassMatchesStage` because Stage looks at `pc`. TLC finds
`PcMatchesState` and `InitAge` true of all 1,122,738 states of `fsm_safety`'s instance.

`NciLinkProofs`, under `LinkAssumption`, for any number and kind of faults and any length of the
queue:

| Theorem | Argument |
|---|---|
| `TypeCorrect` | what the chip says stays a sequence of messages through `Execute`, `Drop` and `Transceive` (lemmas `SaysType`, `ExecuteType`, ...) |
| `ConfigInForceCorrect` | `RecordTrue` is inductive: the record is true or `refused`, or the chip is being brought up. ConfigInForce alone is not, because it says nothing of a configuration that is about to be sent; `BeingBroughtUp` names those states |
| `NoMutualWaitCorrect` | `StepInv` is inductive: in step, a chip being configured is idle and quiet; one the driver waits for has messages in its queue that lead, move by move of the chip's RF state machine, from where the driver takes it to be to where it is (`Leads`, `Moves`). Reading a message takes the driver along the first move (`LeadsHead`), a notification appends one (`LeadsOn`), and a command meets an empty queue or ends the step (`KeepsStep`). NoMutualWait is the case of the empty queue |
| `FatalOnlyInBootCorrect` | assumes `FewFaults` (at most `NFCC_MAX_ERROR_COUNT` + 1). `BootInv` is inductive: as long as no answer was late in NFCC_INIT or NFCC_CONFIG, the chip has nothing to say there but the answer to the next command, so that every failure takes a fault of its own: `error_count + faults <= MaxFaults` |

`TagCacheProofs`, under `TagConstantsAssumption`, for any set of tags:

| Theorem | Argument |
|---|---|
| `InvCorrect` | `Inv` is inductive: the cache is a sequence of endpoints with one entry for a tag, the purge's place in it, the chip's messages name tags and IDs that exist, and the automations' view is that of the cache. The work is in the sequence lemmas: what removing, adding and updating an entry does to "one each" and to the view (`RemoveAtIs`, `WithTagIs`, `ReportedIs`) |
| `TypeCorrect`, `OneEntryPerTagCorrect`, `UserViewMatchesCacheCorrect` | parts of `Inv` |
| `RemovalLatencyCorrect` | about a driver that has not given up. `AgeInv` is inductive: `AgeBound` says how old an entry may be at each place of a pass, with one more gap after a pass that ended in the fast recovery; during the purge only the entries it has not yet passed may be older than the TTL |

`CardEmulationProofs`, for messages, READ lengths and readers of any size and number:

| Theorem | Argument |
|---|---|
| `TypeCorrect` | `TypeInv` adds what the answers and the chip's queue hold |
| `BackToDiscoveryCorrect` | `BackInv`: once the reader is away its deactivation waits in the queue with nothing but late credits behind it (`DeactivationWaits`), or it was processed |
| `ScanOnceReadCorrect`, `ShortCopyIsTrueCorrect` | `SessionInv`: in a session that nothing disturbs reader and driver take turns (nothing under way, a command queued, its answer about to be sent) and the selected file is the one the reader's next command needs. `ScansOK` ties the scan to the part that reaches the end; `CopyOK` says that the copy is true up to `MaxRead` bytes, which is all of a message that one READ is enough for |

`MifareProofs` has the lemmas about plans, for every number of sectors up to 32, every capacity and
message length: what steps `CleanPlan`, `FormatPlan`, `WritePlan`, `ReadPlan` and their
Ultralight siblings are made of, that they write each cell that is to change, and in which
order. A plan is parts joined by the library's FlattenSeq. What it holds at each place
(`Flatten`, with `Layout`) is had by an induction over sets of natural numbers
(`SetInduction`), which is stated from the library's least-element principle and needs no
operator as a parameter.

`TagTaskProofs`, under the module's assumptions, for any tags, sizes, messages, failed
exchanges and calls of the user:

| Theorem | Argument |
|---|---|
| `TaskInvariant` | `TaskInv`, the strengthening the others share: tags keep their shape (no data where keys belong, no keys where data belongs), and what is left of the running plan is made of that operation's steps, in an order that cleaning and writing rely on |
| `TypeCorrect`, `OneTagPerRequestCorrect`, `WriteModeHasMessageCorrect`, `DroppedOnlyWrittenCorrect` | from it, action by action |
| `OkMeansDoneCorrect`, `NoLockoutCorrect` | `EraseInv`: while an operation that erases goes well, every cell is done or still planned (`DoneOrPlanned`), or its sector was passed over (`PassedOver`, for which the order matters: a sector that is skipped has no step left). Formatting fails only at a sector with foreign keys |
| `WriteLeavesPrefixCorrect` | `PrefixInv`: the first n pieces are written, the rest of the plan writes later ones, in rising order, all other blocks are as formatting left them |
| `ReadBackCorrect` | `WrittenInv`: a tag on which a write returned OK holds the message until another operation begins on it; `ReadInv`: reading such a tag does not fail |

Each strengthening was checked as an invariant by TLC first: the task's on the 900,000
states of an instance with 2 calls, `StepInv` for (faults, queue) = (1, 2), (2, 3) and (0, 4). For
NoMutualWait that showed an earlier form, which excepted lost messages only, to be true
by its bounds: with 2 faults, or a queue of 4, it fails.

Only model-checked: the liveness properties (SwitchTakesEffect, RecoversWhenLinkUp,
SelectionEnds, RemovedAfterLeaving, StationaryReported, ComesToRest, ReaderIsServed), because
fairness is outside TLAPS's reach. Every invariant and every action property of a passing
run is proved, under the assumptions the tables name.

## 6. What is left

Modelled in full, up to the abstractions named: tag tasks, the command exchange, card
emulation, MIFARE Classic. In part:

- *NciFsm*: an exchange is its outcome. Composing it with NciLink (time and messages
  in one model) would let the health check and a shifted queue meet; the state space of
  the product is what speaks against it.
- *TagCache*: listen mode and the refresh are NciFsm's and CardEmulation's.
- *MIFARE Ultralight*: tags written by others with a lock control TLV; byte order in the
  long header (137), which is below the grain of a model that knows a message by its
  length.
- *Test mode* is in NciFsm only; GivesUpOnlyInBoot does not hold with it (198), as stated
  there.

Worth doing next: which messages of a deep queue leave driver and chip apart, and what one
idle read brings nearer; that NciLink's steps are NciFsm's with the outcome of an exchange
read off the messages.

Not modelled: code generation (`__init__.py` files run at build time; their defaults are
the constants' ranges), bytes and pins of I2C and SPI beyond what an exchange returns,
NDEF contents (the NDEF classes are ESPHome's and not in this repository), logging.
