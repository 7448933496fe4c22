----------------------------- MODULE HttpUpdate ------------------------------
(***************************************************************************)
(* Firmware over the air (http_update.c). The poll thread decodes an OTA   *)
(* command into static buffers and submits an event; the system work queue *)
(* handles it, setting the target before it cancels the download that goes *)
(* on and starting the new one; the thread of the download library loads   *)
(* the image into MCUboot's secondary slot, marks it for a trial swap and  *)
(* calls fota_dl_handler, which installs it by ota_target. A network-core  *)
(* image must leave that slot before the next boot.                        *)
(*                                                                         *)
(* The work queue is cooperative: it gives way to the other threads only   *)
(* where the handler blocks (storage, the library, k_sleep), and each      *)
(* stretch between two such places is one action.                          *)
(***************************************************************************)
EXTENDS Naturals

CONSTANTS
    Big,         \* images larger than the RPMSG buffer
    MaxCommands, \* bound: OTA commands in a run of the model
    MaxResets    \* bound: resets from outside

\* What the name of a file tells; a file with another name holds an image of
\* the application core too.
File == {"app", "net", "other"}
AppImage == {"old app", "app", "other"}
NetImage == {"old net", "net"}
Image == AppImage \cup NetImage

ASSUME HttpUpdateAssumption ==
    /\ Big \subseteq Image
    /\ MaxCommands \in Nat
    /\ MaxResets \in Nat

VARIABLES
    rx,          \* the poll thread: idle, or decoded an event to submit
    file,        \* the static buffer of the decoder: the file name
    install,     \* the static buffer of the decoder: now, reboot or stop
    events,      \* ota_dfu_cmd_events on the work queue
    wpc,         \* where http_update_event_handler stands
    otaTarget,   \* ota_target
    installMode, \* install_mode
    inProgress,  \* download_in_progress
    dpc,         \* where the download thread stands
    loading,     \* the image it loads or has loaded last
    slot,        \* the secondary slot: empty, partial or an image
    swap,        \* MCUboot's mark: none, test, or revert (not confirmed)
    app,         \* the image the application core runs
    net,         \* the image the network core runs
    up,          \* booting, or main has confirmed its image
    commands,    \* history: commands so far
    resets,      \* history: resets from outside so far
    fault        \* history: what has gone wrong

poll == <<rx, file, install, events, commands>>
handler == <<wpc, otaTarget, installMode>>
flash == <<slot, swap>>
cores == <<app, net, up, resets>>
vars == <<poll, handler, inProgress, dpc, loading, flash, cores, fault>>

RamOK ==
    /\ rx \in {"idle", "decoded"}
    /\ file \in File \cup {"none"}
    /\ install \in {"none", "now", "reboot", "stop"}
    /\ wpc \in {"idle", "check", "sleep", "start", "started", "halt"}
    /\ otaTarget \in {"app", "net", "unknown"}
    /\ installMode \in {"none", "now", "reboot", "stop"}
    /\ dpc \in {"none", "loading", "cancelled", "error", "loaded",
                "countdown", "apply", "erase", "failsafe", "reboot"}
    /\ loading \in File \cup {"none"}

FlashOK ==
    /\ slot \in Image \cup {"empty", "partial"}
    /\ swap \in {"none", "test", "revert"}
    /\ app \in Image /\ net \in Image
    /\ up \in {"boot", "run"}
    /\ fault \subseteq {"target", "flash", "reset"}

CountersOK == events \in Nat /\ commands \in Nat /\ resets \in Nat

TypeOK == RamOK /\ FlashOK /\ CountersOK /\ inProgress \in BOOLEAN

-----------------------------------------------------------------------------
(* The poll thread: ON_MQTT_PUBLISH_CB of ota_dfu_mqtt.c.                  *)

\* A command is decoded; its strings go to the static buffers.
Decode ==
    /\ up = "run" /\ rx = "idle" /\ rx' = "decoded"
    /\ commands < MaxCommands /\ commands' = commands + 1
    /\ file' \in File
    /\ install' \in {"now", "reboot", "stop"}
    /\ UNCHANGED <<events, handler, inProgress, dpc, loading, flash, cores,
                   fault>>

\* The event points to these buffers; it is submitted to the work queue.
Submit ==
    /\ up = "run" /\ rx = "decoded" /\ rx' = "idle"
    /\ events' = events + 1
    /\ UNCHANGED <<file, install, commands, handler, inProgress, dpc, loading,
                   flash, cores, fault>>

-----------------------------------------------------------------------------
(* The work queue: http_update_event_handler.                              *)

\* Mutation: the target is the name itself.
NameOf(f) == f

\* ota_target_from_file.
TargetOf(f) == IF f \in {"app", "net"} THEN f ELSE "unknown"

\* fota_download_cancel: FOTA_DOWNLOAD_EVT_CANCELLED is due.
Cancel == dpc' = IF dpc = "loading" THEN "cancelled" ELSE dpc

\* http_update_stop, up to its k_sleep.
Stop == Cancel /\ inProgress' = FALSE

\* install is "stop".
HandleStop ==
    /\ up = "run" /\ wpc = "idle" /\ wpc' = "halt"
    /\ events > 0 /\ events' = events - 1
    /\ install = "stop"
    /\ Stop
    /\ UNCHANGED <<rx, file, install, commands, otaTarget, installMode,
                   loading, flash, cores, fault>>

\* The target is set, and the stored session id is read.
HandleCommand ==
    /\ up = "run" /\ wpc = "idle" /\ wpc' = "check"
    /\ events > 0 /\ events' = events - 1
    /\ install # "stop"
    /\ otaTarget' = TargetOf(file)
    /\ UNCHANGED <<rx, file, install, commands, installMode, inProgress, dpc,
                   loading, flash, cores, fault>>

\* Mutation: a download that goes on is taken for the new one.
StartIfIdle ==
    /\ up = "run" /\ wpc = "check"
    /\ wpc' = IF inProgress THEN "idle" ELSE "start"
    /\ UNCHANGED <<poll, otaTarget, installMode, inProgress, dpc, loading,
                   flash, cores, fault>>

\* A download that goes on is stopped first.
Check ==
    /\ up = "run" /\ wpc = "check"
    /\ \/ /\ inProgress /\ Stop
          /\ wpc' = "sleep"
       \/ /\ ~inProgress /\ wpc' = "start"
          /\ UNCHANGED <<inProgress, dpc>>
    /\ UNCHANGED <<poll, otaTarget, installMode, loading, flash, cores, fault>>

\* The 1 s sleep of http_update_stop is over.
Wake ==
    /\ up = "run" /\ dpc # "cancelled"
    /\ \/ wpc = "sleep" /\ wpc' = "start"
       \/ wpc = "halt" /\ wpc' = "idle"
    /\ UNCHANGED <<poll, otaTarget, installMode, inProgress, dpc, loading,
                   flash, cores, fault>>

\* http_update_start reads the buffers again; the download begins ...
Start ==
    /\ up = "run" /\ wpc = "start" /\ wpc' = "started"
    /\ dpc = "none" /\ dpc' = "loading"
    /\ loading' = file
    /\ slot' = "partial"
    /\ UNCHANGED <<poll, otaTarget, installMode, inProgress, swap, cores,
                   fault>>

\* ... or the initialisation fails, or the start does.
StartFails ==
    /\ up = "run" /\ wpc = "start"
    /\ \/ wpc' = "idle" /\ UNCHANGED <<inProgress, dpc>>
       \/ wpc' = "halt" /\ Stop
    /\ UNCHANGED <<poll, otaTarget, installMode, loading, flash, cores, fault>>

\* Back from the library: the mode and the flag are set, the id is stored.
Started ==
    /\ up = "run" /\ wpc = "started" /\ wpc' = "idle"
    /\ installMode' = install
    /\ inProgress' = TRUE
    /\ UNCHANGED <<poll, otaTarget, dpc, loading, flash, cores, fault>>

-----------------------------------------------------------------------------
(* The thread of the download library, and fota_dl_handler.                *)

\* The library has written the image and marked it for a trial swap.
Loaded ==
    /\ up = "run" /\ dpc = "loading" /\ dpc' = "loaded"
    /\ slot' = loading
    /\ swap' = "test"
    /\ UNCHANGED <<poll, handler, inProgress, loading, cores, fault>>

\* The download fails.
Fails ==
    /\ up = "run" /\ dpc = "loading" /\ dpc' = "error"
    /\ UNCHANGED <<poll, handler, inProgress, loading, flash, cores, fault>>

\* FOTA_DOWNLOAD_EVT_ERROR calls http_update_stop, FOTA_DOWNLOAD_EVT_CANCELLED
\* resets the flag.
Ended ==
    /\ up = "run" /\ dpc \in {"error", "cancelled"} /\ dpc' = "none"
    /\ inProgress' = FALSE
    /\ UNCHANGED <<poll, handler, loading, flash, cores, fault>>

\* FOTA_DOWNLOAD_EVT_FINISHED is handled by ota_target, whoever set it.
NoteTarget ==
    fault' = fault \cup (IF otaTarget = TargetOf(loading) THEN {}
                                                          ELSE {"target"})

\* Application core: http_update_done, and the countdown of
\* http_update_install.
FinishedApp ==
    /\ up = "run" /\ dpc = "loaded" /\ otaTarget = "app"
    /\ inProgress' = FALSE
    /\ dpc' = IF installMode = "now" THEN "countdown" ELSE "none"
    /\ NoteTarget
    /\ UNCHANGED <<poll, handler, loading, flash, cores>>

\* Network core: apply_netcore_update_from_mcuboot_secondary opens the slot.
FinishedNet ==
    /\ up = "run" /\ dpc = "loaded" /\ otaTarget = "net" /\ dpc' = "apply"
    /\ NoteTarget
    /\ UNCHANGED <<poll, handler, inProgress, loading, flash, cores>>

\* It cannot be opened.
OpenFails ==
    /\ up = "run" /\ dpc = "loaded" /\ otaTarget = "net" /\ dpc' = "none"
    /\ fault' = fault \cup {"flash"}
    /\ UNCHANGED <<poll, handler, inProgress, loading, flash, cores>>

\* Unknown target: the status says so, the image stays marked.
FinishedUnknown ==
    /\ up = "run" /\ dpc = "loaded" /\ otaTarget = "unknown" /\ dpc' = "none"
    /\ NoteTarget
    /\ UNCHANGED <<poll, handler, inProgress, loading, flash, cores>>

\* Mutation: the network core is updated and nothing is erased.
UpdateThenReboot ==
    /\ up = "run" /\ dpc = "apply" /\ dpc' = "reboot"
    /\ slot \notin Big
    /\ net' = slot
    /\ UNCHANGED <<poll, handler, inProgress, loading, flash, app, up, resets,
                   fault>>

\* pcd_network_core_update.
UpdateNet ==
    /\ up = "run" /\ dpc = "apply" /\ dpc' = "erase"
    /\ slot \notin Big
    /\ net' = slot
    /\ UNCHANGED <<poll, handler, inProgress, loading, flash, app, up, resets,
                   fault>>

\* Mutation: a failed update does not enter the fail-safe mode.
GiveUp ==
    /\ up = "run" /\ dpc = "apply" /\ dpc' = "none"
    /\ UNCHANGED <<poll, handler, inProgress, loading, flash, cores, fault>>

\* The header or the payload cannot be read, the image is too big, or the
\* update itself fails.
ApplyFails ==
    /\ up = "run" /\ dpc = "apply" /\ dpc' = "failsafe"
    /\ UNCHANGED <<poll, handler, inProgress, loading, flash, cores, fault>>

\* The slot is erased with its mark, after an update or in fail-safe mode.
Erase ==
    /\ up = "run" /\ dpc \in {"erase", "failsafe"}
    /\ slot' = "empty" /\ swap' = "none"
    /\ dpc' = IF dpc = "erase" THEN "reboot" ELSE "none"
    /\ UNCHANGED <<poll, handler, inProgress, loading, cores, fault>>

\* The erase fails: out_close tries it no second time.
EraseFails ==
    /\ up = "run" /\ dpc \in {"erase", "failsafe"} /\ dpc' = "none"
    /\ fault' = fault \cup {"flash"}
    /\ UNCHANGED <<poll, handler, inProgress, loading, flash, cores>>

-----------------------------------------------------------------------------
(* Boot.                                                                   *)

\* MCUboot swaps for a trial, swaps back what was not confirmed, or boots.
Swap ==
    \/ /\ swap = "test" /\ slot \in Image
       /\ app' = slot /\ slot' = app /\ swap' = "revert"
    \/ /\ swap = "revert"
       /\ app' = slot /\ slot' = app /\ swap' = "none"
    \/ /\ swap = "none" \/ (swap = "test" /\ slot \notin Image)
       /\ swap' = "none" /\ UNCHANGED <<app, slot>>

\* RAM is back to its initial values.
Restart ==
    /\ rx' = "idle" /\ file' = "none" /\ install' = "none" /\ events' = 0
    /\ wpc' = "idle" /\ otaTarget' = "unknown" /\ installMode' = "now"
    /\ inProgress' = FALSE
    /\ dpc' = "none" /\ loading' = "none"
    /\ up' = "boot"
    /\ Swap

\* sys_reboot, at the end of the countdown or of a network-core update.
Reboot ==
    /\ up = "run" /\ dpc \in {"countdown", "reboot"}
    /\ Restart
    /\ UNCHANGED <<commands, net, resets, fault>>

\* A network-core image is marked and its update is not over.
NetUpdateOpen == dpc \in {"loaded", "apply", "erase", "failsafe"}

\* A power cut, a watchdog or an assertion elsewhere.
Reset ==
    /\ resets < MaxResets /\ resets' = resets + 1
    /\ Restart
    /\ fault' = fault \cup (IF NetUpdateOpen /\ slot \in NetImage
                            THEN {"reset"} ELSE {})
    /\ UNCHANGED <<commands, net>>

\* main confirms the image it runs: boot_write_img_confirmed_multi.
Confirm ==
    /\ up = "boot" /\ up' = "run"
    /\ app \in AppImage
    /\ swap' = "none"
    /\ UNCHANGED <<poll, handler, inProgress, dpc, loading, slot, app, net,
                   resets, fault>>

-----------------------------------------------------------------------------
Init ==
    /\ rx = "idle" /\ file = "none" /\ install = "none" /\ events = 0
    /\ wpc = "idle" /\ otaTarget = "unknown" /\ installMode = "now"
    /\ inProgress = FALSE
    /\ dpc = "none" /\ loading = "none"
    /\ slot = "empty" /\ swap = "none"
    /\ app = "old app" /\ net = "old net" /\ up = "boot"
    /\ commands = 0 /\ resets = 0 /\ fault = {}

PollThread == Decode \/ Submit

WorkQueue ==
    \/ HandleStop \/ HandleCommand \/ Check \/ Wake
    \/ Start \/ StartFails \/ Started

DownloadThread ==
    \/ Loaded \/ Fails \/ Ended
    \/ FinishedApp \/ FinishedNet \/ OpenFails \/ FinishedUnknown
    \/ UpdateNet \/ ApplyFails \/ Erase \/ EraseFails

Boot == Reboot \/ Reset \/ Confirm

Next == PollThread \/ WorkQueue \/ DownloadThread \/ Boot

Spec == Init /\ [][Next]_vars

-----------------------------------------------------------------------------
(* Properties.                                                             *)

\* A command is decoded whose event is not handled yet.
Pending == rx = "decoded" \/ events > 0

\* Once every command is handled, a download that goes on is the one the last
\* command asked for: its file, the target that file implies, its install
\* mode, and not a stop; whatever the buffers held when earlier events were
\* handled (ota_dfu_mqtt.c:98, http_update.c:413).
LastCommandWins ==
    (~Pending /\ wpc = "idle" /\ dpc = "loading") =>
        /\ loading = file
        /\ otaTarget = TargetOf(file)
        /\ installMode = install
        /\ install # "stop"
        /\ inProgress

\* When the download thread is at rest, no network-core image is left marked
\* for the application core, unless the flash failed, the update was cut by a
\* reset or the target changed under it (the comment of http_update.c:136).
NoMarkedNetImageLeft ==
    (dpc \in {"none", "countdown"} /\ slot \in NetImage /\ swap = "test") =>
        fault # {}

\* The application core runs an application image unless one of these faults
\* has occurred, and the network core runs a network-core image unless a
\* download has ended under another command's target (http_update.c:223).
RightCores ==
    /\ app \in AppImage \/ fault # {}
    /\ net \in NetImage \/ "target" \in fault
=============================================================================
