-------------------------- MODULE HttpUpdateProofs ---------------------------
(***************************************************************************)
(* Proofs about HttpUpdate, for every number of commands and resets and    *)
(* whichever images are too big: type correctness, LastCommandWins,        *)
(* NoMarkedNetImageLeft and RightCores.                                    *)
(***************************************************************************)
EXTENDS HttpUpdate, TLAPS

\* While the image is not confirmed no thread of the application runs, and
\* only then is a swap to be reverted.
Booting ==
    /\ up = "boot" => /\ rx = "idle" /\ events = 0 /\ wpc = "idle"
                      /\ dpc = "none"
    /\ swap = "revert" => up = "boot" /\ slot \in Image

\* The buffers are empty until the first command.
NoCommandYet == file = "none" => ~Pending /\ wpc = "idle" /\ dpc = "none"

\* What the work queue knows of the download where it stands.
HandlerOK ==
    /\ wpc \in {"idle", "check"} /\ dpc = "loading" => inProgress
    /\ wpc \in {"sleep", "start", "halt"} => dpc # "loading"
    /\ dpc \in {"loading", "loaded", "apply"} => loading \in File

\* With no later command the handler and the download follow the buffers.
Fresh ==
    ~Pending =>
        /\ wpc \in {"check", "sleep", "start", "started"} =>
               otaTarget = TargetOf(file) /\ install # "stop"
        /\ wpc = "started" /\ dpc = "loading" => loading = file
        /\ wpc = "idle" /\ dpc = "loading" =>
               /\ loading = file /\ otaTarget = TargetOf(file)
               /\ installMode = install /\ install # "stop"

\* What the slot holds while the download thread works on it.
SlotOK ==
    /\ dpc \in {"loaded", "apply", "erase", "failsafe"} => slot = loading
    /\ dpc \in {"apply", "erase"} => loading = "net" \/ "target" \in fault
    /\ dpc = "reboot" => swap = "none"

\* A network-core image that would be swapped in.
MarkedNet ==
    slot \in NetImage /\ swap \in {"test", "revert"} =>
        \/ fault # {}
        \/ swap = "test" /\ dpc \in {"loaded", "apply", "erase", "failsafe"}

Inductive ==
    /\ TypeOK /\ Booting /\ NoCommandYet /\ HandlerOK /\ Fresh
    /\ SlotOK /\ MarkedNet /\ RightCores
-----------------------------------------------------------------------------
(* One lemma for each part.                                                *)

\* Every step keeps the types of the variables in RAM.
LEMMA RamKept == ASSUME Inductive, [Next]_vars PROVE RamOK'
<1> USE DEF Inductive, TypeOK, RamOK, HandlerOK, TargetOf, File
<1>1. CASE PollThread
  BY <1>1 DEF PollThread, Decode, Submit,
              poll, handler, flash, cores
<1>2. CASE WorkQueue
  <2>1. CASE HandleStop
    BY <2>1 DEF HandleStop, Stop, Cancel, poll, handler, flash, cores
  <2>2. CASE HandleCommand
    BY <2>2 DEF HandleCommand, poll, handler, flash, cores
  <2>3. CASE Check
    BY <2>3 DEF Check, Stop, Cancel, poll, handler, flash, cores
  <2>4. CASE Wake
    BY <2>4 DEF Wake, poll, handler, flash, cores
  <2>5. CASE Start
    BY <2>5 DEF Start, poll, handler, flash, cores
  <2>6. CASE StartFails
    BY <2>6 DEF StartFails, Stop, Cancel, poll, handler, flash, cores
  <2>7. CASE Started
    BY <2>7 DEF Started, poll, handler, flash, cores
  <2> QED
    BY <1>2, <2>1, <2>2, <2>3, <2>4, <2>5, <2>6, <2>7 DEF WorkQueue
<1>3. CASE DownloadThread
  <2>1. CASE Loaded
    BY <2>1 DEF Loaded, poll, handler, flash, cores
  <2>2. CASE Fails
    BY <2>2 DEF Fails, poll, handler, flash, cores
  <2>3. CASE Ended
    BY <2>3 DEF Ended, poll, handler, flash, cores
  <2>4. CASE FinishedApp
    BY <2>4 DEF FinishedApp, NoteTarget, poll, handler, flash, cores
  <2>5. CASE FinishedNet
    BY <2>5 DEF FinishedNet, NoteTarget, poll, handler, flash, cores
  <2>6. CASE OpenFails
    BY <2>6 DEF OpenFails, poll, handler, flash, cores
  <2>7. CASE FinishedUnknown
    BY <2>7 DEF FinishedUnknown, NoteTarget, poll, handler, flash, cores
  <2>8. CASE UpdateNet
    BY <2>8 DEF UpdateNet, poll, handler, flash, cores
  <2>9. CASE ApplyFails
    BY <2>9 DEF ApplyFails, poll, handler, flash, cores
  <2>10. CASE Erase
    BY <2>10 DEF Erase, poll, handler, flash, cores
  <2>11. CASE EraseFails
    BY <2>11 DEF EraseFails, poll, handler, flash, cores
  <2> QED
    BY <1>3, <2>1, <2>2, <2>3, <2>4, <2>5, <2>6, <2>7, <2>8, <2>9, <2>10, <2>11 DEF DownloadThread
<1>4. CASE Boot
  <2>1. CASE Reboot
    BY <2>1 DEF Reboot, Restart, poll, handler, flash, cores
  <2>2. CASE Reset
    BY <2>2 DEF Reset, Restart, poll, handler, flash, cores
  <2>3. CASE Confirm
    BY <2>3 DEF Confirm, poll, handler, flash, cores
  <2> QED
    BY <1>4, <2>1, <2>2, <2>3 DEF Boot
<1>5. CASE UNCHANGED vars
  BY <1>5 DEF vars, poll, handler, flash, cores
<1> QED
  BY <1>1, <1>2, <1>3, <1>4, <1>5 DEF Next

\* MCUboot only exchanges the two images.
LEMMA SwapTyped ==
    ASSUME FlashOK, Booting, Swap
    PROVE  /\ slot' \in Image \cup {"empty", "partial"} /\ app' \in Image
           /\ swap' \in {"none", "test", "revert"}
BY DEF FlashOK, Booting, Swap

\* And of those in flash.
LEMMA FlashKept == ASSUME Inductive, [Next]_vars PROVE FlashOK'
<1> USE DEF Inductive, TypeOK, FlashOK, Booting, HandlerOK, SlotOK, AppImage, NetImage, Image,
           File
<1>1. CASE PollThread
  BY <1>1 DEF PollThread, Decode, Submit,
              poll, handler, flash, cores
<1>2. CASE WorkQueue
  <2>1. CASE HandleStop
    BY <2>1 DEF HandleStop, Stop, Cancel, poll, handler, flash, cores
  <2>2. CASE HandleCommand
    BY <2>2 DEF HandleCommand, poll, handler, flash, cores
  <2>3. CASE Check
    BY <2>3 DEF Check, Stop, Cancel, poll, handler, flash, cores
  <2>4. CASE Wake
    BY <2>4 DEF Wake, poll, handler, flash, cores
  <2>5. CASE Start
    BY <2>5 DEF Start, poll, handler, flash, cores
  <2>6. CASE StartFails
    BY <2>6 DEF StartFails, Stop, Cancel, poll, handler, flash, cores
  <2>7. CASE Started
    BY <2>7 DEF Started, poll, handler, flash, cores
  <2> QED
    BY <1>2, <2>1, <2>2, <2>3, <2>4, <2>5, <2>6, <2>7 DEF WorkQueue
<1>3. CASE DownloadThread
  <2>1. CASE Loaded
    BY <2>1 DEF Loaded, poll, handler, flash, cores
  <2>2. CASE Fails
    BY <2>2 DEF Fails, poll, handler, flash, cores
  <2>3. CASE Ended
    BY <2>3 DEF Ended, poll, handler, flash, cores
  <2>4. CASE FinishedApp
    BY <2>4 DEF FinishedApp, NoteTarget, poll, handler, flash, cores
  <2>5. CASE FinishedNet
    BY <2>5 DEF FinishedNet, NoteTarget, poll, handler, flash, cores
  <2>6. CASE OpenFails
    BY <2>6 DEF OpenFails, poll, handler, flash, cores
  <2>7. CASE FinishedUnknown
    BY <2>7 DEF FinishedUnknown, NoteTarget, poll, handler, flash, cores
  <2>8. CASE UpdateNet
    BY <2>8 DEF UpdateNet, poll, handler, flash, cores
  <2>9. CASE ApplyFails
    BY <2>9 DEF ApplyFails, poll, handler, flash, cores
  <2>10. CASE Erase
    BY <2>10 DEF Erase, poll, handler, flash, cores
  <2>11. CASE EraseFails
    BY <2>11 DEF EraseFails, poll, handler, flash, cores
  <2> QED
    BY <1>3, <2>1, <2>2, <2>3, <2>4, <2>5, <2>6, <2>7, <2>8, <2>9, <2>10, <2>11 DEF DownloadThread
<1>4. CASE Boot
  <2>1. CASE Reboot
    BY <2>1, SwapTyped DEF Reboot, Restart
  <2>2. CASE Reset
    BY <2>2, SwapTyped DEF Reset, Restart
  <2>3. CASE Confirm
    BY <2>3 DEF Confirm, poll
  <2> QED
    BY <1>4, <2>1, <2>2, <2>3 DEF Boot
<1>5. CASE UNCHANGED vars
  BY <1>5 DEF vars, poll, handler, flash, cores
<1> QED
  BY <1>1, <1>2, <1>3, <1>4, <1>5 DEF Next

\* The counters are natural numbers.
LEMMA CountersKept == ASSUME Inductive, [Next]_vars PROVE CountersOK'
<1> USE DEF Inductive, TypeOK, CountersOK
<1>1. CASE PollThread
  BY <1>1 DEF PollThread, Decode, Submit,
              poll, handler, flash, cores
<1>2. CASE WorkQueue
  BY <1>2 DEF WorkQueue, HandleStop, HandleCommand, Check, Wake, Start, StartFails,
              Started, Stop, Cancel,
              poll, handler, flash, cores
<1>3. CASE DownloadThread
  BY <1>3 DEF DownloadThread, Loaded, Fails, Ended, FinishedApp, FinishedNet, OpenFails,
              FinishedUnknown, UpdateNet, ApplyFails, Erase, EraseFails, NoteTarget,
              poll, handler, flash, cores
<1>4. CASE Boot
  BY <1>4 DEF Boot, Reboot, Reset, Confirm, Restart,
              poll, handler, flash, cores
<1>5. CASE UNCHANGED vars
  BY <1>5 DEF vars, poll, handler, flash, cores
<1> QED
  BY <1>1, <1>2, <1>3, <1>4, <1>5 DEF Next

\* The flag is Boolean.
LEMMA FlagKept == ASSUME Inductive, [Next]_vars PROVE (inProgress \in BOOLEAN)'
<1> USE DEF Inductive, TypeOK, Booting
<1>1. CASE PollThread
  BY <1>1 DEF PollThread, Decode, Submit,
              poll, handler, flash, cores
<1>2. CASE WorkQueue
  BY <1>2 DEF WorkQueue, HandleStop, HandleCommand, Check, Wake, Start, StartFails,
              Started, Stop, Cancel,
              poll, handler, flash, cores
<1>3. CASE DownloadThread
  BY <1>3 DEF DownloadThread, Loaded, Fails, Ended, FinishedApp, FinishedNet, OpenFails,
              FinishedUnknown, UpdateNet, ApplyFails, Erase, EraseFails, NoteTarget,
              poll, handler, flash, cores
<1>4. CASE Boot
  BY <1>4 DEF Boot, Reboot, Reset, Confirm, Restart,
              poll, handler, flash, cores
<1>5. CASE UNCHANGED vars
  BY <1>5 DEF vars, poll, handler, flash, cores
<1> QED
  BY <1>1, <1>2, <1>3, <1>4, <1>5 DEF Next

\* No thread runs before main.
LEMMA BootingKept == ASSUME Inductive, [Next]_vars PROVE Booting'
<1> USE DEF Inductive, TypeOK, RamOK, FlashOK, Booting, HandlerOK, NoCommandYet, Pending, AppImage, NetImage, Image, File
<1>1. CASE PollThread
  BY <1>1 DEF PollThread, Decode, Submit,
              poll, handler, flash, cores
<1>2. CASE WorkQueue
  BY <1>2 DEF WorkQueue, HandleStop, HandleCommand, Check, Wake, Start, StartFails,
              Started, Stop, Cancel,
              poll, handler, flash, cores
<1>3. CASE DownloadThread
  BY <1>3 DEF DownloadThread, Loaded, Fails, Ended, FinishedApp, FinishedNet, OpenFails,
              FinishedUnknown, UpdateNet, ApplyFails, Erase, EraseFails, NoteTarget,
              poll, handler, flash, cores
<1>4. CASE Boot
  BY <1>4 DEF Boot, Reboot, Reset, Confirm, Restart, Swap, NetUpdateOpen,
              poll, handler, flash, cores
<1>5. CASE UNCHANGED vars
  BY <1>5 DEF vars, poll, handler, flash, cores
<1> QED
  BY <1>1, <1>2, <1>3, <1>4, <1>5 DEF Next

\* The buffers are written before an event is submitted.
LEMMA NoCommandKept == ASSUME Inductive, [Next]_vars PROVE NoCommandYet'
<1> USE DEF Inductive, TypeOK, RamOK, NoCommandYet, Pending
<1>1. CASE PollThread
  <2>1. CASE Decode
    <3>1. rx' = "decoded" /\ file' \in File
      BY <2>1 DEF Decode
    <3> QED
      BY <3>1 DEF NoCommandYet, Pending, File
  <2>2. CASE Submit
    <3>1. rx = "decoded" /\ file' = file
      BY <2>2 DEF Submit
    <3>2. events' > 0
      BY <2>2 DEF Submit, TypeOK, CountersOK
    <3> QED
      BY <3>1, <3>2 DEF NoCommandYet, Pending, File
  <2> QED
    BY <1>1, <2>1, <2>2 DEF PollThread
<1>2. CASE WorkQueue
  BY <1>2 DEF WorkQueue, HandleStop, HandleCommand, Check, Wake, Start, StartFails,
              Started, Stop, Cancel,
              poll, handler, flash, cores
<1>3. CASE DownloadThread
  BY <1>3 DEF DownloadThread, Loaded, Fails, Ended, FinishedApp, FinishedNet, OpenFails,
              FinishedUnknown, UpdateNet, ApplyFails, Erase, EraseFails, NoteTarget,
              poll, handler, flash, cores
<1>4. CASE Boot
  <2>1. CASE Reboot
    BY <2>1 DEF Reboot, Restart, poll, handler, flash, cores
  <2>2. CASE Reset
    BY <2>2 DEF Reset, Restart, poll, handler, flash, cores
  <2>3. CASE Confirm
    BY <2>3 DEF Confirm, poll, handler, flash, cores
  <2> QED
    BY <1>4, <2>1, <2>2, <2>3 DEF Boot
<1>5. CASE UNCHANGED vars
  BY <1>5 DEF vars, poll, handler, flash, cores
<1> QED
  BY <1>1, <1>2, <1>3, <1>4, <1>5 DEF Next

\* A download begins with the flag reset, and ends with it.
LEMMA HandlerKept == ASSUME Inductive, [Next]_vars PROVE HandlerOK'
<1> USE DEF Inductive, TypeOK, RamOK, Booting, NoCommandYet, HandlerOK, Pending
<1>1. CASE PollThread
  BY <1>1 DEF PollThread, Decode, Submit,
              poll, handler, flash, cores
<1>2. CASE WorkQueue
  BY <1>2 DEF WorkQueue, HandleStop, HandleCommand, Check, Wake, Start, StartFails,
              Started, Stop, Cancel,
              poll, handler, flash, cores
<1>3. CASE DownloadThread
  BY <1>3 DEF DownloadThread, Loaded, Fails, Ended, FinishedApp, FinishedNet, OpenFails,
              FinishedUnknown, UpdateNet, ApplyFails, Erase, EraseFails, NoteTarget,
              poll, handler, flash, cores
<1>4. CASE Boot
  BY <1>4 DEF Boot, Reboot, Reset, Confirm, Restart, Swap, NetUpdateOpen,
              poll, handler, flash, cores
<1>5. CASE UNCHANGED vars
  BY <1>5 DEF vars, poll, handler, flash, cores
<1> QED
  BY <1>1, <1>2, <1>3, <1>4, <1>5 DEF Next

\* A later command is pending until the handler has seen it.
LEMMA FreshKept == ASSUME Inductive, [Next]_vars PROVE Fresh'
<1> USE DEF Inductive, TypeOK, RamOK, Booting, HandlerOK, Fresh, Pending
<1>1. CASE PollThread
  <2>1. CASE Decode
    <3>1. rx' = "decoded" /\ file' \in File
      BY <2>1 DEF Decode
    <3> QED
      BY <3>1 DEF Fresh, Pending
  <2>2. CASE Submit
    <3>1. rx = "decoded" /\ file' = file
      BY <2>2 DEF Submit
    <3>2. events' > 0
      BY <2>2 DEF Submit, TypeOK, CountersOK
    <3> QED
      BY <3>1, <3>2 DEF Fresh, Pending
  <2> QED
    BY <1>1, <2>1, <2>2 DEF PollThread
<1>2. CASE WorkQueue
  BY <1>2 DEF WorkQueue, HandleStop, HandleCommand, Check, Wake, Start, StartFails,
              Started, Stop, Cancel,
              poll, handler, flash, cores
<1>3. CASE DownloadThread
  BY <1>3 DEF DownloadThread, Loaded, Fails, Ended, FinishedApp, FinishedNet, OpenFails,
              FinishedUnknown, UpdateNet, ApplyFails, Erase, EraseFails, NoteTarget,
              poll, handler, flash, cores
<1>4. CASE Boot
  BY <1>4 DEF Boot, Reboot, Reset, Confirm, Restart, Swap, NetUpdateOpen,
              poll, handler, flash, cores
<1>5. CASE UNCHANGED vars
  BY <1>5 DEF vars, poll, handler, flash, cores
<1> QED
  BY <1>1, <1>2, <1>3, <1>4, <1>5 DEF Next

\* The slot is the download thread's while it holds an image.
LEMMA SlotKept == ASSUME Inductive, [Next]_vars PROVE SlotOK'
<1> USE DEF Inductive, TypeOK, RamOK, FlashOK, Booting, HandlerOK, SlotOK, TargetOf, AppImage, NetImage, Image, File
<1>1. CASE PollThread
  BY <1>1 DEF PollThread, Decode, Submit,
              poll, handler, flash, cores
<1>2. CASE WorkQueue
  BY <1>2 DEF WorkQueue, HandleStop, HandleCommand, Check, Wake, Start, StartFails,
              Started, Stop, Cancel,
              poll, handler, flash, cores
<1>3. CASE DownloadThread
  BY <1>3 DEF DownloadThread, Loaded, Fails, Ended, FinishedApp, FinishedNet, OpenFails,
              FinishedUnknown, UpdateNet, ApplyFails, Erase, EraseFails, NoteTarget,
              poll, handler, flash, cores
<1>4. CASE Boot
  BY <1>4 DEF Boot, Reboot, Reset, Confirm, Restart, Swap, NetUpdateOpen,
              poll, handler, flash, cores
<1>5. CASE UNCHANGED vars
  BY <1>5 DEF vars, poll, handler, flash, cores
<1> QED
  BY <1>1, <1>2, <1>3, <1>4, <1>5 DEF Next

\* A network-core image is erased before the thread rests.
LEMMA MarkedNetKept == ASSUME Inductive, [Next]_vars PROVE MarkedNet'
<1> USE DEF Inductive, TypeOK, RamOK, FlashOK, Booting, HandlerOK, SlotOK, MarkedNet, RightCores, TargetOf, AppImage, NetImage, Image, File
<1>1. CASE PollThread
  BY <1>1 DEF PollThread, Decode, Submit,
              poll, handler, flash, cores
<1>2. CASE WorkQueue
  BY <1>2 DEF WorkQueue, HandleStop, HandleCommand, Check, Wake, Start, StartFails,
              Started, Stop, Cancel,
              poll, handler, flash, cores
<1>3. CASE DownloadThread
  BY <1>3 DEF DownloadThread, Loaded, Fails, Ended, FinishedApp, FinishedNet, OpenFails,
              FinishedUnknown, UpdateNet, ApplyFails, Erase, EraseFails, NoteTarget,
              poll, handler, flash, cores
<1>4. CASE Boot
  BY <1>4 DEF Boot, Reboot, Reset, Confirm, Restart, Swap, NetUpdateOpen,
              poll, handler, flash, cores
<1>5. CASE UNCHANGED vars
  BY <1>5 DEF vars, poll, handler, flash, cores
<1> QED
  BY <1>1, <1>2, <1>3, <1>4, <1>5 DEF Next

\* Only MCUboot and the network core's update change a core.
LEMMA RightCoresKept == ASSUME Inductive, [Next]_vars PROVE RightCores'
<1> USE DEF Inductive, TypeOK, RamOK, FlashOK, Booting, SlotOK, MarkedNet, RightCores, AppImage, NetImage, Image, File
<1>1. CASE PollThread
  BY <1>1 DEF PollThread, Decode, Submit,
              poll, handler, flash, cores
<1>2. CASE WorkQueue
  BY <1>2 DEF WorkQueue, HandleStop, HandleCommand, Check, Wake, Start, StartFails,
              Started, Stop, Cancel,
              poll, handler, flash, cores
<1>3. CASE DownloadThread
  BY <1>3 DEF DownloadThread, Loaded, Fails, Ended, FinishedApp, FinishedNet, OpenFails,
              FinishedUnknown, UpdateNet, ApplyFails, Erase, EraseFails, NoteTarget,
              poll, handler, flash, cores
<1>4. CASE Boot
  BY <1>4 DEF Boot, Reboot, Reset, Confirm, Restart, Swap, NetUpdateOpen,
              poll, handler, flash, cores
<1>5. CASE UNCHANGED vars
  BY <1>5 DEF vars, poll, handler, flash, cores
<1> QED
  BY <1>1, <1>2, <1>3, <1>4, <1>5 DEF Next

-----------------------------------------------------------------------------
(* The theorems.                                                           *)

LEMMA InductiveInit == ASSUME Init PROVE Inductive
<1>1. TypeOK
  BY DEF Init, TypeOK, RamOK, FlashOK, CountersOK, AppImage, NetImage, Image, File
<1>2. Booting /\ HandlerOK /\ SlotOK
  BY DEF Init, Booting, HandlerOK, SlotOK
<1>3. NoCommandYet
  <2>1. rx # "decoded" /\ wpc = "idle" /\ dpc = "none" /\ events = 0
    BY DEF Init
  <2>2. ~(events > 0)
    BY <2>1
  <2> QED
    BY <2>1, <2>2 DEF NoCommandYet, Pending
<1>4. Fresh /\ MarkedNet /\ RightCores
  BY DEF Init, Fresh, MarkedNet, RightCores, AppImage, NetImage
<1> QED
  BY <1>1, <1>2, <1>3, <1>4 DEF Inductive

\* The invariant the properties follow from holds in every state.
THEOREM Invariance == Spec => []Inductive
<1>1. Init => Inductive
  BY InductiveInit
<1>2. Inductive /\ [Next]_vars => Inductive'
  <2> SUFFICES ASSUME Inductive, [Next]_vars PROVE Inductive'
    OBVIOUS
  <2> QED
    BY RamKept, FlashKept, CountersKept, FlagKept,
       BootingKept, NoCommandKept, HandlerKept, FreshKept,
       SlotKept, MarkedNetKept, RightCoresKept DEF Inductive, TypeOK
<1> QED
  BY <1>1, <1>2, PTL DEF Spec

\* Type correctness.
THEOREM TypeCorrect == Spec => []TypeOK
<1>1. Inductive => TypeOK
  BY DEF Inductive
<1> QED
  BY <1>1, Invariance, PTL

\* A download that goes on is the one the last command asked for.
THEOREM LastCommand == Spec => []LastCommandWins
<1>1. Inductive => LastCommandWins
  BY DEF Inductive, LastCommandWins, Fresh, HandlerOK
<1> QED
  BY <1>1, Invariance, PTL

\* No network-core image is left marked for the application core.
THEOREM NoMarkedNetImage == Spec => []NoMarkedNetImageLeft
<1>1. Inductive => NoMarkedNetImageLeft
  BY DEF Inductive, NoMarkedNetImageLeft, MarkedNet
<1> QED
  BY <1>1, Invariance, PTL

\* Each core runs an image of its own, but for the named faults.
THEOREM CoresRight == Spec => []RightCores
<1>1. Inductive => RightCores
  BY DEF Inductive
<1> QED
  BY <1>1, Invariance, PTL
=============================================================================
