---------------------------- MODULE CrashLogProofs ----------------------------
(***************************************************************************)
(* A proof about CrashLog, for any number of crashes: what FatalReported   *)
(* asks of fatal errors, and the run crash_log finds violated, is true of  *)
(* failed assertions. What main saves and when it restarts is not to blame.*)
(***************************************************************************)
EXTENDS CrashLog, TLAPS

-----------------------------------------------------------------------------

\* A device that runs again after a failed assertion, with its power kept,
\* reports the last one, wherever resets cut the saving short
\* (retained_ram_to_files_save, assert_json_read).
AssertReported == at = <<"run">> /\ last["assert"] # 0 => told["assert"] = last["assert"]

\* The kinds of crashes whose handler leaves its record as it wrote it.
Truthful == {"assert", "watchdog"}

\* The place of such a kind in Order.
Place(k) == IF k = "assert" THEN 2 ELSE 3

TypeOK ==
    /\ at[1] \in {"boot", "remove", "write", "read", "run"}
    /\ at[1] \in {"remove", "write"} => at[2] \in 1..3
    /\ retained \in [Kind -> Int] /\ file \in [Kind -> Int]
    /\ told \in [{"assert", "fatal"} -> Int]
    /\ crashes \in Nat /\ last \in [Kind -> Nat]

\* Retained RAM holds the last record of each kind until power is lost.
Held == \A k \in Truthful : last[k] # 0 => crc /\ retained[k] = last[k]

\* The files of the kinds that have been saved since the restart hold it too.
SavedAt(k) ==
    \/ at[1] \in {"read", "run"}
    \/ at[1] \in {"remove", "write"} /\ at[2] > Place(k)

Saved == \A k \in Truthful : last[k] # 0 /\ SavedAt(k) => file[k] = last[k]

Told == at[1] = "run" /\ last["assert"] # 0 => told["assert"] = last["assert"]

LogInv == TypeOK /\ Held /\ Saved /\ Told

-----------------------------------------------------------------------------

\* The order of the records, spelled out.
LEMMA InOrder ==
    /\ Len(Order) = 3 /\ DOMAIN Order = 1..3
    /\ Order[1] = "fatal" /\ Order[2] = "assert" /\ Order[3] = "watchdog"
BY DEF Order

\* Where saving goes on after the i-th record.
LEMMA Onwards ==
    ASSUME NEW i \in 1..3
    PROVE  \/ i = 3 /\ After(i)[1] = "read"
           \/ i < 3 /\ After(i)[1] = "remove" /\ After(i)[2] = i + 1
BY InOrder DEF After

\* A crash of a truthful kind replaces the record of its kind.
LEMMA CrashKeeps ==
    ASSUME LogInv, NEW kind \in Kind, NEW record \in Int, Crash(kind, record),
           kind \in Truthful => record = crashes + 1
    PROVE  LogInv'
<1> USE DEF LogInv, TypeOK, Held, Saved, SavedAt, Told, Truthful, Kind
<1>1. at' = <<"boot">> /\ UNCHANGED file /\ crc' = TRUE
      /\ crashes' = crashes + 1
      /\ told' = [k \in DOMAIN told |-> Empty]
      /\ last' = [last EXCEPT ![kind] = crashes + 1]
      /\ retained' = [retained EXCEPT ![kind] = record]
  BY DEF Crash, Restart
<1>2. at'[1] = "boot"
  BY <1>1
<1>3. TypeOK'
  BY <1>1, <1>2 DEF Empty
<1>4. Held'
  BY <1>1
<1> QED
  BY <1>2, <1>3, <1>4

\* Saving one record brings the files one kind further.
LEMMA SaveKeeps ==
    ASSUME LogInv, NEW i \in DOMAIN Order, SaveRemove(i) \/ SaveWrite(i)
    PROVE  LogInv'
<1> USE DEF LogInv, TypeOK, Held, Saved, SavedAt, Told, Truthful, Kind, Place
<1>1. i \in 1..3 /\ Order[i] \in Kind
  BY InOrder
<1>2. UNCHANGED <<retained, crc, told, crashes, last>>
      /\ at[1] \in {"remove", "write"} /\ at[2] = i
  BY DEF SaveRemove, SaveWrite, memory, history
<1>3. CASE SaveRemove(i) /\ retained[Order[i]] = Empty
  <2>1. at' = After(i) /\ UNCHANGED file
    BY <1>3 DEF SaveRemove
  <2> QED
    BY <1>1, <1>2, <1>3, <2>1, Onwards, InOrder DEF Empty
<1>4. CASE SaveRemove(i) /\ retained[Order[i]] # Empty
  <2>1. at' = <<"write", i>> /\ file' = [file EXCEPT ![Order[i]] = Missing]
    BY <1>4 DEF SaveRemove
  <2>2. at'[1] = "write" /\ at'[2] = i
    BY <2>1
  <2> QED
    BY <1>1, <1>2, <2>1, <2>2, InOrder DEF Missing
<1>5. CASE SaveWrite(i)
  <2>1. at' = After(i) /\ file' = [file EXCEPT ![Order[i]] = retained[Order[i]]]
    BY <1>5 DEF SaveWrite
  <2> QED
    BY <1>1, <1>2, <2>1, Onwards, InOrder
<1> QED
  BY <1>3, <1>4, <1>5

\* For any number of crashes, resets and losses of power, between any two steps.
THEOREM AssertIsReported == Spec => []AssertReported
<1> USE DEF Kind
<1>1. Init => LogInv
  BY DEF Init, LogInv, TypeOK, Held, Saved, Told, Empty, Junk, Missing, Truthful
<1>2. LogInv /\ [Next]_vars => LogInv'
  <2> SUFFICES ASSUME LogInv, [Next]_vars PROVE LogInv'
    OBVIOUS
  <2>1. CASE assert_post_action
    <3>1. crashes + 1 \in Int
      BY DEF LogInv, TypeOK
    <3> QED
      BY <2>1, <3>1, CrashKeeps DEF assert_post_action
  <2>2. CASE k_sys_fatal_error_handler
    <3>1. PICK rest \in {Empty, Junk, Remains} : Crash("fatal", rest)
      BY <2>2 DEF k_sys_fatal_error_handler
    <3>2. rest \in Int
      BY DEF Empty, Junk, Remains
    <3> QED
      BY <3>1, <3>2, CrashKeeps DEF Truthful
  <2>3. CASE task_wdt_callback
    <3>1. crashes + 1 \in Int
      BY DEF LogInv, TypeOK
    <3> QED
      BY <2>3, <3>1, CrashKeeps DEF task_wdt_callback
  <2>4. CASE RetainedInit
    <3> USE DEF LogInv, TypeOK, Held, Saved, SavedAt, Told, Place
    <3>1. CASE crc
      <4>1. at'[1] = "remove" /\ at'[2] = 1
        BY <2>4, <3>1 DEF RetainedInit
      <4>2. UNCHANGED <<retained, crc, file, told, crashes, last>>
        BY <2>4, <3>1 DEF RetainedInit, memory, history
      <4> QED
        BY <4>1, <4>2
    <3>2. CASE ~crc
      <4>1. at'[1] = "read"
        BY <2>4, <3>2 DEF RetainedInit
      <4>2. /\ retained' = [k \in Kind |-> Empty]
            /\ UNCHANGED <<file, told, crashes, last>>
        BY <2>4, <3>2 DEF RetainedInit, history
      <4> QED
        BY <3>2, <4>1, <4>2 DEF Empty
    <3> QED
      BY <3>1, <3>2
  <2>5. CASE sys_pub_init
    <3> USE DEF LogInv, TypeOK, Held, Saved, SavedAt, Told, Truthful
    <3>1. at[1] = "read" /\ at'[1] = "run"
      BY <2>5 DEF sys_pub_init
    <3>2. /\ told' = [k \in {"assert", "fatal"} |-> ReadOf(k)]
          /\ file' = [k \in Kind |->
                        IF k \in {"assert", "fatal"} THEN ReadOf(k) ELSE file[k]]
          /\ UNCHANGED <<retained, crc, crashes, last>>
      BY <2>5 DEF sys_pub_init, memory, history
    <3>3. \A k \in Kind : ReadOf(k) \in Int
      BY DEF ReadOf, Empty
    <3>4. last["assert"] # 0 => ReadOf("assert") = last["assert"]
      BY <3>1 DEF ReadOf, Missing, Empty, Junk
    <3> QED
      BY <3>1, <3>2, <3>3, <3>4
  <2>6. CASE \E i \in DOMAIN Order : SaveRemove(i) \/ SaveWrite(i)
    BY <2>6, SaveKeeps
  <2>7. CASE retained_ram_erase
    BY <2>7 DEF retained_ram_erase, LogInv, TypeOK, Held, Saved, Told, Truthful, Empty
  <2>8. CASE Reset
    <3>1. at'[1] = "boot" /\ UNCHANGED <<retained, crc, file, crashes, last>>
          /\ told' = [k \in DOMAIN told |-> Empty]
      BY <2>8 DEF Reset, Restart, memory, history
    <3> QED
      BY <3>1 DEF LogInv, TypeOK, Held, Saved, SavedAt, Told, Empty
  <2>9. CASE PowerLost
    <3>1. at'[1] = "boot" /\ UNCHANGED <<file, crashes>>
          /\ told' = [k \in DOMAIN told |-> Empty]
          /\ retained' \in [Kind -> {Empty, Junk}]
          /\ last' = [k \in Kind |-> 0]
      BY <2>9 DEF PowerLost, Restart
    <3> QED
      BY <3>1 DEF LogInv, TypeOK, Held, Saved, SavedAt, Told, Empty, Junk, Truthful
  <2>10. CASE UNCHANGED vars
    BY <2>10 DEF vars, LogInv, TypeOK, Held, Saved, SavedAt, Told
  <2> QED
    BY <2>1, <2>2, <2>3, <2>4, <2>5, <2>6, <2>7, <2>8, <2>9, <2>10 DEF Next
<1>3. LogInv => AssertReported
  BY DEF LogInv, Told, AssertReported
<1> QED
  BY <1>1, <1>2, <1>3, PTL DEF Spec
=============================================================================
