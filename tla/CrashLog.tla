------------------------------- MODULE CrashLog -------------------------------
(***************************************************************************)
(* What a device tells of its last crash: the handlers of failed           *)
(* assertions, fatal errors and the task watchdog, which leave a record in *)
(* retained RAM and restart (sys/); the start of main, which saves what    *)
(* valid retained RAM holds to files; and sys_pub_init, which reads the    *)
(* files that the system information reports. A reset or a loss of power   *)
(* may come between any two steps.                                         *)
(*                                                                         *)
(* A record is the number of its crash, which stands for its boot count    *)
(* and uptime. The layout of the strings, and a flash that is full or      *)
(* read-only, are left out.                                                *)
(***************************************************************************)
EXTENDS Integers, Sequences

CONSTANT MaxCrashes  \* bound: crashes in a behaviour

Kind == {"fatal", "assert", "watchdog"}
Order == <<"fatal", "assert", "watchdog">>  \* in which records are saved

Empty == 0     \* the empty string, or a default that stands for no crash
Junk == -1     \* bytes that are no ASCII string
Remains == -2  \* an ASCII string that was never meant as a record
Missing == -3  \* no file

VARIABLES
    at,       \* main: boot, remove or write the i-th file, read, run
    retained, \* the strings of retained RAM
    crc,      \* the checksum of retained RAM is right
    file,     \* assert.json, fatal.json, watchdog.json
    told,     \* what is reported: assert_json_str and fatal_error_json_str
    crashes,  \* history: crashes so far
    last      \* history: by kind the last crash since power was lost, 0 for none

vars == <<at, retained, crc, file, told, crashes, last>>
memory == <<retained, crc>>
history == <<crashes, last>>

\* Nothing but flash and retained RAM outlives a restart.
Restart ==
    /\ at' = <<"boot">>
    /\ told' = [k \in DOMAIN told |-> Empty]

-----------------------------------------------------------------------------
(* The crash handlers, with interrupts locked up to the reboot.            *)

Crash(kind, record) ==
    /\ crashes < MaxCrashes
    /\ crashes' = crashes + 1
    /\ last' = [last EXCEPT ![kind] = crashes + 1]
    /\ retained' = [retained EXCEPT ![kind] = record]
    /\ crc' = TRUE
    /\ Restart
    /\ UNCHANGED file

assert_post_action == Crash("assert", crashes + 1)

\* The record is written to retained RAM and then overwritten with the local
\* buffer, which nobody has initialised: it holds whatever the stack does.
k_sys_fatal_error_handler ==
    \E rest \in {Empty, Junk, Remains} : Crash("fatal", rest)

\* The channel belongs to the manager, which main starts after sys_pub_init.
task_wdt_callback == at = <<"run">> /\ Crash("watchdog", crashes + 1)

-----------------------------------------------------------------------------
(* The start of main.                                                      *)

\* retained_ram_init: nothing is saved of RAM that is not valid.
RetainedInit ==
    /\ at = <<"boot">>
    /\ \/ /\ crc
          /\ at' = <<"remove", 1>>
          /\ UNCHANGED memory
       \/ /\ ~crc
          /\ retained' = [k \in Kind |-> Empty] /\ crc' = TRUE
          /\ at' = <<"read">>
    /\ UNCHANGED <<file, told, history>>

After(i) == IF i = Len(Order) THEN <<"read">> ELSE <<"remove", i + 1>>

\* retained_ram_to_files_save: an empty string is passed over, any other
\* replaces its file, which is removed first.
SaveRemove(i) ==
    /\ at = <<"remove", i>>
    /\ \/ /\ retained[Order[i]] = Empty
          /\ at' = After(i)
          /\ UNCHANGED file
       \/ /\ retained[Order[i]] # Empty
          /\ at' = <<"write", i>>
          /\ file' = [file EXCEPT ![Order[i]] = Missing]
    /\ UNCHANGED <<memory, told, history>>

SaveWrite(i) ==
    /\ at = <<"write", i>>
    /\ file' = [file EXCEPT ![Order[i]] = retained[Order[i]]]
    /\ at' = After(i)
    /\ UNCHANGED <<memory, told, history>>

\* assert_json_read and fatal_error_json_read: a file that is missing, empty or
\* not ASCII is replaced by the default.
ReadOf(k) == IF file[k] \in {Missing, Empty, Junk} THEN Empty ELSE file[k]

\* sys_pub_init. Nobody reads watchdog.json.
sys_pub_init ==
    /\ at = <<"read">> /\ at' = <<"run">>
    /\ told' = [k \in DOMAIN told |-> ReadOf(k)]
    /\ file' = [k \in Kind |-> IF k \in DOMAIN told THEN ReadOf(k) ELSE file[k]]
    /\ UNCHANGED <<memory, history>>

-----------------------------------------------------------------------------
(* What happens to a device.                                               *)

\* A shell command.
retained_ram_erase ==
    /\ at = <<"run">>
    /\ retained' = [k \in Kind |-> Empty] /\ crc' = TRUE
    /\ last' = [k \in Kind |-> 0]
    /\ UNCHANGED <<at, file, told, crashes>>

\* A reboot on command or the reset pin: RAM is kept.
Reset ==
    /\ Restart
    /\ UNCHANGED <<memory, file, history>>

\* What RAM holds after power-up is no valid record of anything.
PowerLost ==
    /\ Restart
    /\ retained' \in [Kind -> {Empty, Junk}] /\ crc' = FALSE
    /\ last' = [k \in Kind |-> 0]
    /\ UNCHANGED <<file, crashes>>

-----------------------------------------------------------------------------

Init ==
    /\ at = <<"boot">>
    /\ retained \in [Kind -> {Empty, Junk}] /\ crc = FALSE
    /\ file = [k \in Kind |-> Missing]
    /\ told = [k \in {"assert", "fatal"} |-> Empty]
    /\ crashes = 0 /\ last = [k \in Kind |-> 0]

Next ==
    \/ assert_post_action \/ k_sys_fatal_error_handler \/ task_wdt_callback
    \/ RetainedInit \/ sys_pub_init
    \/ \E i \in DOMAIN Order : SaveRemove(i) \/ SaveWrite(i)
    \/ retained_ram_erase \/ Reset \/ PowerLost

Spec == Init /\ [][Next]_vars

-----------------------------------------------------------------------------
(* Properties.                                                             *)

\* A device that runs again after a fatal error, with its power kept, reports the
\* last one, wherever resets cut the saving short: "save fatal error to retained
\* ram - cant write to serial flash in this context" (fatal_error_handler.c 49),
\* "store any asserts or fatal errors from previous boot to files" (main.c 202).
FatalReported == at = <<"run">> /\ last["fatal"] # 0 => told["fatal"] = last["fatal"]
=============================================================================
