---------------------------- MODULE ShellCommand ----------------------------
(***************************************************************************)
(* A command line of the shell, carried out by a task of its own           *)
(* (ntshell/src/ntshell_main.c), and the table of descriptors that both    *)
(* tasks use (ntshell/src/fdtable.c).  The shell's task has the higher     *)
(* priority: the command's task runs only while the shell's waits.         *)
(* Descriptors are FIRST .. LAST; each carries an object (exinf).          *)
(***************************************************************************)
EXTENDS Integers, Sequences

CONSTANTS
  FIRST, LAST,  \* the descriptors that new_fp gives out
  MAXINPUT,     \* bound of the model on the characters typed ahead
  SHELL, CMD    \* NTSHELL_TASK and SHELLCMD_TASK

ASSUME ShellAssumption ==
  FIRST \in Nat /\ LAST \in Nat /\ FIRST <= LAST /\ MAXINPUT \in Nat /\ SHELL # CMD

Task == {SHELL, CMD}
Fd == FIRST .. LAST
Char == {"key", "enter", "ctrlC"}

VARIABLES
  input,    \* characters the serial port has received and nobody has read
  event,    \* event_req # event_res: the network has asked for attention
  state,    \* shellcmd_state
  used,     \* descriptors whose type is set
  exinf,    \* what the object pointer of each descriptor points to
  sem,      \* SEM_FILEDESC
  at,       \* where each task is
  fd,       \* the descriptor each task works on
  after,    \* where the command goes after delete_fp
  dest,     \* where execute_command goes after clean_fd
  held,     \* how many opens of the command returned each descriptor
  full,     \* history: some new_fp of this command found no free descriptor
  cut,      \* history: where a termination hit the command before this one
  inside    \* history: some termination hit a command inside the semaphore

table == <<used, exinf, sem>>
control == <<at, fd, after, dest>>
history == <<full, cut, inside>>
shellvars == <<input, event, state, table, control, held, history>>

ShellInit ==
  /\ input = <<>> /\ event = FALSE /\ state = 0
  /\ used = {} /\ exinf = [f \in Fd |-> "null"] /\ sem = 1
  /\ at = [p \in Task |-> IF p = SHELL THEN "prompt" ELSE "dormant"]
  /\ fd = [p \in Task |-> FIRST] /\ after = "run" /\ dest = "prompt"
  /\ held = [f \in Fd |-> 0] /\ full = FALSE /\ cut = "none" /\ inside = FALSE

Go(p, place) == at' = [at EXCEPT ![p] = place] /\ UNCHANGED <<fd, after, dest>>
Return(p) == IF p = SHELL THEN "next" ELSE after

\* The shell's task waits: the command's task may run.
ShellWaits ==
  \/ at[SHELL] \in {"reading", "sleep", "closing"}
  \/ at[SHELL] = "prompt" /\ input = <<>>
  \/ at[SHELL] = "delWait" /\ sem = 0
MayRun(p) == p = SHELL \/ ShellWaits

Inside == {"newIn", "newOut", "delIn", "delOut"}

----------------------------------------------------------------------------
\* The table of descriptors.  Fault: new_fp leaves without giving back the
\* semaphore when there is no free descriptor.
new_fp_keeps(p) ==
  LET free == Fd \ used
      f == IF free = {} THEN LAST ELSE CHOOSE x \in free : \A y \in free : x <= y
  IN  /\ at[p] = "newIn" /\ MayRun(p)
      /\ used' = used \cup {f} /\ exinf' = [exinf EXCEPT ![f] = IF free = {} THEN @ ELSE "null"]
      /\ fd' = [fd EXCEPT ![p] = f]
      /\ at' = [at EXCEPT ![p] = IF free = {} THEN "alloc" ELSE "newOut"]
      /\ full' = (full \/ free = {})
      /\ UNCHANGED <<input, event, state, sem, after, dest, held, cut, inside>>

\* Fault: the descriptors are handed out round the table, in use or not.
new_fp_next(p) ==
  LET f == IF fd[p] < LAST THEN fd[p] + 1 ELSE FIRST
  IN  /\ at[p] = "newIn" /\ MayRun(p)
      /\ used' = used \cup {f} /\ exinf' = [exinf EXCEPT ![f] = "null"]
      /\ fd' = [fd EXCEPT ![p] = f]
      /\ at' = [at EXCEPT ![p] = "newOut"]
      /\ full' = (full \/ Fd \ used = {})
      /\ UNCHANGED <<input, event, state, sem, after, dest, held, cut, inside>>

\* new_fp, inside the semaphore: the first free descriptor, and the last of the
\* table, which is in use, when there is none.
new_fp(p) ==
  LET free == Fd \ used
      f == IF free = {} THEN LAST ELSE CHOOSE x \in free : \A y \in free : x <= y
  IN  /\ at[p] = "newIn" /\ MayRun(p)
      /\ used' = used \cup {f} /\ exinf' = [exinf EXCEPT ![f] = IF free = {} THEN @ ELSE "null"]
      /\ fd' = [fd EXCEPT ![p] = f]
      /\ at' = [at EXCEPT ![p] = "newOut"]
      /\ full' = (full \/ free = {})
      /\ UNCHANGED <<input, event, state, sem, after, dest, held, cut, inside>>

\* wai_sem and sig_sem of new_fp and delete_fp.
Enter(p, from, to) ==
  /\ at[p] = from /\ MayRun(p) /\ sem = 1
  /\ sem' = 0 /\ Go(p, to)
  /\ UNCHANGED <<input, event, state, used, exinf, held, history>>

Leave(p, from, to) ==
  /\ at[p] = from /\ MayRun(p)
  /\ sem' = 1 /\ Go(p, to)
  /\ UNCHANGED <<input, event, state, used, exinf, held, history>>

\* delete_fp: the type's delete function frees the object, then clears the pointer,
\* then the entry is cleared inside the semaphore.
delete_fp(p) ==
  /\ at[p] = "delete" /\ MayRun(p)
  /\ IF fd[p] \in used
     THEN exinf' = [exinf EXCEPT ![fd[p]] = "freed"] /\ Go(p, "freed")
     ELSE UNCHANGED exinf /\ Go(p, Return(p))
  /\ UNCHANGED <<input, event, state, used, sem, held, history>>

ClearPointer(p) ==
  /\ at[p] = "freed" /\ MayRun(p)
  /\ exinf' = [exinf EXCEPT ![fd[p]] = "null"] /\ Go(p, "delWait")
  /\ UNCHANGED <<input, event, state, used, sem, held, history>>

\* Fault: the entry keeps its type.
ClearEntry_type(p) ==
  /\ at[p] = "delIn" /\ MayRun(p)
  /\ exinf' = [exinf EXCEPT ![fd[p]] = "null"] /\ Go(p, "delOut")
  /\ UNCHANGED <<input, event, state, used, sem, held, history>>

ClearEntry(p) ==
  /\ at[p] = "delIn" /\ MayRun(p)
  /\ used' = used \ {fd[p]} /\ exinf' = [exinf EXCEPT ![fd[p]] = "null"] /\ Go(p, "delOut")
  /\ UNCHANGED <<input, event, state, sem, held, history>>

\* The type's close function, which may wait for the device or the connection.
Closed(p) ==
  /\ at[p] = "closing" /\ MayRun(p) /\ Go(p, "delete")
  /\ UNCHANGED <<input, event, state, table, held, history>>

\* clean_fd: every descriptor in use is closed and deleted, whoever opened it.
clean_fd(p) ==
  /\ at[p] = "clean" /\ MayRun(p)
  /\ IF fd[p] \in used
     THEN /\ at' = [at EXCEPT ![p] = "closing"] /\ after' = IF p = CMD THEN "next" ELSE after
          /\ UNCHANGED <<fd, dest>>
     ELSE Go(p, "next")
  /\ UNCHANGED <<input, event, state, table, held, history>>

\* Faults: the loop stops before the last descriptor; it runs past it.
clean_fd_next_short(p, then) ==
  /\ at[p] = "next" /\ MayRun(p)
  /\ IF fd[p] < LAST - 1
     THEN fd' = [fd EXCEPT ![p] = @ + 1] /\ at' = [at EXCEPT ![p] = "clean"] /\ UNCHANGED <<after, dest>>
     ELSE Go(p, then)
  /\ UNCHANGED <<input, event, state, table, held, history>>

clean_fd_next_long(p, then) ==
  /\ at[p] = "next" /\ MayRun(p)
  /\ IF fd[p] <= LAST
     THEN fd' = [fd EXCEPT ![p] = @ + 1] /\ at' = [at EXCEPT ![p] = "clean"] /\ UNCHANGED <<after, dest>>
     ELSE Go(p, then)
  /\ UNCHANGED <<input, event, state, table, held, history>>

clean_fd_next(p, then) ==
  /\ at[p] = "next" /\ MayRun(p)
  /\ IF fd[p] < LAST
     THEN fd' = [fd EXCEPT ![p] = @ + 1] /\ at' = [at EXCEPT ![p] = "clean"] /\ UNCHANGED <<after, dest>>
     ELSE Go(p, then)
  /\ UNCHANGED <<input, event, state, table, held, history>>

StartCleaning(p) == at' = [at EXCEPT ![p] = "clean"] /\ fd' = [fd EXCEPT ![p] = FIRST]

----------------------------------------------------------------------------
\* The command's task.  It opens and closes descriptors until it ends.
shellcmd_task ==
  /\ at[CMD] = "ready" /\ ShellWaits
  /\ state' = 1 /\ Go(CMD, "run")
  /\ UNCHANGED <<input, event, table, held, history>>

\* shell_open: new_fp, the object, f_open; delete_fp when the file is not there.
shell_open ==
  /\ at[CMD] = "run" /\ ShellWaits /\ Go(CMD, "new")
  /\ UNCHANGED <<input, event, state, table, held, history>>

shell_open_found ==
  /\ at[CMD] = "alloc" /\ ShellWaits
  /\ exinf' = [exinf EXCEPT ![fd[CMD]] = "live"]
  /\ held' = [held EXCEPT ![fd[CMD]] = IF @ < 2 THEN @ + 1 ELSE @] /\ Go(CMD, "run")
  /\ UNCHANGED <<input, event, state, used, sem, history>>

shell_open_fails ==
  /\ at[CMD] = "alloc" /\ ShellWaits
  /\ exinf' = [exinf EXCEPT ![fd[CMD]] = "live"]
  /\ at' = [at EXCEPT ![CMD] = "delete"] /\ after' = "run"
  /\ UNCHANGED <<input, event, state, used, sem, fd, dest, held, history>>

shell_close(f) ==
  /\ at[CMD] = "run" /\ ShellWaits /\ held[f] > 0
  /\ held' = [held EXCEPT ![f] = @ - 1]
  /\ IF f \in used
     THEN /\ fd' = [fd EXCEPT ![CMD] = f] /\ at' = [at EXCEPT ![CMD] = "closing"]
          /\ after' = "run" /\ UNCHANGED dest
     ELSE UNCHANGED control
  /\ UNCHANGED <<input, event, state, table, history>>

\* The command returns: clean_fd, then the end is made known, then the task ends.
CommandReturns ==
  /\ at[CMD] = "run" /\ ShellWaits
  /\ StartCleaning(CMD) /\ UNCHANGED <<after, dest>>
  /\ UNCHANGED <<input, event, state, table, held, history>>

CommandDone ==
  /\ at[CMD] = "done" /\ ShellWaits
  /\ state' = 2 /\ Go(CMD, "ended")
  /\ UNCHANGED <<input, event, table, held, history>>

ext_tsk ==
  /\ at[CMD] = "ended" /\ ShellWaits /\ Go(CMD, "dormant")
  /\ UNCHANGED <<input, event, state, table, held, history>>

----------------------------------------------------------------------------
\* The shell's task.  ter_tsk ends the command's task wherever it is; what the
\* task holds stays as it is.
ter_tsk ==
  /\ at' = [at EXCEPT ![CMD] = "dormant", ![SHELL] = "sleep"]
  /\ cut' = at[CMD] /\ inside' = (inside \/ at[CMD] \in Inside)
  /\ held' = [f \in Fd |-> 0] /\ full' = FALSE

\* A line is entered at the prompt; other characters only edit the line.
ReadLine ==
  /\ at[SHELL] = "prompt" /\ input # <<>>
  /\ input' = Tail(input)
  /\ event' = FALSE
  /\ IF Head(input) = "enter" THEN Go(SHELL, "execute") ELSE UNCHANGED control
  /\ UNCHANGED <<state, table, held, history>>

\* Fault: an earlier command that still runs is left alone.
execute_command_leaves ==
  /\ at[SHELL] = "execute"
  /\ StartCleaning(SHELL) /\ dest' = "act" /\ UNCHANGED after
  /\ UNCHANGED <<input, event, state, table, held, history>>

\* execute_command ends an earlier command, and cleans up after it.
execute_command ==
  /\ at[SHELL] = "execute"
  /\ dest' = "act" /\ UNCHANGED after
  /\ IF at[CMD] # "dormant" THEN ter_tsk /\ UNCHANGED fd
     ELSE StartCleaning(SHELL) /\ UNCHANGED <<held, history>>
  /\ UNCHANGED <<input, event, state, table>>

\* tslp_tsk(100000) after the termination.
Slept ==
  /\ at[SHELL] = "sleep"
  /\ StartCleaning(SHELL) /\ UNCHANGED <<after, dest>>
  /\ UNCHANGED <<input, event, state, table, held, history>>

act_tsk ==
  /\ at[SHELL] = "act"
  /\ state' = 0
  /\ at' = [at EXCEPT ![SHELL] = "read", ![CMD] = "ready"]
  /\ held' = [f \in Fd |-> 0] /\ full' = FALSE /\ cut' = "none"
  /\ UNCHANGED <<input, event, table, fd, after, dest, inside>>

\* A character read while the command runs goes to the command, except Ctrl+C.
Take(c) ==
  /\ input' = Tail(input)
  /\ IF c # "ctrlC" THEN Go(SHELL, "check") /\ UNCHANGED <<state, held, history>>
     ELSE /\ state' = 4 /\ dest' = "prompt" /\ UNCHANGED after
          /\ IF at[CMD] # "dormant" THEN ter_tsk /\ UNCHANGED fd
             ELSE StartCleaning(SHELL) /\ UNCHANGED <<held, history>>

\* uart_read: with the timer of the loop, or without waiting when the network has
\* asked for attention.
uart_read ==
  /\ at[SHELL] = "read"
  /\ event' = FALSE
  /\ IF input # <<>> THEN Take(Head(input))
     ELSE /\ Go(SHELL, IF event THEN "check" ELSE "reading")
          /\ UNCHANGED <<input, state, held, history>>
  /\ UNCHANGED table

\* The wait ends with a character or after 100 ms, in which the command has started.
uart_read_ends ==
  /\ at[SHELL] = "reading" /\ (input # <<>> \/ at[CMD] # "ready")
  /\ IF input # <<>> THEN Take(Head(input))
     ELSE Go(SHELL, "check") /\ UNCHANGED <<input, state, held, history>>
  /\ UNCHANGED <<event, table>>

\* Fault: only Ctrl+C ends the loop.
WhileRunning_ctrlC ==
  /\ at[SHELL] = "check"
  /\ state' = IF at[CMD] = "dormant" THEN 3 ELSE state
  /\ IF state' # 4 THEN Go(SHELL, "read")
     ELSE StartCleaning(SHELL) /\ dest' = "prompt" /\ UNCHANGED after
  /\ UNCHANGED <<input, event, table, held, history>>

\* The end of the loop: ref_tsk and while(shellcmd_state == 1).
WhileRunning ==
  /\ at[SHELL] = "check"
  /\ state' = IF at[CMD] = "dormant" THEN 3 ELSE state
  /\ IF state' = 1 THEN Go(SHELL, "read")
     ELSE StartCleaning(SHELL) /\ dest' = "prompt" /\ UNCHANGED after
  /\ UNCHANGED <<input, event, table, held, history>>

----------------------------------------------------------------------------
\* A key is pressed.
Key(c) ==
  /\ Len(input) < MAXINPUT /\ input' = Append(input, c)
  /\ UNCHANGED <<event, state, table, control, held, history>>

\* netif_link_callback and ntp_cli_state_changed: rel_wai wakes the shell's task,
\* also out of a wait that has nothing to do with the network; a wai_sem that is
\* released so is taken for granted.
NetworkEvent ==
  /\ ~event /\ at[SHELL] # "prompt"
  /\ event' = TRUE
  /\ CASE at[SHELL] = "reading" -> Go(SHELL, "check")
       [] at[SHELL] = "sleep" -> StartCleaning(SHELL) /\ UNCHANGED <<after, dest>>
       [] at[SHELL] = "closing" -> Go(SHELL, "delete")
       [] at[SHELL] = "delWait" /\ sem = 0 -> Go(SHELL, "delIn")
       [] OTHER -> UNCHANGED control
  /\ UNCHANGED <<input, state, table, held, history>>

Descriptors(p) ==
  \/ delete_fp(p) \/ ClearPointer(p) \/ ClearEntry(p) \/ Closed(p) \/ clean_fd(p)
  \/ Enter(p, "delWait", "delIn") \/ Leave(p, "delOut", Return(p))
Command ==
  \/ shellcmd_task \/ shell_open \/ shell_open_found \/ shell_open_fails
  \/ \E f \in Fd : shell_close(f)
  \/ CommandReturns \/ CommandDone \/ ext_tsk
  \/ Enter(CMD, "new", "newIn") \/ new_fp(CMD) \/ Leave(CMD, "newOut", "alloc")
  \/ Descriptors(CMD) \/ clean_fd_next(CMD, "done")
Shell ==
  \/ ReadLine \/ execute_command \/ Slept \/ act_tsk \/ uart_read \/ uart_read_ends \/ WhileRunning
  \/ Descriptors(SHELL) \/ clean_fd_next(SHELL, dest)
ShellNext == Shell \/ Command \/ NetworkEvent \/ \E c \in Char : Key(c)
ShellSpec == ShellInit /\ [][ShellNext]_shellvars

\* The shell's task has the highest priority of the two, and its waits for a device or
\* with a limit end; the command may do as it likes.
FairShellSpec == ShellSpec /\ WF_shellvars(Shell)

----------------------------------------------------------------------------
ShellTypeOK ==
  /\ input \in Seq(Char) /\ Len(input) <= MAXINPUT /\ event \in BOOLEAN /\ state \in 0 .. 4
  /\ used \subseteq Fd /\ exinf \in [Fd -> {"null", "live", "freed"}] /\ sem \in {0, 1}
  /\ fd \in [Task -> Fd] /\ after \in {"run", "next"} /\ dest \in {"act", "prompt"}
  /\ held \in [Fd -> 0 .. 2] /\ full \in BOOLEAN
  /\ at[SHELL] \in {"prompt", "execute", "sleep", "act", "read", "reading", "check", "clean",
                     "closing", "delete", "freed", "delWait", "delIn", "delOut", "next"}
  /\ at[CMD] \in {"dormant", "ready", "run", "new", "newIn", "newOut", "alloc", "closing", "delete",
                   "freed", "delWait", "delIn", "delOut", "clean", "next", "done", "ended"}

Cleaning == {"clean", "closing", "delete", "freed", "delWait", "delIn", "delOut", "next"}

\* clean_fd of the shell closes the descriptors of all tasks: the command never has one
\* open or is opening one meanwhile, although it goes on running when the shell's loop
\* ended before it had started.
CleanAlone == at[SHELL] \in Cleaning => at[CMD] \in {"dormant", "ready", "ended"}

\* A command starts with an empty table, whatever became of the one before.
StartsClean == [][at[SHELL] = "act" => used = {}]_shellvars

\* Two opens of a command have the same descriptor only after an open met a full table.
OwnDescriptors == \A f \in Fd : held[f] > 1 => full

\* Every close sees an object that is there, unless a termination hit the command between
\* taking the entry and filling it, or between freeing the object and clearing the pointer,
\* or two opens share the entry.
ClosesLiveObject ==
  \A p \in Task : at[p] = "closing" => \/ exinf[fd[p]] = "live"
                                       \/ cut \in {"newOut", "alloc", "freed", "delWait", "delIn"}
                                       \/ full

\* SEM_FILEDESC, which guards the table and the callbacks of the sockets, is taken
\* and never given back only when a termination hit the command inside.
SemaphoreKept ==
  sem = 0 /\ (\A p \in Task : at[p] \notin Inside) => inside

\* However a command ends, the descriptors are cleaned by the shell alone, each is
\* closed once and by its owner, and the semaphore of the table is given back, with
\* the exceptions named above (ntshell_main.c, fdtable.c).
ShellOK ==
  ShellTypeOK /\ CleanAlone /\ OwnDescriptors /\ ClosesLiveObject /\ SemaphoreKept

\* A command that has ended or that Ctrl+C has ended brings the prompt back, unless the
\* shell waits for the semaphore that nobody gives back.
Lost == sem = 0 /\ at[SHELL] = "delWait" /\ at[CMD] \notin Inside
Over ==
  /\ state \in {2, 4}
  /\ \/ at[SHELL] \in {"read", "reading", "check"}
     \/ dest = "prompt" /\ at[SHELL] \in Cleaning \cup {"sleep"}
PromptReturns == Over ~> (at[SHELL] = "prompt" \/ Lost)

\* Ctrl+C ends the command's task.
CtrlCEnds == [][(input # <<>> /\ Head(input) = "ctrlC" /\ input' = Tail(input)) => at'[CMD] = "dormant"]_shellvars
=============================================================================
