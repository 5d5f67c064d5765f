---------------------------- MODULE SharedMemory ----------------------------
(***************************************************************************)
(* How main (client/waylandbuffer.hpp) and test1 (client/test1.cpp) get    *)
(* the memory they share with the server: a temporary file that loses its  *)
(* name at once, is given its size, mapped, and handed to the server as a  *)
(* pool.  Every call may fail, and a program may be killed between any two *)
(* of them; the kernel then closes its descriptors, but not its files.     *)
(*                                                                         *)
(* main reserves the blocks of its file (posix_fallocate), test1 only sets *)
(* the size (ftruncate).  A page without a block gets one when it is       *)
(* written, and if there is none left the process gets SIGBUS.             *)
(***************************************************************************)
CONSTANTS MainPrograms,   \* programs that run main, each with its file system
          Test1Programs   \* programs that run test1

ASSUME SharedMemoryAssumption == MainPrograms \cap Test1Programs = {}

Programs == MainPrograms \cup Test1Programs

VARIABLES call,       \* the next call of each program, or how it ended
          named,      \* programs whose file still has a name
          open,       \* programs whose descriptor of the file is open
          reserved,   \* programs whose file has all its blocks
          full        \* programs whose file system is full

memoryVars == <<call, named, open, reserved, full>>

MemoryInit ==
  /\ call = [p \in Programs |-> "create"]
  /\ named = {} /\ open = {} /\ reserved = {}
  /\ full \in SUBSET Programs

Goto(p, next) == call' = [call EXCEPT ![p] = next]

GoOn(p, next) == Goto(p, next) /\ UNCHANGED open

\* The descriptor is closed and the program gives up: exit(1), or an exception
GiveUp(p) == Goto(p, "failed") /\ open' = open \ {p}

-----------------------------------------------------------------------------
(* createAnonymousFile and os_create_anonymous_file *)

\* mkostemp, or mkstemp, which leaves close-on-exec to be set.  Without a
\* directory or memory for its name, test1 gives up before it makes the file
CreateFile(p) ==
  /\ call[p] = "create"
  /\ \/ /\ Goto(p, IF p \in Test1Programs THEN "cloexec" ELSE "unlink")
        /\ named' = named \cup {p} /\ open' = open \cup {p}
     \/ /\ GiveUp(p)
        /\ UNCHANGED named
  /\ UNCHANGED <<reserved, full>>

\* Mutant: the program gives up before it removes the name
SetCloexecOrGiveUp(p) ==
  /\ call[p] = "cloexec"
  /\ GoOn(p, "unlink") \/ GiveUp(p)
  /\ UNCHANGED <<named, reserved, full>>

\* set_cloexec_or_close: the name is removed in either case
SetCloexec(p) ==
  /\ call[p] = "cloexec"
  /\ Goto(p, "unlink")
  /\ open' \in {open, open \ {p}}
  /\ UNCHANGED <<named, reserved, full>>

Unlink(p) ==
  /\ call[p] = "unlink"
  /\ Goto(p, IF p \in open THEN "size" ELSE "failed")
  /\ named' = named \ {p}
  /\ UNCHANGED <<open, reserved, full>>

\* Mutant: main uses ftruncate as well
ReservesNever(p) == FALSE

\* posix_fallocate against ftruncate
Reserves(p) == p \in MainPrograms

SetSize(p) ==
  /\ call[p] = "size"
  /\ \/ /\ Reserves(p) => p \notin full
        /\ GoOn(p, "map")
        /\ reserved' = IF Reserves(p) THEN reserved \cup {p} ELSE reserved
     \/ /\ GiveUp(p)
        /\ UNCHANGED reserved
  /\ UNCHANGED <<named, full>>

-----------------------------------------------------------------------------
(* createShmBuffer and create_buffer, and what is drawn first *)

Map(p) ==
  /\ call[p] = "map"
  /\ GoOn(p, "share") \/ GiveUp(p)
  /\ UNCHANGED <<named, reserved, full>>

\* The pool and the buffer; main closes its descriptor, test1 keeps it
Share(p) ==
  /\ call[p] = "share"
  /\ Goto(p, "paint")
  /\ open' = IF p \in MainPrograms THEN open \ {p} ELSE open
  /\ UNCHANGED <<named, reserved, full>>

\* Every pixel is written
Paint(p) ==
  /\ call[p] = "paint"
  /\ IF p \in full /\ p \notin reserved
     THEN Goto(p, "faulted") /\ open' = open \ {p}
     ELSE GoOn(p, "running")
  /\ UNCHANGED <<named, reserved, full>>

-----------------------------------------------------------------------------
Ended == {"failed", "faulted", "killed"}

\* The process is killed by a signal
Kill(p) ==
  /\ call[p] \notin Ended
  /\ Goto(p, "killed")
  /\ open' = open \ {p}
  /\ UNCHANGED <<named, reserved, full>>

\* Others fill the file system, or make room
DiskChanges(p) ==
  /\ full' = IF p \in full THEN full \ {p} ELSE full \cup {p}
  /\ UNCHANGED <<call, named, open, reserved>>

MemoryNext ==
  \E p \in Programs :
    \/ CreateFile(p) \/ SetCloexec(p) \/ Unlink(p) \/ SetSize(p)
    \/ Map(p) \/ Share(p) \/ Paint(p)
    \/ Kill(p) \/ DiskChanges(p)

MemorySpec == MemoryInit /\ [][MemoryNext]_memoryVars

-----------------------------------------------------------------------------
(* Properties *)

(* Whichever call fails, a program leaves no name behind in the directory: *)
(* only one that is killed between the creation and the unlink does.  No   *)
(* program that goes on keeps its descriptor, except test1, for ever.      *)
NothingLeftBehind ==
  \A p \in Programs :
    /\ p \in named => call[p] \in {"cloexec", "unlink", "killed"}
    /\ call[p] \in {"failed", "running"} /\ p \in open =>
         p \in Test1Programs /\ call[p] = "running"

(* A full file system is found out before main draws: only test1 can be    *)
(* ended by SIGBUS in the middle of painting.                              *)
OnlySparseFaults == \A p \in Programs : call[p] = "faulted" => p \in Test1Programs
=============================================================================
