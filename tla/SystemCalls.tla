--------------------------- MODULE SystemCalls ---------------------------
(***************************************************************************)
(* emu/syscall.go with emu/fdtable.go: the Linux calls an emulated program  *)
(* makes, one action per call.  Kept are the descriptor table, the program  *)
(* break and the mappings; buffers, paths and stat records are left out.    *)
(* What the host's files answer is a free choice.                           *)
(***************************************************************************)
EXTENDS Integers, Sequences

CONSTANTS
  Word,         \* 2^64: a register is taken modulo it
  Page,         \* pageSize
  FirstBreak,   \* DefaultProgramBreak
  MmapBase,     \* DefaultMmapBase
  Addrs,        \* the addresses the program passes
  Lengths,      \* the lengths the program passes
  MaxFD,        \* bound: descriptors above it are not opened
  MaxRegions    \* bound: further regions are not mapped

ASSUME SystemCallsAssumption ==
  /\ Page \in Nat \ {0} /\ Word \in Nat \ {0} /\ Word % Page = 0
  /\ FirstBreak \in 0 .. Word - 1
  /\ MmapBase \in 0 .. Word - 1 /\ MmapBase % Page = 0
  /\ Addrs \subseteq 0 .. Word - 1 /\ Lengths \subseteq 0 .. Word - 1
  /\ MaxFD \in Nat /\ MaxRegions \in Nat

VARIABLES
  fds,      \* FDTable.fds: descriptor -> entry
  nextFD,   \* FDTable.nextFD
  opened,   \* how many files the host has opened; the n-th is host file n
  live,     \* the host files not closed yet
  brk,      \* programBreak
  cursor,   \* nextMmapAddr
  regions,  \* mmapRegions
  x0,       \* register X0 after the call
  exited,   \* SyscallResult.Exited
  wrapped   \* auxiliary: cursor has been taken past the last address

files == <<fds, nextFD, opened, live>>
space == <<brk, cursor, regions, wrapped>>
vars == <<files, space, x0, exited>>

ENOENT == -2
EIO == -5
EBADF == -9
EACCES == -13
EINVAL == -22
ESPIPE == -29
ENOSYS == -38
Errors == {ENOENT, EIO, EBADF, EACCES, EINVAL, ESPIPE, ENOSYS}

Closed == 0   \* HostFile is nil
Entry == [open : BOOLEAN, host : Nat]
Region == [addr : 0 .. Word - 1, length : 0 .. Word - 1, fixed : BOOLEAN]

\* The descriptors a program may pass: all it was given and the next one.
FDs == 0 .. nextFD

---------------------------------------------------------------------------
(* FDTable                                                                 *)

IsOpen(fd) == fd \in DOMAIN fds /\ fds[fd].open

\* Read, Write, Stat and Seek go on to the host file: not for standard streams.
HasFile(fd) == IsOpen(fd) /\ fd > 2 /\ fds[fd].host # Closed

\* What the host may answer on an open descriptor: nothing but an error once the
\* file is closed.
HostAnswers(fd) == IF fds[fd].host \in live THEN BOOLEAN ELSE {FALSE}

\* Mutation: the next descriptor is not advanced.
OpenedInPlace ==
  [fds |-> [f \in 0 .. nextFD |-> IF f = nextFD THEN [open |-> TRUE, host |-> opened + 1]
                                  ELSE fds[f]],
   nextFD |-> nextFD]

\* Mutation: a closed descriptor is given out again.
OpenedAgain ==
  LET free == {f \in DOMAIN fds : ~fds[f].open}
      fd == IF free = {} THEN nextFD ELSE CHOOSE f \in free : \A g \in free : f <= g
      last == IF fd = nextFD THEN nextFD ELSE nextFD - 1
  IN [fds |-> [f \in 0 .. last |-> IF f = fd THEN [open |-> TRUE, host |-> opened + 1]
                                   ELSE fds[f]],
      nextFD |-> last + 1]

\* Open: the table with an entry for the file the host has just opened.
Opened ==
  [fds |-> [f \in 0 .. nextFD |-> IF f = nextFD THEN [open |-> TRUE, host |-> opened + 1]
                                  ELSE fds[f]],
   nextFD |-> nextFD + 1]

\* Close: the entry of a standard stream keeps no host file to close.
ClosedEntry(fd) == [fds EXCEPT ![fd] = [open |-> FALSE, host |-> Closed]]

---------------------------------------------------------------------------
(* The calls on files.                                                     *)

\* handleOpenat: here is AT_FDCWD; err is the host's answer, 0 when it opens the file.
Openat(here, err) ==
  /\ nextFD <= MaxFD
  /\ IF here /\ err = 0
       THEN /\ fds' = Opened.fds /\ nextFD' = Opened.nextFD
            /\ opened' = opened + 1
            /\ live' = live \cup {opened'}
            /\ x0' = nextFD
       ELSE /\ x0' = IF here THEN err ELSE EBADF
            /\ UNCHANGED files
  /\ UNCHANGED <<space, exited>>

\* handleClose: a host file whose Close fails is gone, but its entry stays.
Close(fd, ok) ==
  /\ IF ~IsOpen(fd)
       THEN x0' = EBADF /\ UNCHANGED <<fds, live>>
     ELSE IF fd <= 2
       THEN x0' = 0 /\ fds' = ClosedEntry(fd) /\ UNCHANGED live
     ELSE /\ ok \in HostAnswers(fd)
          /\ live' = live \ {fds[fd].host}
          /\ fds' = IF ok THEN ClosedEntry(fd) ELSE fds
          /\ x0' = IF ok THEN 0 ELSE EBADF
  /\ UNCHANGED <<nextFD, opened, space, exited>>

\* handleRead: standard input is read past the table; an error without data is
\* end of file.
Read(fd, n) ==
  /\ x0' = IF fd = 0 THEN n
           ELSE IF ~HasFile(fd) THEN EBADF
           ELSE IF TRUE \in HostAnswers(fd) THEN n ELSE 0
  /\ UNCHANGED <<files, space, exited>>

\* handleWrite: standard output and error are written past the table.
Write(fd, n, ok) ==
  /\ x0' = IF fd \in {1, 2} THEN IF ok THEN n ELSE EIO
           ELSE IF ~HasFile(fd) THEN EBADF
           ELSE IF ok /\ TRUE \in HostAnswers(fd) THEN n ELSE EIO
  /\ UNCHANGED <<files, space, exited>>

\* handleLseek: valid is a whence between SEEK_SET and SEEK_END.
Lseek(fd, valid, ok) ==
  /\ x0' = IF fd <= 2 THEN ESPIPE
           ELSE IF ~valid THEN EINVAL
           ELSE IF HasFile(fd) /\ ok /\ TRUE \in HostAnswers(fd) THEN 0 ELSE EBADF
  /\ UNCHANGED <<files, space, exited>>

\* handleFstat
Fstat(fd, ok) ==
  /\ x0' = IF \/ IsOpen(fd) /\ fd <= 2
              \/ HasFile(fd) /\ ok /\ TRUE \in HostAnswers(fd) THEN 0 ELSE EBADF
  /\ UNCHANGED <<files, space, exited>>

---------------------------------------------------------------------------
(* The calls on memory.                                                    *)

\* handleBrk: the break moves up or not at all.
Brk(addr) ==
  /\ brk' = IF addr = 0 \/ addr < brk THEN brk ELSE addr
  /\ x0' = brk'
  /\ UNCHANGED <<files, cursor, regions, wrapped, exited>>

\* Mutation: the cursor is advanced by the length asked for.
Unaligned(length) == length

\* The length in whole pages; a length in the last page of the word wraps to 0.
Aligned(length) == (((length + Page - 1) % Word) \div Page) * Page

\* handleMmap
Mmap(addr, length, anonymous, fixed) ==
  /\ Len(regions) < MaxRegions
  /\ IF length = 0 \/ ~anonymous \/ (fixed /\ addr = 0)
       THEN /\ x0' = IF length # 0 /\ ~anonymous THEN ENOSYS ELSE EINVAL
            /\ UNCHANGED space
       ELSE LET at == IF fixed THEN (addr \div Page) * Page ELSE cursor
            IN /\ x0' = at
               /\ regions' = Append(regions, [addr |-> at, length |-> Aligned(length),
                                              fixed |-> fixed])
               /\ cursor' = IF fixed THEN cursor ELSE (cursor + Aligned(length)) % Word
               /\ wrapped' = (wrapped \/ (~fixed /\ cursor + Aligned(length) >= Word))
               /\ UNCHANGED brk
  /\ UNCHANGED <<files, exited>>

\* handleMprotect
Mprotect ==
  /\ x0' = 0
  /\ UNCHANGED <<files, space, exited>>

---------------------------------------------------------------------------
(* handleExit and handleUnknown.                                           *)

ExitProgram ==
  /\ exited' = TRUE
  /\ UNCHANGED <<files, space, x0>>

Unknown ==
  /\ x0' = ENOSYS
  /\ UNCHANGED <<files, space, exited>>

---------------------------------------------------------------------------
\* NewDefaultSyscallHandler with NewFDTable; X0 is what the program left there.
Init ==
  /\ fds = [f \in 0 .. 2 |-> [open |-> TRUE, host |-> Closed]]
  /\ nextFD = 3 /\ opened = 0 /\ live = {}
  /\ brk = FirstBreak /\ cursor = MmapBase /\ regions = << >> /\ wrapped = FALSE
  /\ x0 = 0 /\ exited = FALSE

FileCall ==
  \/ \E here \in BOOLEAN, err \in {0, ENOENT, EACCES, EIO} : Openat(here, err)
  \/ \E fd \in FDs, ok \in BOOLEAN : Close(fd, ok)
  \/ \E fd \in FDs, n \in {0, 1} : Read(fd, n)
  \/ \E fd \in FDs, n \in {0, 1}, ok \in BOOLEAN : Write(fd, n, ok)
  \/ \E fd \in FDs, valid, ok \in BOOLEAN : Lseek(fd, valid, ok)
  \/ \E fd \in FDs, ok \in BOOLEAN : Fstat(fd, ok)

MemoryCall ==
  \/ \E addr \in Addrs : Brk(addr)
  \/ \E addr \in Addrs, length \in Lengths, anonymous, fixed \in BOOLEAN :
       Mmap(addr, length, anonymous, fixed)
  \/ Mprotect

\* Handle: the call X8 names, until one exits.
Next ==
  /\ ~exited
  /\ FileCall \/ MemoryCall \/ ExitProgram \/ Unknown

Spec == Init /\ [][Next]_vars

---------------------------------------------------------------------------
(* The table holds exactly the descriptors below nextFD, host files are those *)
(* that were opened, and addresses stay in the word.                          *)
TypeOK ==
  /\ nextFD \in Nat /\ nextFD >= 3
  /\ fds \in [0 .. nextFD - 1 -> Entry]
  /\ opened \in Nat /\ live \subseteq 1 .. opened
  /\ brk \in 0 .. Word - 1 /\ cursor \in 0 .. Word - 1
  /\ regions \in Seq(Region)
  /\ x0 \in Nat \cup Errors
  /\ exited \in BOOLEAN /\ wrapped \in BOOLEAN

(* FDTable: over any order of opens, closes and failing closes, a host file   *)
(* belongs to one descriptor, one that is not closed belongs to an open one,   *)
(* and a closed entry has none: no file is shared, none is left open without a *)
(* way to close it, and no call on a closed descriptor reaches a file.        *)
HandlesOwned ==
  /\ \A f, g \in DOMAIN fds : fds[f].host = fds[g].host /\ fds[f].host # Closed => f = g
  /\ \A h \in live : \E f \in DOMAIN fds : fds[f].host = h
  /\ \A f \in DOMAIN fds : f > 2 => (fds[f].open <=> fds[f].host # Closed)

(* A descriptor names one file for ever: nothing a program keeps after closing *)
(* it can ever reach another file, and a closed entry never opens again.       *)
DescriptorsNeverReused ==
  [][\A f \in DOMAIN fds :
       /\ f \in DOMAIN fds'
       /\ fds'[f].host \in {fds[f].host, Closed}
       /\ ~fds[f].open => ~fds'[f].open]_vars

Chosen == {i \in DOMAIN regions : ~regions[i].fixed}

(* mmap: while the address space is not exhausted, the regions the handler     *)
(* places itself are whole pages above the base, in the order of the calls,    *)
(* and do not overlap.                                                         *)
ChosenApart ==
  ~wrapped =>
    \A i \in Chosen :
      /\ regions[i].addr >= MmapBase /\ regions[i].addr % Page = 0
      /\ regions[i].addr + regions[i].length <= cursor
      /\ \A j \in Chosen : i < j => regions[i].addr + regions[i].length <= regions[j].addr
==========================================================================
