------------------------- MODULE SystemCallProofs -------------------------
(* Theorems about SystemCalls, for every word, page, and number of files.   *)
EXTENDS SystemCalls, TLAPS

---------------------------------------------------------------------------
(* Types.                                                                  *)

LEMMA ModType ==
  ASSUME NEW a \in Nat
  PROVE  a % Word \in 0 .. Word - 1
  BY SystemCallsAssumption

LEMMA AlignedType ==
  ASSUME NEW length \in 0 .. Word - 1
  PROVE  Aligned(length) \in 0 .. Word - 1
<1> DEFINE l == (length + Page - 1) % Word
<1>1. l \in 0 .. Word - 1
  BY SystemCallsAssumption
<1>2. (l \div Page) \in Nat /\ (l \div Page) * Page <= l
  BY <1>1, SystemCallsAssumption
<1>3. (l \div Page) * Page \in Nat
  BY <1>2, SystemCallsAssumption
<1>4. Aligned(length) = (l \div Page) * Page
  BY DEF Aligned
<1>5. QED
  <2> HIDE DEF l
  <2> QED BY <1>1, <1>2, <1>3, <1>4, SystemCallsAssumption

LEMMA PageOfType ==
  ASSUME NEW a \in 0 .. Word - 1
  PROVE  (a \div Page) * Page \in 0 .. Word - 1
<1>1. a \div Page \in Nat /\ (a \div Page) * Page <= a
  BY SystemCallsAssumption
<1>2. (a \div Page) * Page \in Nat
  BY <1>1, SystemCallsAssumption
<1>3. QED
  BY <1>1, <1>2, SystemCallsAssumption

LEMMA InitTypeOK == Init => TypeOK
<1> SUFFICES ASSUME Init PROVE TypeOK
  OBVIOUS
<1>1. fds \in [0 .. nextFD - 1 -> Entry]
  <2>1. fds \in [0 .. 2 -> Entry]
    BY DEF Init, Entry, Closed
  <2>2. nextFD - 1 = 2
    BY DEF Init
  <2>3. QED
    BY <2>1, <2>2
<1>2. brk \in 0 .. Word - 1 /\ cursor \in 0 .. Word - 1
  BY SystemCallsAssumption DEF Init
<1>3. regions \in Seq(Region)
  BY DEF Init
<1>4. nextFD \in Nat /\ nextFD >= 3 /\ opened \in Nat /\ x0 \in Nat
  BY DEF Init
<1>5. live \subseteq 1 .. opened /\ exited \in BOOLEAN /\ wrapped \in BOOLEAN
  <2>1. live = {} /\ exited = FALSE /\ wrapped = FALSE
    BY DEF Init
  <2>2. QED
    BY <2>1
<1>6. QED
  BY <1>1, <1>2, <1>3, <1>4, <1>5 DEF TypeOK

(* Every call keeps the types: one step per call. *)
LEMMA NextTypeOK == TypeOK /\ [Next]_vars => TypeOK'
<1> SUFFICES ASSUME TypeOK, [Next]_vars PROVE TypeOK'
  OBVIOUS
<1> USE DEF TypeOK
<1>1. ASSUME NEW here \in BOOLEAN, NEW err \in {0, ENOENT, EACCES, EIO}, Openat(here, err)
      PROVE  TypeOK'
  <2>1. CASE here /\ err = 0
    <3>1. /\ fds' = [f \in 0 .. nextFD |-> IF f = nextFD THEN [open |-> TRUE, host |-> opened + 1]
                                          ELSE fds[f]]
          /\ nextFD' = nextFD + 1 /\ opened' = opened + 1
          /\ live' = live \cup {opened'} /\ x0' = nextFD
      BY <1>1, <2>1 DEF Openat, Opened
    <3>2. \A f \in 0 .. nextFD : f # nextFD => fds[f] \in Entry
      OBVIOUS
    <3>3. [open |-> TRUE, host |-> opened + 1] \in Entry
      BY DEF Entry
    <3>4. fds' \in [0 .. nextFD' - 1 -> Entry]
      BY <3>1, <3>2, <3>3
    <3>5. live' \subseteq 1 .. opened'
      BY <3>1
    <3>6. nextFD' \in Nat /\ nextFD' >= 3 /\ opened' \in Nat /\ x0' \in Nat
      BY <3>1
    <3>7. UNCHANGED <<space, exited>>
      BY <1>1 DEF Openat
    <3>8. QED
      BY <3>4, <3>5, <3>6, <3>7 DEF space
  <2>2. CASE ~(here /\ err = 0)
    <3>1. x0' \in Nat \cup Errors
      BY <1>1, <2>2 DEF Openat, Errors
    <3>2. QED
      BY <1>1, <2>2, <3>1 DEF Openat, files, space
  <2>3. QED
    BY <2>1, <2>2
<1>2. ASSUME NEW fd \in FDs, NEW ok \in BOOLEAN, Close(fd, ok)
      PROVE  TypeOK'
  <2>1. x0' \in Nat \cup Errors /\ live' \subseteq 1 .. opened
    BY <1>2 DEF Close, Errors
  <2>2. fds' \in [0 .. nextFD - 1 -> Entry]
    <3>1. [open |-> FALSE, host |-> Closed] \in Entry
      BY DEF Entry, Closed
    <3>2. fds' = fds \/ fds' = ClosedEntry(fd)
      BY <1>2 DEF Close
    <3>3. QED
      BY <3>1, <3>2 DEF ClosedEntry
  <2>3. QED
    BY <1>2, <2>1, <2>2 DEF Close, space
<1>3. ASSUME NEW fd \in FDs, NEW n \in {0, 1}, Read(fd, n)
      PROVE  TypeOK'
  <2>1. x0' \in {n, EBADF, 0}
    BY <1>3 DEF Read
  <2>2. QED
    BY <1>3, <2>1 DEF Read, files, space, Errors
<1>4. ASSUME NEW fd \in FDs, NEW n \in {0, 1}, NEW ok \in BOOLEAN, Write(fd, n, ok)
      PROVE  TypeOK'
  <2>1. x0' \in {n, EBADF, EIO}
    BY <1>4, Zenon DEF Write
  <2>2. UNCHANGED <<files, space, exited>>
    BY <1>4, Zenon DEF Write
  <2>3. x0' \in Nat \cup Errors
    BY <2>1 DEF Errors
  <2>4. QED
    BY <2>2, <2>3 DEF files, space
<1>5. ASSUME NEW fd \in FDs, NEW valid \in BOOLEAN, NEW ok \in BOOLEAN, Lseek(fd, valid, ok)
      PROVE  TypeOK'
  BY <1>5 DEF Lseek, files, space, Errors
<1>6. ASSUME NEW fd \in FDs, NEW ok \in BOOLEAN, Fstat(fd, ok)
      PROVE  TypeOK'
  BY <1>6 DEF Fstat, files, space, Errors
<1>7. ASSUME NEW addr \in Addrs, Brk(addr)
      PROVE  TypeOK'
  BY <1>7, SystemCallsAssumption DEF Brk, files
<1>8. ASSUME NEW addr \in Addrs, NEW length \in Lengths, NEW anonymous \in BOOLEAN,
             NEW fixed \in BOOLEAN, Mmap(addr, length, anonymous, fixed)
      PROVE  TypeOK'
  <2> DEFINE at == IF fixed THEN (addr \div Page) * Page ELSE cursor
             r == [addr |-> at, length |-> Aligned(length), fixed |-> fixed]
  <2>1. at \in 0 .. Word - 1 /\ Aligned(length) \in 0 .. Word - 1
    BY AlignedType, PageOfType, SystemCallsAssumption
  <2>2. CASE length = 0 \/ ~anonymous \/ (fixed /\ addr = 0)
    BY <1>8, <2>2 DEF Mmap, files, space, Errors
  <2>3. CASE ~(length = 0 \/ ~anonymous \/ (fixed /\ addr = 0))
    <3>1. r \in Region
      BY <2>1 DEF Region
    <3>2. /\ regions' = Append(regions, r) /\ x0' = at
          /\ cursor' = IF fixed THEN cursor ELSE (cursor + Aligned(length)) % Word
          /\ wrapped' = (wrapped \/ (~fixed /\ cursor + Aligned(length) >= Word))
          /\ UNCHANGED brk
      BY <1>8, <2>3 DEF Mmap
    <3>3. regions' \in Seq(Region)
      BY <3>1, <3>2
    <3>4. cursor' \in 0 .. Word - 1
      <4>1. (cursor + Aligned(length)) % Word \in 0 .. Word - 1
        <5>1. cursor + Aligned(length) \in Nat
          BY <2>1
        <5>2. QED
          BY <5>1, ModType
      <4>2. QED
        BY <3>2, <4>1
    <3>5. wrapped' \in BOOLEAN /\ x0' \in Nat /\ brk' \in 0 .. Word - 1
      BY <2>1, <3>2
    <3>6. UNCHANGED <<files, exited>>
      BY <1>8 DEF Mmap
    <3>7. QED
      BY <3>3, <3>4, <3>5, <3>6 DEF files
  <2>4. QED
    BY <2>2, <2>3
<1>9. CASE Mprotect \/ ExitProgram \/ Unknown
  <2>1. x0' \in Nat \cup Errors /\ exited' \in BOOLEAN
    <3>1. CASE Mprotect
      BY <3>1 DEF Mprotect
    <3>2. CASE ExitProgram
      BY <3>2 DEF ExitProgram
    <3>3. CASE Unknown
      BY <3>3 DEF Unknown, Errors
    <3>4. QED
      BY <1>9, <3>1, <3>2, <3>3
  <2>2. UNCHANGED <<files, space>>
    BY <1>9 DEF Mprotect, ExitProgram, Unknown
  <2>3. QED
    BY <2>1, <2>2 DEF files, space
<1>10. CASE UNCHANGED vars
  BY <1>10 DEF vars, files, space
<1>11. QED
  BY <1>1, <1>2, <1>3, <1>4, <1>5, <1>6, <1>7, <1>8, <1>9, <1>10
     DEF Next, FileCall, MemoryCall

(* The descriptor table is numbered without gaps, host files are those the    *)
(* host opened, and no address leaves the word, whatever the program calls.   *)
THEOREM TypeCorrect == Spec => []TypeOK
  BY InitTypeOK, NextTypeOK, PTL DEF Spec

---------------------------------------------------------------------------
(* Files.                                                                  *)

(* HandlesOwned is kept because a new host file is newer than every one in    *)
(* the table, and because no standard stream has one.                         *)
FilesInv ==
  /\ TypeOK
  /\ HandlesOwned
  /\ \A f \in DOMAIN fds : fds[f].host <= opened /\ (f <= 2 => fds[f].host = Closed)

LEMMA InitFilesInv == Init => FilesInv
<1> SUFFICES ASSUME Init PROVE FilesInv
  OBVIOUS
<1>1. /\ DOMAIN fds = 0 .. 2 /\ live = {} /\ opened = 0
      /\ \A f \in 0 .. 2 : fds[f].open /\ fds[f].host = 0
  BY DEF Init, Closed
<1>2. HandlesOwned
  BY <1>1 DEF HandlesOwned, Closed
<1>3. QED
  BY <1>1, <1>2, InitTypeOK DEF FilesInv, Closed

(* A new descriptor owns a new host file. *)
LEMMA OpenatFiles ==
  ASSUME FilesInv, TypeOK', NEW here \in BOOLEAN, NEW err, Openat(here, err)
  PROVE  FilesInv'
<1>1. CASE here /\ err = 0
  <2>1. /\ DOMAIN fds = 0 .. nextFD - 1 /\ DOMAIN fds' = 0 .. nextFD
        /\ fds'[nextFD] = [open |-> TRUE, host |-> opened + 1]
        /\ \A f \in 0 .. nextFD - 1 : fds'[f] = fds[f]
        /\ live' = live \cup {opened + 1} /\ opened' = opened + 1
        /\ nextFD \in Nat /\ nextFD >= 3 /\ opened \in Nat
    BY <1>1 DEF FilesInv, TypeOK, Openat, Opened
  <2>2. \A f \in 0 .. nextFD : f # nextFD => f \in 0 .. nextFD - 1
    BY <2>1
  <2>3. \A f \in 0 .. nextFD - 1 : fds[f].host \in Nat /\ fds[f].host <= opened
    BY <2>1 DEF FilesInv, TypeOK, Entry
  <2>4. \A f, g \in DOMAIN fds' : fds'[f].host = fds'[g].host /\ fds'[f].host # Closed => f = g
    <3> TAKE f, g \in DOMAIN fds'
    <3>1. CASE f = nextFD \/ g = nextFD
      BY <2>1, <2>2, <2>3, <3>1
    <3>2. CASE f # nextFD /\ g # nextFD
      BY <2>1, <2>2, <3>2 DEF FilesInv, HandlesOwned
    <3>3. QED
      BY <3>1, <3>2
  <2>5. \A h \in live' : \E f \in DOMAIN fds' : fds'[f].host = h
    <3> TAKE h \in live'
    <3>1. CASE h = opened + 1
      BY <2>1, <3>1
    <3>2. CASE h # opened + 1
      <4>1. PICK f \in DOMAIN fds : fds[f].host = h
        BY <2>1, <3>2 DEF FilesInv, HandlesOwned
      <4>2. QED
        BY <2>1, <4>1
    <3>3. QED
      BY <3>1, <3>2
  <2>6. \A f \in DOMAIN fds' : f > 2 => (fds'[f].open <=> fds'[f].host # Closed)
    <3> TAKE f \in DOMAIN fds'
    <3>1. CASE f = nextFD
      BY <2>1, <3>1 DEF Closed
    <3>2. CASE f # nextFD
      BY <2>1, <2>2, <3>2 DEF FilesInv, HandlesOwned
    <3>3. QED
      BY <3>1, <3>2
  <2>7. \A f \in DOMAIN fds' : fds'[f].host <= opened' /\ (f <= 2 => fds'[f].host = Closed)
    <3> TAKE f \in DOMAIN fds'
    <3>1. CASE f = nextFD
      BY <2>1, <3>1
    <3>2. CASE f # nextFD
      BY <2>1, <2>2, <2>3, <3>2 DEF FilesInv
    <3>3. QED
      BY <3>1, <3>2
  <2>8. QED
    BY <2>4, <2>5, <2>6, <2>7 DEF FilesInv, HandlesOwned
<1>2. CASE ~(here /\ err = 0)
  <2>1. UNCHANGED <<fds, live, opened>>
    BY <1>2 DEF Openat, files
  <2>2. QED
    BY <2>1 DEF FilesInv, HandlesOwned
<1>3. QED
  BY <1>1, <1>2

LEMMA FDsAreNat ==
  ASSUME FilesInv PROVE FDs \subseteq Nat /\ DOMAIN fds \subseteq Nat
  BY DEF FilesInv, TypeOK, FDs

(* Close takes the host file away, and with it the entry's hold on it. *)
LEMMA CloseFiles ==
  ASSUME FilesInv, TypeOK', NEW fd \in FDs, NEW ok \in BOOLEAN, Close(fd, ok)
  PROVE  FilesInv'
<1>1. opened' = opened /\ opened \in Nat
  BY DEF FilesInv, TypeOK, Close
<1>2. CASE fds' = fds
  <2>1. live' \subseteq live
    BY <1>2 DEF Close
  <2>2. QED
    BY <1>1, <1>2, <2>1 DEF FilesInv, HandlesOwned
<1>3. CASE fds' # fds
  <2>1. /\ fd \in DOMAIN fds /\ fds' = ClosedEntry(fd)
        /\ fd > 2 => live' = live \ {fds[fd].host}
        /\ fd <= 2 => live' = live
    BY <1>3 DEF Close, IsOpen, FDs, FilesInv, TypeOK
  <2>2. /\ DOMAIN fds' = DOMAIN fds
        /\ fds'[fd] = [open |-> FALSE, host |-> Closed]
        /\ \A f \in DOMAIN fds : f # fd => fds'[f] = fds[f]
    BY <2>1 DEF ClosedEntry, FilesInv, TypeOK
  <2>3. \A f, g \in DOMAIN fds' : fds'[f].host = fds'[g].host /\ fds'[f].host # Closed => f = g
    BY <2>2 DEF FilesInv, HandlesOwned
  <2>4. \A h \in live' : \E f \in DOMAIN fds' : fds'[f].host = h
    <3> TAKE h \in live'
    <3>1. PICK f \in DOMAIN fds : fds[f].host = h
      BY <2>1, FDsAreNat DEF FilesInv, HandlesOwned
    <3>2. f # fd
      <4>1. CASE fd > 2
        BY <2>1, <3>1, <4>1
      <4>2. CASE ~(fd > 2)
        <5>1. fds[fd].host = Closed
          BY <2>1, <4>2, FDsAreNat DEF FilesInv
        <5>2. h \in 1 .. opened
          BY <1>1 DEF TypeOK
        <5>3. QED
          BY <1>1, <3>1, <5>1, <5>2 DEF Closed
      <4>3. QED
        BY <4>1, <4>2
    <3>3. QED
      BY <2>2, <3>1, <3>2
  <2>5. \A f \in DOMAIN fds' : f > 2 => (fds'[f].open <=> fds'[f].host # Closed)
    BY <2>2 DEF FilesInv, HandlesOwned
  <2>6. \A f \in DOMAIN fds' : fds'[f].host <= opened' /\ (f <= 2 => fds'[f].host = Closed)
    BY <1>1, <2>2 DEF FilesInv, Closed
  <2>7. QED
    BY <2>3, <2>4, <2>5, <2>6 DEF FilesInv, HandlesOwned
<1>4. QED
  BY <1>2, <1>3

LEMMA NextFilesInv == FilesInv /\ [Next]_vars => FilesInv'
<1> SUFFICES ASSUME FilesInv, [Next]_vars PROVE FilesInv'
  OBVIOUS
<1>1. TypeOK'
  BY NextTypeOK DEF FilesInv
<1>2. ASSUME NEW here \in BOOLEAN, NEW err \in {0, ENOENT, EACCES, EIO}, Openat(here, err)
      PROVE  FilesInv'
  BY <1>1, <1>2, OpenatFiles
<1>3. ASSUME NEW fd \in FDs, NEW ok \in BOOLEAN, Close(fd, ok)
      PROVE  FilesInv'
  BY <1>1, <1>3, CloseFiles
<1>4. CASE UNCHANGED files
  BY <1>1, <1>4 DEF FilesInv, HandlesOwned, files
<1>5. Next => FileCall \/ UNCHANGED files
  BY DEF Next, MemoryCall, Brk, Mmap, Mprotect, ExitProgram, Unknown
<1>6. FileCall => \/ \E here \in BOOLEAN, err \in {0, ENOENT, EACCES, EIO} : Openat(here, err)
                  \/ \E fd \in FDs, ok \in BOOLEAN : Close(fd, ok)
                  \/ UNCHANGED files
  BY DEF FileCall, Read, Write, Lseek, Fstat
<1>7. UNCHANGED vars => UNCHANGED files
  BY DEF vars
<1>8. QED
  BY <1>2, <1>3, <1>4, <1>5, <1>6, <1>7

(* No order of openat and close, host failures included, shares a host file   *)
(* between descriptors, loses one, or leaves one behind a closed entry.       *)
THEOREM HandlesAlwaysOwned == Spec => []HandlesOwned
<1>1. FilesInv => HandlesOwned
  BY DEF FilesInv
<1>2. QED
  BY <1>1, InitFilesInv, NextFilesInv, PTL DEF Spec

(* What a descriptor stood for once, it stands for or nothing: openat always  *)
(* takes a number the table does not have.                                    *)
THEOREM NeverReused == Spec => DescriptorsNeverReused
<1> DEFINE Kept == \A f \in DOMAIN fds :
                     /\ f \in DOMAIN fds'
                     /\ fds'[f].host \in {fds[f].host, Closed}
                     /\ ~fds[f].open => ~fds'[f].open
<1>1. ASSUME TypeOK, NEW here \in BOOLEAN, NEW err, Openat(here, err) PROVE Kept
  <2>1. CASE here /\ err = 0
    <3>1. /\ DOMAIN fds = 0 .. nextFD - 1 /\ DOMAIN fds' = 0 .. nextFD
          /\ \A f \in 0 .. nextFD - 1 : fds'[f] = fds[f]
          /\ nextFD \in Nat
      BY <1>1, <2>1 DEF TypeOK, Openat, Opened
    <3>2. QED
      BY <3>1
  <2>2. CASE ~(here /\ err = 0)
    BY <1>1, <2>2 DEF Openat, files
  <2>3. QED
    BY <2>1, <2>2
<1>2. ASSUME TypeOK, NEW fd, NEW ok, Close(fd, ok) PROVE Kept
  <2>1. CASE fds' = fds
    BY <2>1
  <2>2. CASE fds' # fds
    <3>1. fds' = ClosedEntry(fd)
      BY <1>2, <2>2 DEF Close
    <3>2. QED
      BY <1>2, <3>1 DEF ClosedEntry, TypeOK
  <2>3. QED
    BY <2>1, <2>2
<1>3. fds' = fds => Kept
  OBVIOUS
<1>4. TypeOK /\ [Next]_vars => [Kept]_vars
  <2>1. FileCall => \/ \E here \in BOOLEAN, err \in {0, ENOENT, EACCES, EIO} : Openat(here, err)
                    \/ \E fd \in FDs, ok \in BOOLEAN : Close(fd, ok)
                    \/ fds' = fds
    BY DEF FileCall, Read, Write, Lseek, Fstat, files
  <2>2. Next => FileCall \/ fds' = fds
    BY DEF Next, MemoryCall, Brk, Mmap, Mprotect, ExitProgram, Unknown, files
  <2> HIDE DEF Kept
  <2>3. QED
    BY <1>1, <1>2, <1>3, <2>1, <2>2
<1>5. QED
  BY <1>4, TypeCorrect, PTL DEF Spec, DescriptorsNeverReused

---------------------------------------------------------------------------
(* Mappings.                                                               *)

LEMMA WholePages ==
  ASSUME NEW a \in Nat, a % Page = 0, NEW q \in Nat
  PROVE  (a + q * Page) % Page = 0
<1> DEFINE k == a \div Page
<1>1. k \in Nat /\ a = k * Page + (a % Page)
  BY SystemCallsAssumption
<1> HIDE DEF k
<1>2. a + q * Page = (k + q) * Page
  BY <1>1, SystemCallsAssumption
<1>3. ((k + q) * Page) % Page = 0
  BY <1>1, SystemCallsAssumption
<1>4. QED
  BY <1>2, <1>3

LEMMA AlignedPages ==
  ASSUME NEW length \in 0 .. Word - 1
  PROVE  \E q \in Nat : Aligned(length) = q * Page
<1> DEFINE q == ((length + Page - 1) % Word) \div Page
<1>1. q \in Nat
  BY SystemCallsAssumption
<1>2. Aligned(length) = q * Page
  BY DEF Aligned
<1>3. QED
  BY <1>1, <1>2

(* ChosenApart is kept because the cursor is a page above the base that ends  *)
(* every region placed so far.                                                *)
SpaceInv ==
  /\ TypeOK
  /\ ChosenApart
  /\ ~wrapped => cursor >= MmapBase /\ cursor % Page = 0

LEMMA InitSpaceInv == Init => SpaceInv
<1> SUFFICES ASSUME Init PROVE SpaceInv
  OBVIOUS
<1>1. regions = << >> /\ cursor = MmapBase
  BY DEF Init
<1>2. Chosen = {}
  BY <1>1 DEF Chosen
<1>3. ChosenApart
  BY <1>2 DEF ChosenApart
<1>4. QED
  BY <1>1, <1>3, InitTypeOK, SystemCallsAssumption DEF SpaceInv

LEMMA MmapSpace ==
  ASSUME SpaceInv, TypeOK', NEW addr \in Addrs, NEW length \in Lengths,
         NEW anonymous \in BOOLEAN, NEW fixed \in BOOLEAN,
         Mmap(addr, length, anonymous, fixed)
  PROVE  SpaceInv'
<1> DEFINE at == IF fixed THEN (addr \div Page) * Page ELSE cursor
           n == Aligned(length)
           r == [addr |-> at, length |-> n, fixed |-> fixed]
<1>1. CASE UNCHANGED space
  BY <1>1 DEF SpaceInv, ChosenApart, Chosen, space
<1>2. CASE ~UNCHANGED space
  <2>1. /\ regions' = Append(regions, r)
        /\ cursor' = IF fixed THEN cursor ELSE (cursor + n) % Word
        /\ wrapped' = (wrapped \/ (~fixed /\ cursor + n >= Word))
    BY <1>2 DEF Mmap
  <2>2. /\ regions \in Seq(Region) /\ cursor \in Nat /\ cursor < Word
        /\ n \in Nat /\ wrapped \in BOOLEAN
    BY AlignedType, SystemCallsAssumption DEF SpaceInv, TypeOK
  <2> HIDE DEF n, r
  <2>3. /\ DOMAIN regions = 1 .. Len(regions) /\ DOMAIN regions' = 1 .. Len(regions) + 1
        /\ \A i \in DOMAIN regions : regions'[i] = regions[i] /\ regions[i] \in Region
        /\ regions'[Len(regions) + 1] = r /\ Len(regions) \in Nat
    BY <2>1, <2>2
  <2>4. SUFFICES ASSUME ~wrapped' PROVE ChosenApart' /\ (cursor >= MmapBase /\ cursor % Page = 0)'
    BY DEF SpaceInv, ChosenApart
  <2>5. /\ ~wrapped /\ cursor >= MmapBase /\ cursor % Page = 0
        /\ cursor' = IF fixed THEN cursor ELSE cursor + n
    <3>1. ~wrapped /\ (~fixed => cursor + n < Word)
      <4>1. ~(wrapped \/ (~fixed /\ cursor + n >= Word))
        BY <2>1, <2>4
      <4>2. (cursor + n >= Word) \/ cursor + n < Word
        BY <2>2, SystemCallsAssumption
      <4>3. QED
        BY <4>1, <4>2
    <3>2. ~fixed => (cursor + n) % Word = cursor + n
      BY <2>2, <3>1, SystemCallsAssumption
    <3>3. QED
      BY <2>1, <3>1, <3>2 DEF SpaceInv
  <2>6. cursor' >= MmapBase /\ cursor' % Page = 0
    <3>1. PICK q \in Nat : n = q * Page
      BY AlignedPages, SystemCallsAssumption DEF n
    <3>2. (cursor + n) % Page = 0
      BY <2>2, <2>5, <3>1, WholePages
    <3>3. QED
      BY <2>2, <2>5, <3>2, SystemCallsAssumption
  <2>7. \A i \in Chosen' : i \in Chosen \/ (i = Len(regions) + 1 /\ ~fixed)
    BY <2>3 DEF Chosen, r
  <2>8. ~fixed => r.addr = cursor /\ r.length = n
    BY DEF r
  <2>9. ASSUME NEW i \in Chosen
        PROVE  /\ i \in DOMAIN regions /\ regions'[i] = regions[i]
               /\ regions[i].addr \in Nat /\ regions[i].length \in Nat
               /\ regions[i].addr >= MmapBase /\ regions[i].addr % Page = 0
               /\ regions[i].addr + regions[i].length <= cursor
    BY <2>3, <2>5 DEF Chosen, SpaceInv, ChosenApart, Region
  <2>10. ASSUME NEW i \in Chosen'
         PROVE  /\ regions'[i].addr >= MmapBase /\ regions'[i].addr % Page = 0
                /\ regions'[i].addr + regions'[i].length <= cursor'
    <3>1. CASE i \in Chosen
      BY <2>2, <2>5, <2>9, <3>1
    <3>2. CASE i = Len(regions) + 1 /\ ~fixed
      BY <2>2, <2>3, <2>5, <2>8, <3>2
    <3>3. QED
      BY <2>7, <3>1, <3>2
  <2>11. ASSUME NEW i \in Chosen', NEW j \in Chosen', i < j
         PROVE  regions'[i].addr + regions'[i].length <= regions'[j].addr
    <3>1. i \in Chosen
      <4>1. i \in 1 .. Len(regions) + 1 /\ j \in 1 .. Len(regions) + 1
        BY <2>3 DEF Chosen
      <4>2. QED
        BY <2>3, <2>7, <2>11, <4>1
    <3>2. CASE j \in Chosen
      BY <2>5, <2>9, <2>11, <3>1, <3>2 DEF SpaceInv, ChosenApart
    <3>3. CASE j = Len(regions) + 1 /\ ~fixed
      BY <2>3, <2>8, <2>9, <3>1, <3>3
    <3>4. QED
      BY <2>7, <3>2, <3>3
  <2>12. QED
    BY <2>6, <2>10, <2>11 DEF ChosenApart
<1>3. QED
  BY <1>1, <1>2

(* The regions mmap places are whole pages above the base that never overlap, *)
(* as long as the program has not mapped more than the address space.         *)
THEOREM ChosenAlwaysApart == Spec => []ChosenApart
<1>1. SpaceInv /\ [Next]_vars => SpaceInv'
  <2> SUFFICES ASSUME SpaceInv, [Next]_vars PROVE SpaceInv'
    OBVIOUS
  <2>1. TypeOK'
    BY NextTypeOK DEF SpaceInv
  <2>2. ASSUME NEW addr \in Addrs, NEW length \in Lengths, NEW anonymous \in BOOLEAN,
               NEW fixed \in BOOLEAN, Mmap(addr, length, anonymous, fixed)
        PROVE  SpaceInv'
    BY <2>1, <2>2, MmapSpace
  <2>3. CASE UNCHANGED <<cursor, regions, wrapped>>
    BY <2>1, <2>3 DEF SpaceInv, ChosenApart, Chosen
  <2>4. FileCall \/ ExitProgram \/ Unknown \/ Mprotect => UNCHANGED space
    BY DEF FileCall, Openat, Close, Read, Write, Lseek, Fstat, ExitProgram, Unknown, Mprotect
  <2>5. \A addr : Brk(addr) => UNCHANGED <<cursor, regions, wrapped>>
    BY DEF Brk
  <2>6. UNCHANGED space \/ UNCHANGED vars => UNCHANGED <<cursor, regions, wrapped>>
    BY DEF space, vars
  <2>7. QED
    BY <2>2, <2>3, <2>4, <2>5, <2>6 DEF Next, MemoryCall
<1>2. SpaceInv => ChosenApart
  BY DEF SpaceInv
<1>3. QED
  BY <1>1, <1>2, InitSpaceInv, PTL DEF Spec
==========================================================================
