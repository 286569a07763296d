------------------------------ MODULE FileProtocol ------------------------------
(***************************************************************************)
(* kFFmpegFileProtocol (src/ffmpeg/file_protocol.cc): FFmpeg's "file"     *)
(* protocol.  OpenContext stores the descriptor open() returns in the      *)
(* URLContext's priv_data; Read, Write, Seek and Close act on it, and      *)
(* Read, Write and Close repeat their system call while it fails with      *)
(* EINTR (HANDLE_EINTR).                                                   *)
(*                                                                         *)
(* The kernel's descriptor table is shared by the process: FFmpeg's        *)
(* URLContexts (Contexts) and other threads opening files (Others) draw    *)
(* descriptors from it, and open() returns the lowest free one.  Each      *)
(* entry records, as a ghost field, which user opened it.  File contents   *)
(* are left out; an I/O call either reaches a descriptor of a mode that   *)
(* allows it ("ok") or fails ("EBADF").                                    *)
(*                                                                         *)
(* POSIX leaves the state of a descriptor unspecified when close() fails   *)
(* with EINTR: Linux has released it, HP-UX keeps it open.                 *)
(* CloseReleasesOnEINTR chooses between the two builds.                    *)
(***************************************************************************)
EXTENDS Naturals, FiniteSetsExt

CONSTANTS
  Contexts,              \* FFmpeg URLContexts using this protocol
  Others,                \* other threads of the process that open files
  Fds,                   \* descriptor numbers the process may get
  CloseReleasesOnEINTR,  \* TRUE: Linux; FALSE: HP-UX
  MaxSignals             \* bound on close() calls interrupted by a signal

ASSUME CloseReleasesOnEINTR \in BOOLEAN

Free == "free"
NoFd == -1
Users == Contexts \cup Others
Flags == {"URL_RDONLY", "URL_WRONLY", "URL_RDWR"}
Modes == {"O_RDONLY", "O_WRONLY", "O_RDWR"}

VARIABLES
  fd_table,   \* descriptor -> [owner, mode]; owner Free when closed
  ctx,        \* URLContext -> [st, priv_data, ret]
  other,      \* other thread -> the descriptor it holds, or NoFd
  signals     \* close() calls interrupted so far

vars == <<fd_table, ctx, other, signals>>

FreeFds == {fd \in Fds : fd_table[fd].owner = Free}

(* open(): the lowest free descriptor, or -1 when the process has none.    *)
SysOpen(u, mode, fd) ==
  fd_table' = [fd_table EXCEPT ![fd] = [owner |-> u, mode |-> mode]]

(* close(): releases the descriptor, whoever opened it.                    *)
SysClose(fd) == [fd_table EXCEPT ![fd].owner = Free]

Init ==
  /\ fd_table = [fd \in Fds |-> [owner |-> Free, mode |-> "O_RDONLY"]]
  /\ ctx = [h \in Contexts |-> [st |-> "unopened", priv_data |-> NoFd, ret |-> "0"]]
  /\ other = [o \in Others |-> NoFd]
  /\ signals = 0

(* OpenContext's access: URL_RDWR is tested before URL_WRONLY; O_CREAT and *)
(* O_TRUNC come with either write mode.                                    *)
Access(flags) ==
  IF flags = "URL_RDWR" THEN "O_RDWR"
  ELSE IF flags = "URL_WRONLY" THEN "O_WRONLY"
  ELSE "O_RDONLY"

(* Mutant: a failed open stored in priv_data as if it had succeeded.       *)
OpenContextIgnoresFailure(h) ==
  /\ ctx[h].st = "unopened"
  /\ \E flags \in Flags :
       IF FreeFds = {}
       THEN /\ ctx' = [ctx EXCEPT ![h] = [st |-> "open", priv_data |-> NoFd, ret |-> "0"]]
            /\ UNCHANGED fd_table
       ELSE /\ SysOpen(h, Access(flags), Min(FreeFds))
            /\ ctx' = [ctx EXCEPT ![h] = [st |-> "open", priv_data |-> Min(FreeFds), ret |-> "0"]]
  /\ UNCHANGED <<other, signals>>

(* OpenContext: a failed open() returns AVERROR(ENOENT) and FFmpeg drops   *)
(* the context; otherwise the descriptor goes to priv_data.                *)
OpenContext(h) ==
  /\ ctx[h].st = "unopened"
  /\ \E flags \in Flags :
       IF FreeFds = {}
       THEN /\ ctx' = [ctx EXCEPT ![h] = [st |-> "failed", priv_data |-> NoFd, ret |-> "ENOENT"]]
            /\ UNCHANGED fd_table
       ELSE /\ SysOpen(h, Access(flags), Min(FreeFds))
            /\ ctx' = [ctx EXCEPT ![h] = [st |-> "open", priv_data |-> Min(FreeFds), ret |-> "0"]]
  /\ UNCHANGED <<other, signals>>

(* GetHandle(h): the descriptor kept in priv_data.                         *)
GetHandle(h) == ctx[h].priv_data

(* read(), write() or lseek() on GetHandle(h): it fails unless the        *)
(* descriptor is open in a mode that allows the call.  An EINTR of read    *)
(* or write is retried inside the step: it transferred nothing.            *)
SysIO(h, allowed) ==
  /\ ctx[h].st = "open"
  /\ ctx' = [ctx EXCEPT ![h].ret =
               IF fd_table[GetHandle(h)].owner # Free
                  /\ fd_table[GetHandle(h)].mode \in allowed
               THEN "ok" ELSE "EBADF"]
  /\ UNCHANGED <<fd_table, other, signals>>

ReadContext(h) == SysIO(h, {"O_RDONLY", "O_RDWR"})
WriteContext(h) == SysIO(h, {"O_WRONLY", "O_RDWR"})
SeekContext(h) == SysIO(h, Modes)

(* Mutant: the HANDLE_EINTR loop also repeats a close() that succeeded.   *)
CloseContextRetriesSuccess(h) ==
  /\ ctx[h].st \in {"open", "closing"}
  /\ \/ /\ fd_table' = SysClose(GetHandle(h))
        /\ ctx' = [ctx EXCEPT ![h].st = IF fd_table[GetHandle(h)].owner = Free
                                         THEN "closed" ELSE "closing",
                              ![h].ret = IF fd_table[GetHandle(h)].owner = Free
                                         THEN "EBADF" ELSE "0"]
        /\ UNCHANGED signals
     \/ /\ fd_table[GetHandle(h)].owner # Free
        /\ signals < MaxSignals
        /\ signals' = signals + 1
        /\ fd_table' = IF CloseReleasesOnEINTR THEN SysClose(GetHandle(h)) ELSE fd_table
        /\ ctx' = [ctx EXCEPT ![h].st = "closing"]
  /\ UNCHANGED other

(* CloseContext: close(GetHandle(h)), repeated while it fails with EINTR. *)
(* One step is one close() call; "closing" is the HANDLE_EINTR loop after *)
(* an interrupted call, during which other threads run.  A call that is   *)
(* not interrupted ends the loop: it returns 0, or -1 (EBADF) when the    *)
(* descriptor is no longer open.                                          *)
CloseContext(h) ==
  /\ ctx[h].st \in {"open", "closing"}
  /\ \/ /\ fd_table' = SysClose(GetHandle(h))
        /\ ctx' = [ctx EXCEPT ![h].st = "closed",
                              ![h].ret = IF fd_table[GetHandle(h)].owner = Free
                                         THEN "EBADF" ELSE "0"]
        /\ UNCHANGED signals
     \/ /\ fd_table[GetHandle(h)].owner # Free
        /\ signals < MaxSignals
        /\ signals' = signals + 1
        /\ fd_table' = IF CloseReleasesOnEINTR THEN SysClose(GetHandle(h)) ELSE fd_table
        /\ ctx' = [ctx EXCEPT ![h].st = "closing"]
  /\ UNCHANGED other

(* Another thread of the process opens a file and later closes it.        *)
OtherOpen(o) ==
  /\ other[o] = NoFd
  /\ FreeFds # {}
  /\ SysOpen(o, "O_RDONLY", Min(FreeFds))
  /\ other' = [other EXCEPT ![o] = Min(FreeFds)]
  /\ UNCHANGED <<ctx, signals>>

OtherClose(o) ==
  /\ other[o] # NoFd
  /\ fd_table' = SysClose(other[o])
  /\ other' = [other EXCEPT ![o] = NoFd]
  /\ UNCHANGED <<ctx, signals>>

Next ==
  \/ \E h \in Contexts :
       \/ OpenContext(h) \/ ReadContext(h) \/ WriteContext(h)
       \/ SeekContext(h) \/ CloseContext(h)
  \/ \E o \in Others : OtherOpen(o) \/ OtherClose(o)

Spec == Init /\ [][Next]_vars

-----------------------------------------------------------------------------
TypeOK ==
  /\ fd_table \in [Fds -> [owner : Users \cup {Free}, mode : Modes]]
  /\ ctx \in [Contexts -> [st : {"unopened", "failed", "open", "closing", "closed"},
                           priv_data : Fds \cup {NoFd},
                           ret : {"0", "ok", "EBADF", "ENOENT", "EINTR"}]]
  /\ \A h \in Contexts : ctx[h].st \in {"open", "closing"} => GetHandle(h) \in Fds
  /\ other \in [Others -> Fds \cup {NoFd}]
  /\ signals \in 0..MaxSignals

(* A descriptor stays with whoever opened it until that user closes it:    *)
(* no CloseContext, retried or not, closes a file another thread or        *)
(* another URLContext has open under a reused descriptor number.           *)
DescriptorsStayWithOwner ==
  /\ \A h \in Contexts : ctx[h].st = "open" => fd_table[GetHandle(h)].owner = h
  /\ \A o \in Others : other[o] # NoFd => fd_table[other[o]].owner = o

=============================================================================
