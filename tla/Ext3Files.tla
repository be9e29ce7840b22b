----------------------------- MODULE Ext3Files ------------------------------
(***************************************************************************)
(* The read-only file system of bsd/ext3: mounting, path resolution, the   *)
(* table of open files, and reading through direct and indirect blocks.    *)
(*                                                                         *)
(* The volume is a constant.  A byte is the pair of the block it lies in   *)
(* and its offset there, so that no two bytes are alike; a hole's bytes    *)
(* are Zero.  Blocks may be unreadable during any call.                    *)
(***************************************************************************)
EXTENDS Integers, Sequences, SequencesExt, FiniteSets

CONSTANTS
    MAX_OPEN_FILES,
    EXT3_DIRECT_BLOCKS,
    BlockSize, IndirectCap,
    Word,          \* u32 is 0..Word - 1, s32 is -Word/2..Word/2 - 1
    Inodes,        \* ino |-> [dir, size, i_block, entries]
    Indirect,      \* block |-> the block numbers in it
    InodeBlock,    \* ino |-> the block of the inode table it lies in
    TableBlock,    \* the block of the group descriptors
    Paths, Lens, Offsets,   \* inputs
    Bad,           \* sets of blocks that may be unreadable during a call
    NFrames        \* bound: page frames the allocator has left

VARIABLES
    m_mounted,
    m_files,       \* fd |-> [in_use, ino, pos, path]; path is a ghost
    held,          \* page frames taken from the allocator and not returned
    last           \* the last read: [fd, pos, len, data], or none

fileVars == <<m_mounted, m_files, held, last>>

FDs  == 1..MAX_OPEN_FILES
ZeroByte == <<0, 0>>
None == [fd |-> 0, pos |-> 0, len |-> 0, data |-> <<>>]
EXT3_ROOT_INO == 2
Closed == [in_use |-> FALSE, ino |-> 0, pos |-> 0, path |-> <<>>]

FilesInit ==
    /\ m_mounted = FALSE
    /\ m_files = [fd \in FDs |-> Closed]
    /\ held = 0 /\ last = None

-----------------------------------------------------------------------------
(* Inode::read_data.  A result is the bytes, or Failed.                    *)

Failed == << <<-1, -1>> >>

\* Fault: the first entry of the indirect block is taken for its header.
Piece_Direct(ino, l, off, n, bad) ==
    LET node == Inodes[ino]
        ind  == node.i_block[EXT3_DIRECT_BLOCKS + 1]
        phys == IF l < EXT3_DIRECT_BLOCKS THEN node.i_block[l + 1]
                ELSE IF l >= EXT3_DIRECT_BLOCKS + IndirectCap \/ ind = 0 THEN 0
                ELSE Indirect[ind][((l - EXT3_DIRECT_BLOCKS + 1) % IndirectCap) + 1]
    IN  IF phys \in bad THEN Failed
        ELSE [j \in 1..n |-> IF phys = 0 THEN ZeroByte ELSE <<phys, off + j - 1>>]

\* n bytes from offset off of logical block l.
Piece(ino, l, off, n, bad) ==
    LET node == Inodes[ino]
        ind  == node.i_block[EXT3_DIRECT_BLOCKS + 1]
        far  == l >= EXT3_DIRECT_BLOCKS + IndirectCap
        phys == IF l < EXT3_DIRECT_BLOCKS THEN node.i_block[l + 1]
                ELSE IF far \/ ind = 0 THEN 0
                ELSE Indirect[ind][l - EXT3_DIRECT_BLOCKS + 1]
    IN  IF \/ phys \in bad
           \/ l >= EXT3_DIRECT_BLOCKS /\ ~far /\ ind \in bad
          THEN Failed
        ELSE [j \in 1..n |-> IF phys = 0 THEN ZeroByte ELSE <<phys, off + j - 1>>]

Least(a, b) == IF a < b THEN a ELSE b

read_data(ino, offset, len, bad) ==
    LET size == Inodes[ino].size
        from[done \in 0..len] ==
            LET at == offset + done
                n  == Least(BlockSize - (at % BlockSize), Least(len - done, size - at))
                piece == Piece(ino, at \div BlockSize, at % BlockSize, n, bad)
                rest  == from[done + n]
            IN  IF done = len \/ at >= size THEN <<>>
                ELSE IF piece = Failed THEN Failed
                ELSE IF rest = Failed THEN Failed ELSE piece \o rest
    IN  from[0]

-----------------------------------------------------------------------------
(* Directories and paths.  A walk carries the inode reached, or 0 once it  *)
(* has failed, and the frames taken; a directory's frame is not returned.  *)

lookup(ino, name) ==
    LET es   == Inodes[ino].entries
        hits == {j \in DOMAIN es : es[j].ino # 0 /\ es[j].name = name}
    IN  IF hits = {} \/ Inodes[ino].size = 0 THEN 0
        ELSE es[CHOOSE j \in hits : \A l \in hits : j <= l].ino

\* Directory::read gives its frame back only when the data cannot be read.
dir_read(ino, taken, bad) ==
    /\ InodeBlock[ino] \notin bad
    /\ Inodes[ino].dir
    /\ Inodes[ino].size # 0 => /\ held + taken < NFrames
                               /\ read_data(ino, 0, Inodes[ino].size, bad) # Failed

Walk(w, name, bad) ==
    IF w.ino = 0 THEN w
    ELSE IF ~dir_read(w.ino, w.taken, bad) THEN [w EXCEPT !.ino = 0]
    ELSE [ino   |-> lookup(w.ino, name),
          taken |-> w.taken + (IF Inodes[w.ino].size = 0 THEN 0 ELSE 1)]

resolve_path(path, bad) ==
    FoldLeft(LAMBDA w, name : Walk(w, name, bad), [ino |-> EXT3_ROOT_INO, taken |-> 0], path)

Take(n) == held' = held + n

-----------------------------------------------------------------------------
(* Mounting                                                                *)

\* The superblock is valid; without a frame for the descriptor table, or when
\* the table cannot be read, nothing is mounted and nothing is kept.
mount(bad) ==
    /\ ~m_mounted
    /\ LET ok == held < NFrames /\ TableBlock \notin bad
       IN  /\ m_mounted' = ok
           /\ held' = IF ok THEN held + 1 ELSE held
    /\ last' = None /\ UNCHANGED m_files

unmount ==
    /\ m_mounted /\ m_mounted' = FALSE
    /\ m_files' = [fd \in FDs |-> [m_files[fd] EXCEPT !.in_use = FALSE]]
    /\ held' = held - 1
    /\ last' = None

-----------------------------------------------------------------------------
(* Files                                                                   *)

Free == {fd \in FDs : ~m_files[fd].in_use}

open(path, bad) ==
    /\ m_mounted
    /\ LET w  == resolve_path(path, bad)
           fd == CHOOSE k \in Free : \A j \in Free : k <= j
       IN  /\ Take(w.taken)
           /\ m_files' =
                IF w.ino = 0 \/ Free = {} THEN m_files
                ELSE [m_files EXCEPT ![fd] =
                        IF InodeBlock[w.ino] \in bad
                          THEN [@ EXCEPT !.pos = 0, !.ino = w.ino]
                          ELSE [in_use |-> TRUE, ino |-> w.ino, pos |-> 0, path |-> path]]
    /\ last' = None /\ UNCHANGED m_mounted

close(fd) ==
    /\ m_files[fd].in_use
    /\ m_files' = [m_files EXCEPT ![fd] = [@ EXCEPT !.in_use = FALSE, !.ino = 0, !.pos = 0]]
    /\ last' = None /\ UNCHANGED <<m_mounted, held>>

\* pos + len is a u32: when it wraps, len is not cut to the end of the file.
read(fd, len, bad) ==
    LET f    == m_files[fd]
        size == Inodes[f.ino].size
        n    == IF ((f.pos + len) % Word) > size THEN size - f.pos ELSE len
        data == IF f.pos >= size THEN <<>> ELSE read_data(f.ino, f.pos, n, bad)
    IN  /\ f.in_use
        /\ m_files' = IF data = Failed THEN m_files
                      ELSE [m_files EXCEPT ![fd].pos = @ + Len(data)]
        /\ last' = IF data = Failed THEN None
                   ELSE [fd |-> fd, pos |-> f.pos, len |-> len, data |-> data]
        /\ UNCHANGED <<m_mounted, held>>

SEEK_SET == 0
SEEK_CUR == 1
SEEK_END == 2

\* The u32 a seek asks for; Word where SEEK_END returns early.
SeekTarget(f, offset, whence) ==
    LET size == Inodes[f.ino].size
    IN  CASE whence = SEEK_SET -> offset % Word
          [] whence = SEEK_CUR -> (f.pos + offset) % Word
          [] whence = SEEK_END -> IF ((-offset) % Word) > size THEN Word
                                  ELSE size - ((-offset) % Word)

seek(fd, offset, whence) ==
    LET f  == m_files[fd]
        to == SeekTarget(f, offset, whence)
    IN  /\ f.in_use /\ to <= Inodes[f.ino].size
        /\ m_files' = [m_files EXCEPT ![fd].pos = to]
        /\ last' = None /\ UNCHANGED <<m_mounted, held>>

\* stat, and getdents, which reads the directory it names as well.
stat(path, bad) ==
    /\ m_mounted
    /\ Take(resolve_path(path, bad).taken)
    /\ last' = None /\ UNCHANGED <<m_mounted, m_files>>

getdents(path, bad) ==
    /\ m_mounted
    /\ LET w  == resolve_path(path, bad)
           in == w.ino # 0 /\ dir_read(w.ino, w.taken, bad) /\ Inodes[w.ino].size # 0
       IN  Take(w.taken + (IF in THEN 1 ELSE 0))
    /\ last' = None /\ UNCHANGED <<m_mounted, m_files>>

FilesNext ==
    \/ unmount
    \/ \E bad \in Bad :
          \/ mount(bad)
          \/ \E path \in Paths : open(path, bad) \/ stat(path, bad) \/ getdents(path, bad)
          \/ \E fd \in FDs, len \in Lens : read(fd, len, bad)
    \/ \E fd \in FDs : close(fd)
    \/ \E fd \in FDs, offset \in Offsets, whence \in 0..2 : seek(fd, offset, whence)

FilesSpec == FilesInit /\ [][FilesNext]_fileVars

-----------------------------------------------------------------------------
(* What a file is, by the format's definition                              *)

RECURSIVE Named(_, _)
Named(ino, path) ==
    IF path = <<>> THEN ino
    ELSE Named((CHOOSE e \in Range(Inodes[ino].entries) :
                   e.ino # 0 /\ e.name = Head(path)).ino, Tail(path))

Byte(ino, k) ==
    LET node  == Inodes[ino]
        l     == k \div BlockSize
        block == IF l < EXT3_DIRECT_BLOCKS THEN node.i_block[l + 1]
                 ELSE IF node.i_block[EXT3_DIRECT_BLOCKS + 1] = 0 THEN 0
                 ELSE Indirect[node.i_block[EXT3_DIRECT_BLOCKS + 1]]
                              [l - EXT3_DIRECT_BLOCKS + 1]
    IN  IF block = 0 THEN ZeroByte ELSE <<block, k % BlockSize>>

\* No seek or read, in wrapping u32 arithmetic, takes an open file past its
\* end, nor does a file stay open on a disk that is gone; and a read that does
\* not fail returns the bytes of the file its path names, from the position
\* before it, as many as are asked for and there are: across block boundaries,
\* holes and the step from direct to indirect blocks, and when pos + len wraps.
ReadsNamedFile ==
    /\ \A fd \in FDs : m_files[fd].in_use =>
           m_mounted /\ m_files[fd].pos \in 0..Inodes[m_files[fd].ino].size
    /\ last.fd # 0 =>
           LET ino == Named(EXT3_ROOT_INO, m_files[last.fd].path)
               n   == Least(last.len, Inodes[ino].size - last.pos)
           IN  last.data = [j \in 1..n |-> Byte(ino, last.pos + j - 1)]
=============================================================================
