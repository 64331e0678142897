------------------------------- MODULE BlockLog -------------------------------
(***************************************************************************)
(* The block log (libraries/chain/block_log.cpp): the file blocks.log,     *)
(* which holds every final block followed by its own position, and the     *)
(* file blocks.index, which holds the positions alone.  The two files are  *)
(* written one after the other, so a crash can leave the last block torn   *)
(* or the files out of step; open and repair_log put that right.           *)
(*                                                                         *)
(* A file is a sequence of tokens instead of bytes, a position the number  *)
(* of a token, and a block its number.  The eight bytes at the end of the  *)
(* file are a position only if the last token is one; otherwise they are   *)
(* taken as a position at which nothing can be unpacked.  Logs of version  *)
(* 1, which the code reads but no longer writes, are left out.             *)
(***************************************************************************)
EXTENDS Naturals, Sequences, FiniteSets, SequencesExt

CONSTANTS
    Starts,     \* how reset is called: [first |-> n, block |-> BOOLEAN]
    MaxNum,     \* bound on the numbers of blocks
    Truncations \* values of truncate_at_block; 0 recovers all blocks

ASSUME StartsAssumption == Starts \subseteq [first : Nat \ {0}, block : BOOLEAN]
ASSUME MaxNumAssumption == MaxNum \in Nat

VARIABLES
    file,   \* blocks.log: there (not empty), version, first, body
    index,  \* blocks.index
    log,    \* the object: open, and then its members head (0: none) and first
    result  \* how the last call ended

vars == <<file, index, log, result>>

BlockToken(n) == [kind |-> "block", at |-> n]

PosToken(p) == [kind |-> "pos", at |-> p]

Torn == [kind |-> "torn", at |-> 0]

NewFile == [there |-> FALSE, version |-> 0, first |-> 0, body |-> <<>>]

Closed == [open |-> FALSE, head |-> 0, first |-> 0]

\* The numbers of the tokens that begin a block.
Positions(body) == {p \in DOMAIN body : body[p].kind = "block"}

-------------------------------------------------------------------------------
(* Reading.                                                                *)

\* The position in the last eight bytes; 0 if there is no block behind it.
EndPos(body) == IF body # <<>> /\ Last(body).kind = "pos" THEN Last(body).at ELSE 0

HeadUnpacks(body) == EndPos(body) \in Positions(body)

\* get_block_pos and read_block_by_num: through the index.
HasBlock(n) == log.head # 0 /\ n <= log.head /\ n >= log.first

ReadBlockByNum(n) ==
    LET i == n - log.first + 1
    IN  IF i \in DOMAIN index /\ index[i] \in Positions(file.body)
        THEN file.body[index[i]].at ELSE 0

-------------------------------------------------------------------------------
(* append and reset.                                                       *)

\* The next block the controller appends.
NextNum == IF log.head = 0 THEN log.first ELSE log.head + 1

\* The check that the index file ends where the entry of block n belongs.
AtPosition(n) == Len(index) = n - log.first

Written(body, n) == body \o <<BlockToken(n), PosToken(Len(body) + 1)>>

AppendBlock(n) ==
    /\ log.open /\ file.there
    /\ n = NextNum /\ n <= MaxNum
    /\ IF AtPosition(n)
       THEN /\ file' = [file EXCEPT !.body = Written(@, n)]
            /\ index' = Append(index, Len(file.body) + 1)
            /\ log' = [log EXCEPT !.head = n]
            /\ result' = "ok"
       ELSE /\ result' = "wrong position"
            /\ UNCHANGED <<file, index, log>>

\* The process or the machine stops during append: each file holds a part of
\* what was written to it.
Parts(body, n) ==
    {body, Append(body, Torn), Append(body, BlockToken(n)),
     body \o <<BlockToken(n), Torn>>, Written(body, n)}

CrashInAppend(n) ==
    /\ log.open /\ file.there
    /\ n = NextNum /\ n <= MaxNum /\ AtPosition(n)
    /\ \E body \in Parts(file.body, n) : file' = [file EXCEPT !.body = body]
    /\ index' \in {index, Append(index, Len(file.body) + 1)}
    /\ log' = Closed
    /\ result' = "crash"

\* reset writes the header with version 0, the first block if there is one,
\* and the version last.  The controller calls it when the log has no blocks.
Fresh(s) ==
    [there |-> TRUE, version |-> 2, first |-> s.first,
     body |-> IF s.block THEN Written(<<>>, s.first) ELSE <<>>]

FreshIndex(s) == IF s.block THEN <<1>> ELSE <<>>

Reset(s) ==
    /\ log.open /\ ~file.there
    /\ file' = Fresh(s)
    /\ index' = FreshIndex(s)
    /\ log' = [log EXCEPT !.head = IF s.block THEN s.first ELSE 0, !.first = s.first]
    /\ result' = "ok"

CrashInReset(s) ==
    /\ log.open /\ ~file.there
    /\ file' \in {NewFile, [Fresh(s) EXCEPT !.version = 0], Fresh(s)}
    /\ index' \in {<<>>, FreshIndex(s)}
    /\ log' = Closed
    /\ result' = "crash"

-------------------------------------------------------------------------------
(* close, open and repair_log.                                             *)

Close ==
    /\ log.open
    /\ log' = Closed
    /\ result' = "ok"
    /\ UNCHANGED <<file, index>>

\* construct_index: the positions of all blocks, found by a scan.
ConstructIndex ==
    SelectSeq([p \in DOMAIN file.body |-> p], LAMBDA p : p \in Positions(file.body))

\* Mutant: an index that is ahead of the log is taken as it is.
IndexMatchesIfAhead == index # <<>> /\ Last(index) >= EndPos(file.body)

\* The index is rebuilt unless it ends with the position of the last block.
IndexMatches == index # <<>> /\ Last(index) = EndPos(file.body)

\* What opening the files leads to.  A log without blocks has no head, and
\* open asks for the id of the head.
OpenResult ==
    CASE ~file.there -> "ok"
      [] file.there /\ file.version = 0 -> "not set up"
      [] file.there /\ file.version # 0 /\ file.body = <<>> -> "no head"
      [] file.there /\ file.version # 0 /\ file.body # <<>> ->
            IF HeadUnpacks(file.body) THEN "ok" ELSE "cannot unpack"

Open ==
    /\ ~log.open
    /\ result' = OpenResult
    /\ IF OpenResult # "ok" THEN UNCHANGED <<index, log>>
       ELSE IF ~file.there
       THEN /\ index' = <<>>
            /\ log' = [open |-> TRUE, head |-> 0, first |-> 0]
       ELSE /\ index' = IF IndexMatches THEN index ELSE ConstructIndex
            /\ log' = [open |-> TRUE, first |-> file.first,
                       head |-> file.body[EndPos(file.body)].at]
    /\ UNCHANGED file

\* The first k blocks are whole and followed by their own positions.
Complete(body, k) ==
    \A j \in 1..k :
        /\ 2 * j \in DOMAIN body
        /\ body[2 * j - 1].kind = "block"
        /\ body[2 * j] = PosToken(2 * j - 1)

\* Mutant: everything is copied.
RecoveredBodyAll(t) == file.body

\* Mutant: the block where it is told to stop is left out.
RecoveredBodyBefore(t) ==
    LET upTo(k) == /\ Complete(file.body, k)
                   /\ \A j \in 1..k : file.body[2 * j - 1].at # t
        k == CHOOSE i \in 0..Len(file.body) : upTo(i) /\ ~upTo(i + 1)
    IN  SubSeq(file.body, 1, 2 * k)

\* The blocks that repair_log copies: up to the first one that is not complete,
\* or up to the block where it is told to stop.
RecoveredBody(t) ==
    LET upTo(k) == /\ Complete(file.body, k)
                   /\ \A j \in 1..(k - 1) : file.body[2 * j - 1].at # t
        k == CHOOSE i \in 0..Len(file.body) : upTo(i) /\ ~upTo(i + 1)
    IN  SubSeq(file.body, 1, 2 * k)

\* repair_log moves the directory away and copies what it can.  A log that was
\* not set up is refused after the new, empty file has been created.
RepairLog(t) ==
    /\ ~log.open /\ file.there
    /\ IF file.version = 0
       THEN file' = NewFile /\ result' = "not set up"
       ELSE file' = [file EXCEPT !.body = RecoveredBody(t)] /\ result' = "repaired"
    /\ index' = <<>>
    /\ UNCHANGED log

-------------------------------------------------------------------------------
Init ==
    /\ file = NewFile
    /\ index = <<>>
    /\ log = Closed
    /\ result = "ok"

Next ==
    \/ Open \/ Close
    \/ \E t \in Truncations : RepairLog(t)
    \/ \E n \in 1..MaxNum : AppendBlock(n) \/ CrashInAppend(n)
    \/ \E s \in Starts : Reset(s) \/ CrashInReset(s)

\* The operator starts the node again after a crash and repairs the log when
\* that fails.
Spec ==
    /\ Init /\ [][Next]_vars
    /\ WF_vars(Open)
    /\ WF_vars(\E t \in Truncations : RepairLog(t))

-------------------------------------------------------------------------------
(* Properties.                                                             *)

\* Every variable holds a value of its type, and only the tail of blocks.log
\* can be torn.
TypeOK ==
    /\ file.there \in BOOLEAN /\ file.version \in {0, 2} /\ file.first \in Nat
    /\ \A p \in DOMAIN file.body :
          /\ file.body[p].kind \in {"block", "pos", "torn"}
          /\ file.body[p].kind = "torn" => p = Len(file.body)
    /\ \A i \in DOMAIN index : index[i] \in Nat \ {0}
    /\ log.open \in BOOLEAN /\ log.head \in 0..MaxNum /\ log.first \in Nat

\* The number of blocks in a body that are followed by their position.
Stored(body) == CHOOSE k \in 0..Len(body) : Complete(body, k) /\ ~Complete(body, k + 1)

\* Whatever crashes and repairs came before, an open log returns every block
\* from its first one to its head under its own number (read_block_by_num),
\* and refuses the next block never (append).
EveryBlockIsFound ==
    /\ TypeOK
    /\ log.open =>
          /\ \A n \in 1..MaxNum : HasBlock(n) => ReadBlockByNum(n) = n
          /\ file.there => AtPosition(NextNum) /\ NextNum = log.first + Stored(file.body)

\* A block whose append returned is never lost again: only a repair that is
\* told to truncate removes complete blocks, and it keeps the block where it
\* stops.
AppendedBlocksStay ==
    [][\/ Stored(file'.body) >= Stored(file.body)
       \/ /\ result' = "repaired"
          /\ Stored(file'.body) > 0 /\ file'.body[2 * Stored(file'.body) - 1].at \in Truncations
       \/ file.version = 0]_vars

\* However the files were left, the log opens again after at most a repair,
\* unless it has a header and no block yet.
LogComesBack ==
    ~log.open ~> (log.open \/ (file.version # 0 /\ file.body = <<>>))

===============================================================================
