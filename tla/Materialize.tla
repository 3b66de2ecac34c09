----------------------------- MODULE Materialize -----------------------------
(***************************************************************************)
(* inspect and materialize (agent_packet/builder.py): calls that read one  *)
(* packet archive and unpack it to one destination, while somebody writes  *)
(* to the archive, replaces it or puts something at the destination.       *)
(*                                                                         *)
(* A call copies the archive into a private directory, hashing it on the   *)
(* way, and works on the copy from then on; what it unpacks appears at the *)
(* destination by one rename.  The private directory is removed after it,  *)
(* unless the call dies or the removal fails, and is not part of the       *)
(* state; only then the call answers.                                      *)
(*                                                                         *)
(* An archive is its chunks, which stand for its digest.  What a sequence  *)
(* of chunks decompresses to is given by constants.                        *)
(***************************************************************************)
EXTENDS Integers, Sequences, FiniteSets

CONSTANTS
  Proc,        \* the calls there may be at a time
  Chunk,       \* what a piece of an archive may be
  Chunks,      \* how many pieces an archive has
  Member,      \* the files archives may hold
  Tar,         \* the files in an archive, in order, if it can be unpacked
  Declared,    \* the files its manifest lists
  Intact,      \* those of them with the hash the manifest lists
  MaxMembers,  \* MAX_MEMBERS, the manifest among them
  Expected,    \* the digests callers obtained
  None,
  Absent, Empty, Taken,  \* what the destination may be, a packet apart
  MaxChanges,  \* bound: changes to the archive or the destination
  MaxFaults    \* bound: calls that fail or die

Archive == [1..Chunks -> Chunk]
Call == [op : {"inspect", "materialize"}, want : Expected \cup {None}]
NoCall == [op |-> "inspect", want |-> None]
Packet == [by : Proc, payload : Archive, files : SUBSET Member]

ASSUME MaterializeAssumption ==
  /\ Chunks \in Nat \ {0} /\ MaxMembers \in Nat
  /\ DOMAIN Tar \subseteq Archive
  /\ \A a \in DOMAIN Tar : /\ Tar[a] \in Seq(Member)
                           /\ Declared[a] \subseteq Member /\ Intact[a] \subseteq Declared[a]
  /\ Expected \subseteq Archive /\ None \notin Archive \cup Proc
  /\ Cardinality({Absent, Empty, Taken}) = 3
  /\ {Absent, Empty, Taken} \cap Packet = {}
  /\ MaxChanges \in Nat /\ MaxFaults \in Nat

(* A file keeps its number; a replaced archive is a new file.              *)
File == 1..MaxChanges + 1

(* What a file holds that is not there yet; nothing reads it.              *)
NotYet == CHOOSE a \in Archive : TRUE

VARIABLES
  current,  \* the file at the archive's path
  content,  \* what every file holds
  dest,     \* the destination: absent, an empty directory, taken by
            \* something else, or an unpacked packet
  pc, asked,\* where each call is, and its arguments
  fd,       \* the file it has opened, or 0
  same,     \* that file still has the signature of before
  copy,     \* packet.snapshot.tar.gz
  names,    \* the members it has unpacked
  \* bookkeeping
  whole,    \* what the file held when the call looked at it first
  calm,     \* the calls that ought to succeed
  changes, faults

archive == <<current, content>>
data == <<fd, same, copy, names, whole>>
call == <<pc, asked, data>>
vars == <<archive, dest, call, calm, changes, faults>>

Returned == {"idle", "ok", "refused"}
Working == {"open", "stat", "read", "unpack", "recheck", "rename", "return"}

Init ==
  /\ current = 1 /\ dest = Absent
  /\ content \in {[f \in File |-> IF f = 1 THEN a ELSE NotYet] : a \in Archive}
  /\ pc = [p \in Proc |-> "idle"]
  /\ asked = [p \in Proc |-> NoCall]
  /\ fd = [p \in Proc |-> 0] /\ same = [p \in Proc |-> FALSE]
  /\ copy = [p \in Proc |-> <<>>] /\ names = [p \in Proc |-> {}]
  /\ whole = [p \in Proc |-> None]
  /\ calm = {} /\ changes = 0 /\ faults = 0

-----------------------------------------------------------------------------
To(p, l) == pc' = [pc EXCEPT ![p] = l]

(* A well-formed archive.                                                  *)
Sound(a) ==
  /\ a \in DOMAIN Tar
  /\ Len(Tar[a]) + 1 <= MaxMembers
  /\ \A i, j \in 1..Len(Tar[a]) : Tar[a][i] = Tar[a][j] => i = j
  /\ {Tar[a][i] : i \in 1..Len(Tar[a])} = Declared[a] /\ Intact[a] = Declared[a]

(* _fresh_destination.                                                     *)
Fresh == dest = Absent

(* What a call knows is gone when it is refused, and when the next begins. *)
Close(p) == fd' = [fd EXCEPT ![p] = 0] /\ same' = [same EXCEPT ![p] = FALSE]
Forget(p) == /\ Close(p)
             /\ names' = [names EXCEPT ![p] = {}] /\ whole' = [whole EXCEPT ![p] = None]
             /\ copy' = [copy EXCEPT ![p] = <<>>]
Refuse(p) == To(p, "refused") /\ Forget(p) /\ asked' = [asked EXCEPT ![p] = NoCall]
Continue(p, l) == To(p, l) /\ UNCHANGED <<asked, data>>

Begin(p) ==
  /\ pc[p] \in Returned
  /\ \E c \in Call :
       /\ c.op = "inspect" => c.want = None
       /\ IF c.op = "materialize" /\ ~Fresh THEN Refuse(p)
          ELSE To(p, "open") /\ Forget(p) /\ asked' = [asked EXCEPT ![p] = c]
       /\ calm' = IF /\ Sound(content[current]) /\ c.want \in {None, content[current]}
                     /\ c.op = "materialize" => Fresh
                  THEN calm \cup {p} ELSE calm \ {p}
  /\ UNCHANGED <<archive, dest, changes, faults>>

(* _snapshot_archive: os.open, then fstat and the path's stat.             *)
Open(p) ==
  /\ pc[p] = "open"
  /\ fd' = [fd EXCEPT ![p] = current]
  /\ To(p, "stat")
  /\ UNCHANGED <<archive, dest, asked, same, copy, names, whole, calm, changes, faults>>

Stat(p) ==
  /\ pc[p] = "stat"
  /\ IF fd[p] = current
     THEN /\ To(p, "read")
          /\ same' = [same EXCEPT ![p] = TRUE]
          /\ whole' = [whole EXCEPT ![p] = content[current]]
          /\ UNCHANGED <<asked, fd, copy, names>>
     ELSE Refuse(p)
  /\ UNCHANGED <<archive, dest, calm, changes, faults>>

Read(p) ==
  /\ pc[p] = "read" /\ Len(copy[p]) < Chunks
  /\ copy' = [copy EXCEPT ![p] = Append(@, content[fd[p]][Len(@) + 1])]
  /\ UNCHANGED <<archive, dest, pc, asked, fd, same, names, whole, calm, changes, faults>>

(* The second fstat; materialize compares the digest; the copy is          *)
(* decompressed.                                                           *)
Unchanged_Unchecked(p) == TRUE
Unchanged(p) == same[p]
Wanted_AnyDigest(p) == TRUE
Wanted(p) == asked[p].want \in {None, copy[p]}
Copied(p) ==
  /\ pc[p] = "read" /\ Len(copy[p]) = Chunks
  /\ IF Unchanged(p) /\ Wanted(p) /\ copy[p] \in DOMAIN Tar
     THEN To(p, "unpack") /\ Close(p) /\ UNCHANGED <<asked, copy, names, whole>>
     ELSE Refuse(p)
  /\ UNCHANGED <<archive, dest, calm, changes, faults>>

(* _read_verified_tar_details, one member; the manifest was the first.     *)
WithinLimit_OffByOne(k) == k + 1 < MaxMembers
WithinLimit(k) == k + 1 <= MaxMembers
Unpack(p) ==
  LET t == Tar[copy[p]]  k == Cardinality(names[p]) + 1 IN
  /\ pc[p] = "unpack" /\ k <= Len(t)
  /\ IF WithinLimit(k) /\ t[k] \notin names[p] /\ t[k] \in Intact[copy[p]]
     THEN names' = [names EXCEPT ![p] = @ \cup {t[k]}] /\ UNCHANGED <<pc, asked, fd, same, copy, whole>>
     ELSE Refuse(p)
  /\ UNCHANGED <<archive, dest, calm, changes, faults>>

(* No member is missing; inspect is done, materialize looks at the         *)
(* destination again.                                                      *)
Unpacked(p) ==
  /\ pc[p] = "unpack" /\ Cardinality(names[p]) + 1 > Len(Tar[copy[p]])
  /\ IF names[p] = Declared[copy[p]]
     THEN Continue(p, IF asked[p].op = "inspect" THEN "ok" ELSE "recheck")
     ELSE Refuse(p)
  /\ UNCHANGED <<archive, dest, calm, changes, faults>>

Recheck(p) ==
  /\ pc[p] = "recheck"
  /\ IF Fresh THEN Continue(p, "rename") ELSE Refuse(p)
  /\ UNCHANGED <<archive, dest, calm, changes, faults>>

(* rename(2) replaces an empty directory, and nothing else.  What remains  *)
(* of the private directory is then removed, and the call answers.         *)
Rename(p) ==
  /\ pc[p] = "rename"
  /\ IF dest \in {Absent, Empty}
     THEN /\ dest' = [by |-> p, payload |-> copy[p], files |-> names[p]]
          /\ calm' = {q \in calm : q = p \/ asked[q].op = "inspect"}
          /\ Continue(p, "return")
     ELSE Refuse(p) /\ UNCHANGED <<dest, calm>>
  /\ UNCHANGED <<archive, changes, faults>>

Return(p) ==
  /\ pc[p] = "return" /\ Continue(p, "ok")
  /\ UNCHANGED <<archive, dest, calm, changes, faults>>

(* A call fails, or dies; the packet it has put at the destination stays.  *)
Fault(p) ==
  /\ pc[p] \in Working /\ faults < MaxFaults
  /\ \/ Refuse(p)
     \/ To(p, "idle") /\ Forget(p) /\ asked' = [asked EXCEPT ![p] = NoCall]
  /\ faults' = faults + 1 /\ calm' = calm \ {p}
  /\ UNCHANGED <<archive, dest, changes>>

-----------------------------------------------------------------------------
(* Somebody changes the archive or the destination.                        *)
Disturb ==
  /\ changes < MaxChanges /\ changes' = changes + 1
  /\ calm' = {}

(* A file is written to.                                                   *)
Overwrite ==
  /\ Disturb
  /\ \E f \in 1..current, i \in 1..Chunks, c \in Chunk :
       /\ content' = [content EXCEPT ![f][i] = c]
       /\ same' = [p \in Proc |-> same[p] /\ fd[p] # f]
  /\ UNCHANGED <<current, dest, pc, asked, fd, copy, names, whole, faults>>

(* Another file takes the path; the file that was there may get another    *)
(* ctime.                                                                  *)
Replace ==
  /\ Disturb
  /\ current' = current + 1
  /\ \E a \in Archive : content' = [content EXCEPT ![current + 1] = a]
  /\ \E touched \in BOOLEAN : same' = [p \in Proc |-> same[p] /\ ~(touched /\ fd[p] = current)]
  /\ UNCHANGED <<dest, pc, asked, fd, copy, names, whole, faults>>

(* Something else is put at the destination, or goes.                      *)
Occupy ==
  /\ Disturb
  /\ dest \in {Absent, Empty, Taken} /\ dest' \in {Absent, Empty, Taken} \ {dest}
  /\ UNCHANGED <<archive, call, faults>>

Step(p) == \/ Begin(p) \/ Open(p) \/ Stat(p) \/ Read(p) \/ Copied(p) \/ Unpack(p)
           \/ Unpacked(p) \/ Recheck(p) \/ Rename(p) \/ Return(p) \/ Fault(p)

Next == (\E p \in Proc : Step(p)) \/ Overwrite \/ Replace \/ Occupy

Spec == Init /\ [][Next]_vars

-----------------------------------------------------------------------------
(* Type invariant.                                                         *)
TypeOK ==
  /\ current \in File /\ content \in [File -> Archive]
  /\ dest \in {Absent, Empty, Taken} \cup Packet
  /\ pc \in [Proc -> Returned \cup Working] /\ asked \in [Proc -> Call]
  /\ fd \in [Proc -> File \cup {0}] /\ same \in [Proc -> BOOLEAN]
  /\ copy \in [Proc -> Seq(Chunk)]
  /\ \A p \in Proc : /\ Len(copy[p]) <= Chunks
                     /\ pc[p] \in {"unpack", "recheck", "rename", "return", "ok"} =>
                          copy[p] \in DOMAIN Tar
  /\ names \in [Proc -> SUBSET Member] /\ whole \in [Proc -> Archive \cup {None}]
  /\ calm \subseteq Proc /\ changes \in 0..MaxChanges /\ faults \in 0..MaxFaults

(* What a call answers for, or has unpacked, is one archive: the bytes one *)
(* file held at one moment, those with the expected digest, and all the    *)
(* files its manifest lists and no other.  Replacing or writing to the     *)
(* source cannot change it (agent-packet README), nor can another call.    *)
AnswerIsOneArchive ==
  /\ \A p \in Proc : pc[p] = "ok" =>
       /\ copy[p] = whole[p] /\ asked[p].want \in {None, whole[p]}
       /\ names[p] = Declared[copy[p]]
       /\ asked[p].op = "materialize" =>
            dest = [by |-> p, payload |-> copy[p], files |-> names[p]]
  /\ dest \in Packet => dest.files = Declared[dest.payload]

(* The calls as their callers see them: the archive is taken when Stat has *)
(* found the opened file at the path.                                      *)
Stage == [p \in Proc |-> IF pc[p] = "return" THEN "placed"
                        ELSE IF pc[p] \in Working THEN "working" ELSE pc[p]]
Answered == [p \in Proc |-> IF pc[p] = "ok"
                           THEN [by |-> p, payload |-> copy[p], files |-> names[p]] ELSE None]
Reader == INSTANCE PacketReader
  WITH archive <- content[current], stage <- Stage, taken <- whole, answer <- Answered,
       Free <- {Absent, Empty}, Occupied <- {Taken}

(* Materialize implements PacketReader: a call is an atomic look at the    *)
(* archive, a packet that appears whole, and an answer for just that       *)
(* packet, whatever is written, replaced or put at the destination         *)
(* meanwhile, and wherever the call fails or dies.                         *)
ImplementsReader == Reader!Spec

(* A call that nothing disturbs, on a sound archive, with its digest or    *)
(* none and a free destination, is not refused.                            *)
HonestSucceeds == \A p \in calm : pc[p] # "refused"
=============================================================================
