---------------------------- MODULE StorageProofs ----------------------------
(***************************************************************************)
(* Proofs about what an account keeps beside its tables: its BlobStore,    *)
(* for any blobs and any files, and its Repository, for any keys, records, *)
(* batches and number of revisions; and about what is written in one place *)
(* and read in another: prepared writes, for any records, the queries and  *)
(* the answers of RPCs, for any parameters, values and errors, and commits *)
(* for any texts, links and width of integers.                             *)
(***************************************************************************)
EXTENDS Storage, Encodings, TLAPS, WellFoundedInduction, SequenceTheorems

-----------------------------------------------------------------------------
(* BlobStore *)

Steps == {"idle", "temp", "put", "open", "create", "copy", "remove", "moved", "write", "temps", "quarantine"}
Actor == [pc : Steps, blob : Cid \cup {Nothing}, src : Inode \cup {Nothing},
          dst : Inode \cup {Nothing}, at : Nat \ {0}, kept : BOOLEAN]

Types ==
  /\ data \in [Inode -> [Blobs!Chunks -> Cid \cup {Nothing}]]
  /\ temp \in Inode \cup {Nothing}
  /\ stored \in [Cid -> Inode \cup {Nothing}] /\ quar \in [Cid -> Inode \cup {Nothing}]
  /\ home \in BOOLEAN /\ broke \in BOOLEAN
  /\ up \in Actor /\ mod \in Actor

\* What the uploader and the moderator hold, by where they are: an upload reads
\* the temporary file it wrote, unless DeleteAll has taken that away.
Places ==
  /\ up.pc \in {"idle", "temp", "put", "open", "create", "copy", "remove", "moved"}
  /\ up.pc # "idle" => up.blob \in Cid
  /\ up.src # Nothing <=> up.pc \in {"create", "copy"}
  /\ up.dst # Nothing <=> up.pc \in {"temp", "copy"}
  /\ up.pc = "temp" => temp \in {up.dst, Nothing}
  /\ up.pc \in {"create", "copy"} => temp \in {up.src, Nothing}
  /\ up.pc \in {"put", "open", "create"} => up.at = 1
  /\ mod.pc \in {"idle", "write", "temps", "quarantine"}
  /\ mod.pc = "write" => mod.blob \in Cid
  /\ mod.dst # Nothing <=> mod.pc = "write"

\* The files of a blob and those of an upload that is not yet permanent.
Owns(c, i) ==
  \/ i \in {stored[c], quar[c]}
  \/ up.pc = "copy" /\ up.blob = c /\ up.dst = i
  \/ mod.pc = "write" /\ mod.blob = c /\ mod.dst = i
Temporary(i) == i \in {temp, up.src} \/ (up.pc = "temp" /\ up.dst = i)

\* No file serves two blobs, or is permanent and temporary.
Apart ==
  \A i \in Inode, c \in Cid : Owns(c, i) => ~Temporary(i) /\ \A d \in Cid : Owns(d, i) => d = c

\* A chunk that somebody who has the file open is going to write.
Pending(i, c, k) ==
  \/ up.pc = "copy" /\ up.blob = c /\ up.dst = i /\ up.at <= k
  \/ mod.pc = "write" /\ mod.blob = c /\ mod.dst = i /\ mod.at <= k

\* The bytes.  A chunk of a permanent or quarantined file is right or will be
\* written; so are the chunks of a temporary file that have been written, all of
\* them once it is to be copied.
Bytes ==
  \A c \in Cid, k \in Blobs!Chunks : \A i \in {stored[c], quar[c]} \ {Nothing} :
    data[i][k] = c \/ Pending(i, c, k)
Draft == up.pc = "temp" => \A k \in Blobs!Chunks : k < up.at => data[up.dst][k] = up.blob
Source ==
  /\ up.pc \in {"put", "open", "create", "copy"} /\ temp # Nothing => Blobs!Whole(temp, up.blob)
  /\ up.pc \in {"create", "copy"} => Blobs!Whole(up.src, up.blob)

Filled == ~broke => Bytes /\ Draft /\ Source

BlobInv == Types /\ Places /\ Apart /\ Filled

-----------------------------------------------------------------------------
\* What Idle is.
LEMMA IdleActor ==
  /\ Blobs!Idle \in Actor /\ Blobs!Idle.pc = "idle" /\ Blobs!Idle.at = 1
  /\ Blobs!Idle.src = Nothing /\ Blobs!Idle.dst = Nothing
BY DEF Blobs!Idle, Actor, Steps

\* An actor that opens a file has the one that was there, emptied, or one that
\* nobody holds.
LEMMA Opened ==
  ASSUME Types, NEW old \in Inode \cup {Nothing}, NEW i \in Inode, Blobs!Open(old, i), data' = Blobs!Emptied(i),
         old = Nothing \/ old \in Blobs!InUse
  PROVE  /\ i = old \/ i \notin Blobs!InUse
         /\ old # Nothing => i = old
         /\ data' \in [Inode -> [Blobs!Chunks -> Cid \cup {Nothing}]]
         /\ \A j \in Inode : j \in Blobs!InUse /\ j # i => data'[j] = data[j]
<1>1. [k \in Blobs!Chunks |-> Nothing] \in [Blobs!Chunks -> Cid \cup {Nothing}]
  OBVIOUS
<1> QED BY <1>1 DEF Types, Blobs!Open, Blobs!Emptied

\* Writing a chunk changes that chunk.
LEMMA Writing ==
  ASSUME Types, NEW i \in Inode, NEW k \in Blobs!Chunks, NEW x \in Cid \cup {Nothing}, data' = Blobs!Written(i, k, x)
  PROVE  /\ data' \in [Inode -> [Blobs!Chunks -> Cid \cup {Nothing}]]
         /\ data'[i][k] = x
         /\ \A j \in Inode, n \in Blobs!Chunks : j # i \/ n # k => data'[j][n] = data[j][n]
BY DEF Types, Blobs!Written

\* An actor goes to its next chunk.
LEMMA NextChunk ==
  ASSUME NEW a \in Actor, NEW to, to = [a EXCEPT !.at = @ + 1]
  PROVE  to \in Actor /\ to.pc = a.pc /\ to.blob = a.blob /\ to.src = a.src /\ to.dst = a.dst
<1>1. a.at + 1 \in Nat \ {0}
  BY DEF Actor
<1> QED BY <1>1 DEF Actor

\* Files that are named or held are in use.
LEMMA Used ==
  ASSUME Types
  PROVE  /\ {temp, up.src, up.dst, mod.dst} \subseteq Blobs!InUse
         /\ \A c \in Cid : stored[c] \in Blobs!InUse /\ quar[c] \in Blobs!InUse
BY DEF Blobs!InUse

\* Every step keeps the types, and what each actor holds where he is.
LEMMA NextTypes == ASSUME Blobs!BlobStoreAssumption, Types, Places, [Blobs!Next]_(Blobs!vars) PROVE Types' /\ Places'
<1> USE IdleActor
<1>0. Nothing \notin Cid /\ Nothing \notin Inode
  BY DEF Blobs!BlobStoreAssumption
<1>1. ASSUME NEW c \in Cid, Blobs!PutTemp(c), UNCHANGED broke PROVE Types' /\ Places'
  <2>1. PICK i \in Inode : Blobs!Open(temp, i) /\ temp' = i /\ data' = Blobs!Emptied(i)
                           /\ up' = [Blobs!Idle EXCEPT !.pc = "temp", !.blob = c, !.dst = i]
    BY <1>1 DEF Blobs!PutTemp
  <2>2. up' \in Actor /\ up'.pc = "temp" /\ up'.blob = c /\ up'.src = Nothing /\ up'.dst = i
    BY <2>1 DEF Blobs!Idle, Actor, Steps
  <2>3. data' \in [Inode -> [Blobs!Chunks -> Cid \cup {Nothing}]]
    BY <2>1, Opened, Used DEF Types
  <2> QED BY <1>0, <1>1, <2>1, <2>2, <2>3 DEF Blobs!PutTemp, Types, Places
<1>2. ASSUME Blobs!WriteTemp, UNCHANGED broke PROVE Types' /\ Places'
  <2>1. CASE up.at \in Blobs!Chunks
    <3>1. PICK to : to = [up EXCEPT !.at = @ + 1] /\ up' = to
      BY <1>2, <2>1 DEF Blobs!WriteTemp
    <3>2. to \in Actor /\ to.pc = up.pc /\ to.blob = up.blob /\ to.src = up.src /\ to.dst = up.dst
      BY <3>1, NextChunk DEF Types
    <3>3. data' \in [Inode -> [Blobs!Chunks -> Cid \cup {Nothing}]]
      <4>1. up.dst \in Inode /\ up.blob \in Cid
        BY <1>2 DEF Blobs!WriteTemp, Types, Places, Actor, Steps
      <4> QED BY <1>2, <2>1, <4>1, Writing DEF Blobs!WriteTemp
    <3> QED BY <1>2, <3>1, <3>2, <3>3 DEF Blobs!WriteTemp, Types, Places, Blobs!dirs
  <2>2. CASE up.at \notin Blobs!Chunks
    <3>1. up' = [Blobs!Idle EXCEPT !.pc = "put", !.blob = up.blob]
      BY <1>2, <2>2 DEF Blobs!WriteTemp
    <3>2. up' \in Actor /\ up'.pc = "put" /\ up'.blob = up.blob /\ up'.src = Nothing /\ up'.dst = Nothing /\ up'.at = 1
      BY <3>1 DEF Blobs!Idle, Types, Actor, Steps
    <3> QED BY <1>2, <2>2, <3>1, <3>2 DEF Blobs!WriteTemp, Types, Places, Blobs!dirs
  <2> QED BY <2>1, <2>2
<1>3. ASSUME Blobs!HasStored, UNCHANGED broke PROVE Types' /\ Places'
  <2>1. PICK to, b : to = [up EXCEPT !.pc = IF stored[up.blob] # Nothing THEN "remove" ELSE "open", !.kept = b]
                  /\ up' = to /\ b = Blobs!Whole(temp, up.blob)
    BY <1>3 DEF Blobs!HasStored
  <2>2. b \in BOOLEAN
    BY <2>1 DEF Blobs!Whole
  <2>3. to \in Actor /\ to.pc \in {"remove", "open"} /\ to.blob = up.blob /\ to.src = up.src /\ to.dst = up.dst /\ to.at = up.at
    BY <2>1, <2>2 DEF Types, Actor, Steps
  <2> QED BY <1>3, <2>1, <2>3 DEF Blobs!HasStored, Types, Places
<1>4. ASSUME Blobs!OpenTemp, UNCHANGED broke PROVE Types' /\ Places'
  <2>1. CASE temp = Nothing
    BY <1>4, <2>1 DEF Blobs!OpenTemp, Types, Places, Blobs!dirs
  <2>2. CASE temp # Nothing
    <3>1. PICK to : to = [up EXCEPT !.pc = "create", !.src = temp] /\ up' = to
      BY <1>4, <2>2 DEF Blobs!OpenTemp
    <3>2. to \in Actor /\ to.pc = "create" /\ to.blob = up.blob /\ to.src = temp /\ to.dst = up.dst /\ to.at = up.at
      BY <3>1 DEF Types, Actor, Steps
    <3> QED BY <1>4, <2>2, <3>1, <3>2 DEF Blobs!OpenTemp, Types, Places, Blobs!dirs
  <2> QED BY <2>1, <2>2
<1>5. ASSUME Blobs!CreateStored, UNCHANGED broke PROVE Types' /\ Places'
  <2>1. PICK i \in Inode : /\ Blobs!Open(stored[up.blob], i)
                           /\ stored' = [stored EXCEPT ![up.blob] = i] /\ data' = Blobs!Emptied(i)
                           /\ up' = [up EXCEPT !.pc = "copy", !.dst = i]
    BY <1>5 DEF Blobs!CreateStored
  <2>2. PICK to : to = [up EXCEPT !.pc = "copy", !.dst = i] /\ up' = to
    BY <2>1
  <2>3. to \in Actor /\ to.pc = "copy" /\ to.blob = up.blob /\ to.src = up.src /\ to.dst = i /\ to.at = up.at
    BY <2>2 DEF Types, Actor, Steps
  <2>4. up.blob \in Cid /\ stored[up.blob] \in Inode \cup {Nothing} /\ stored[up.blob] \in Blobs!InUse
    BY <1>5, Used DEF Blobs!CreateStored, Types, Places
  <2>5. data' \in [Inode -> [Blobs!Chunks -> Cid \cup {Nothing}]]
    BY <2>1, <2>4, Opened
  <2> QED BY <1>0, <1>5, <2>1, <2>2, <2>3, <2>4, <2>5 DEF Blobs!CreateStored, Types, Places
<1>6. ASSUME Blobs!CopyChunk, UNCHANGED broke PROVE Types' /\ Places'
  <2>1. CASE up.at \in Blobs!Chunks /\ data[up.src][up.at] # Nothing
    <3>1. PICK to : to = [up EXCEPT !.at = @ + 1] /\ up' = to
      BY <1>6, <2>1 DEF Blobs!CopyChunk
    <3>2. to \in Actor /\ to.pc = up.pc /\ to.blob = up.blob /\ to.src = up.src /\ to.dst = up.dst
      BY <3>1, NextChunk DEF Types
    <3>3. data' \in [Inode -> [Blobs!Chunks -> Cid \cup {Nothing}]]
      <4>1. up.dst \in Inode /\ up.src \in Inode
        BY <1>6 DEF Blobs!CopyChunk, Types, Places, Actor, Steps
      <4>2. data[up.src][up.at] \in Cid \cup {Nothing}
        BY <2>1, <4>1 DEF Types
      <4> QED BY <1>6, <2>1, <4>1, <4>2, Writing DEF Blobs!CopyChunk
    <3> QED BY <1>6, <3>1, <3>2, <3>3 DEF Blobs!CopyChunk, Types, Places, Blobs!dirs
  <2>2. CASE ~(up.at \in Blobs!Chunks /\ data[up.src][up.at] # Nothing)
    <3>1. PICK to : to = [up EXCEPT !.pc = "remove", !.src = Nothing, !.dst = Nothing] /\ up' = to
      BY <1>6, <2>2 DEF Blobs!CopyChunk
    <3>2. to \in Actor /\ to.pc = "remove" /\ to.blob = up.blob /\ to.src = Nothing /\ to.dst = Nothing
      BY <3>1 DEF Types, Actor, Steps
    <3>3. UNCHANGED data
      BY <1>6, <2>2 DEF Blobs!CopyChunk
    <3> QED BY <1>6, <2>2, <3>1, <3>2, <3>3 DEF Blobs!CopyChunk, Types, Places, Blobs!dirs
  <2> QED BY <2>1, <2>2
<1>7. ASSUME Blobs!RemoveTemp \/ Blobs!KeepTemp, UNCHANGED broke PROVE Types' /\ Places'
  <2>1. PICK to : to = [up EXCEPT !.pc = "moved", !.src = Nothing, !.dst = Nothing] /\ up' = to
    BY <1>7 DEF Blobs!RemoveTemp, Blobs!KeepTemp
  <2>2. to \in Actor /\ to.pc = "moved" /\ to.blob = up.blob /\ to.src = Nothing /\ to.dst = Nothing
    BY <2>1 DEF Types, Actor, Steps
  <2> QED BY <1>7, <2>1, <2>2 DEF Blobs!RemoveTemp, Blobs!KeepTemp, Types, Places, Blobs!dirs
<1>8. ASSUME Blobs!CreateFails \/ Blobs!UpReturns \/ Blobs!UpFails, broke' \in BOOLEAN PROVE Types' /\ Places'
  BY <1>8 DEF Blobs!CreateFails, Blobs!UpReturns, Blobs!UpFails, Types, Places, Blobs!dirs
<1>9. ASSUME NEW c \in Cid, Blobs!PutPermanent(c), UNCHANGED broke PROVE Types' /\ Places'
  <2>1. PICK i \in Inode : /\ Blobs!Open(stored[c], i)
                           /\ stored' = [stored EXCEPT ![c] = i] /\ data' = Blobs!Emptied(i)
                           /\ mod' = [Blobs!Idle EXCEPT !.pc = "write", !.blob = c, !.dst = i]
    BY <1>9 DEF Blobs!PutPermanent
  <2>2. mod' \in Actor /\ mod'.pc = "write" /\ mod'.blob = c /\ mod'.dst = i
    BY <2>1 DEF Blobs!Idle, Actor, Steps
  <2>3. data' \in [Inode -> [Blobs!Chunks -> Cid \cup {Nothing}]]
    <3>1. stored[c] \in Inode \cup {Nothing} /\ stored[c] \in Blobs!InUse
      BY Used DEF Types
    <3> QED BY <2>1, <3>1, Opened
  <2> QED BY <1>0, <1>9, <2>1, <2>2, <2>3 DEF Blobs!PutPermanent, Types, Places
<1>10. ASSUME Blobs!WritePermanent, UNCHANGED broke PROVE Types' /\ Places'
  <2>1. CASE mod.at \in Blobs!Chunks
    <3>1. PICK to : to = [mod EXCEPT !.at = @ + 1] /\ mod' = to
      BY <1>10, <2>1 DEF Blobs!WritePermanent
    <3>2. to \in Actor /\ to.pc = mod.pc /\ to.blob = mod.blob /\ to.dst = mod.dst
      BY <3>1 DEF Types, Actor, Steps
    <3>3. data' \in [Inode -> [Blobs!Chunks -> Cid \cup {Nothing}]]
      <4>1. mod.dst \in Inode /\ mod.blob \in Cid
        BY <1>10 DEF Blobs!WritePermanent, Types, Places, Actor, Steps
      <4> QED BY <1>10, <2>1, <4>1, Writing DEF Blobs!WritePermanent
    <3> QED BY <1>10, <3>1, <3>2, <3>3 DEF Blobs!WritePermanent, Types, Places, Blobs!dirs
  <2>2. CASE mod.at \notin Blobs!Chunks
    BY <1>10, <2>2 DEF Blobs!WritePermanent, Types, Places, Blobs!dirs
  <2> QED BY <2>1, <2>2
<1>11. ASSUME Blobs!ModFails PROVE Types' /\ Places'
  BY <1>11 DEF Blobs!ModFails, Types, Places, Blobs!dirs
<1>12. ASSUME NEW c \in Cid, Blobs!Quarantine(c) \/ Blobs!Unquarantine(c) \/ Blobs!Delete(c), UNCHANGED broke PROVE Types' /\ Places'
  <2>1. stored' \in [Cid -> Inode \cup {Nothing}] /\ quar' \in [Cid -> Inode \cup {Nothing}] /\ home' \in BOOLEAN
    BY <1>12 DEF Blobs!Quarantine, Blobs!Unquarantine, Blobs!Delete, Types
  <2> QED BY <1>12, <2>1 DEF Blobs!Quarantine, Blobs!Unquarantine, Blobs!Delete, Types, Places
<1>13. ASSUME Blobs!DeleteAll, UNCHANGED broke PROVE Types' /\ Places'
  <2>1. mod.dst = Nothing
    BY <1>13 DEF Blobs!DeleteAll, Places
  <2>2. mod' \in Actor /\ mod'.pc \in {"idle", "temps", "quarantine"} /\ mod'.dst = Nothing
    BY <1>13 DEF Blobs!DeleteAll, Blobs!Idle, Actor, Steps
  <2>3. temp' \in {temp, Nothing} /\ stored' \in [Cid -> Inode \cup {Nothing}] /\ quar' \in [Cid -> Inode \cup {Nothing}]
        /\ home' \in BOOLEAN
    BY <1>13 DEF Blobs!DeleteAll, Types
  <2>4. UNCHANGED <<data, up>>
    BY <1>13 DEF Blobs!DeleteAll
  <2> QED BY <1>13, <2>2, <2>3, <2>4 DEF Types, Places
<1>14. CASE UNCHANGED Blobs!vars
  BY <1>14 DEF Blobs!vars, Blobs!dirs, Types, Places
<1> QED BY <1>1, <1>2, <1>3, <1>4, <1>5, <1>6, <1>7, <1>8, <1>9, <1>10, <1>11, <1>12, <1>13, <1>14
        DEF Blobs!Next, Blobs!Upload, Blobs!Moderate, Blobs!UpFails, Types

\* An actor gets a file for a blob that is the blob's already, or nobody's.
LEMMA ApartOwner ==
  ASSUME Apart, NEW c \in Cid, NEW j \in Inode,
         \A i \in Inode, d \in Cid : Owns(d, i)' => Owns(d, i) \/ (d = c /\ i = j),
         \A i \in Inode : Temporary(i)' => Temporary(i),
         Owns(c, j) \/ (~Temporary(j) /\ \A d \in Cid : ~Owns(d, j))
  PROVE  Apart'
BY DEF Apart

\* An upload gets a file that is no blob's.
LEMMA ApartUpload ==
  ASSUME Apart, NEW j \in Inode,
         \A i \in Inode, c \in Cid : Owns(c, i)' => Owns(c, i),
         \A i \in Inode : Temporary(i)' => Temporary(i) \/ i = j,
         \A d \in Cid : ~Owns(d, j)
  PROVE  Apart'
BY DEF Apart

\* Nobody gets a file.
LEMMA ApartStays ==
  ASSUME Apart, \A i \in Inode, c \in Cid : Owns(c, i)' => Owns(c, i),
         \A i \in Inode : Temporary(i)' => Temporary(i)
  PROVE  Apart'
BY DEF Apart

\* Files change hands one at a time: what an open finds is the blob's own or free.
LEMMA NextApart == ASSUME Blobs!BlobStoreAssumption, Types, Places, Apart, [Blobs!Next]_(Blobs!vars) PROVE Apart'
<1> USE IdleActor
<1>0. Nothing \notin Cid /\ Nothing \notin Inode
  BY DEF Blobs!BlobStoreAssumption
\* A file that nobody uses has no owner.
<1>f. ASSUME NEW i \in Inode, i \notin Blobs!InUse PROVE ~Temporary(i) /\ \A c \in Cid : ~Owns(c, i)
  BY <1>f, Used DEF Temporary, Owns
<1>1. ASSUME NEW c \in Cid, Blobs!PutTemp(c) PROVE Apart'
  <2>1. PICK j \in Inode : Blobs!Open(temp, j) /\ temp' = j /\ data' = Blobs!Emptied(j)
                           /\ up' = [Blobs!Idle EXCEPT !.pc = "temp", !.blob = c, !.dst = j]
    BY <1>1 DEF Blobs!PutTemp
  <2>2. up'.pc = "temp" /\ up'.src = Nothing /\ up'.dst = j
    BY <2>1 DEF Blobs!Idle
  <2>3. j = temp \/ j \notin Blobs!InUse
    BY <2>1, Opened, Used DEF Types
  <2>4. \A d \in Cid : ~Owns(d, j)
    BY <1>f, <2>3 DEF Apart, Temporary
  <2>5. \A i \in Inode, d \in Cid : Owns(d, i)' => Owns(d, i)
    BY <1>1, <2>2 DEF Blobs!PutTemp, Owns
  <2>6. \A i \in Inode : Temporary(i)' => Temporary(i) \/ i = j
    BY <1>0, <2>1, <2>2 DEF Temporary
  <2> QED BY <2>4, <2>5, <2>6, ApartUpload
<1>2. ASSUME NEW c \in Cid, Blobs!PutPermanent(c) PROVE Apart'
  <2>1. PICK j \in Inode : /\ Blobs!Open(stored[c], j)
                           /\ stored' = [stored EXCEPT ![c] = j] /\ data' = Blobs!Emptied(j)
                           /\ mod' = [Blobs!Idle EXCEPT !.pc = "write", !.blob = c, !.dst = j]
    BY <1>2 DEF Blobs!PutPermanent
  <2>2. mod'.pc = "write" /\ mod'.blob = c /\ mod'.dst = j /\ UNCHANGED <<temp, quar, up>>
    BY <1>2, <2>1 DEF Blobs!PutPermanent, Blobs!Idle
  <2>3. j = stored[c] \/ j \notin Blobs!InUse
    BY <2>1, Opened, Used DEF Types
  <2>4. Owns(c, j) \/ (~Temporary(j) /\ \A d \in Cid : ~Owns(d, j))
    BY <1>f, <2>3 DEF Owns
  <2>5. \A i \in Inode, d \in Cid : Owns(d, i)' => Owns(d, i) \/ (d = c /\ i = j)
    BY <2>1, <2>2 DEF Types, Owns
  <2>6. \A i \in Inode : Temporary(i)' => Temporary(i)
    BY <2>2 DEF Temporary
  <2> QED BY <2>4, <2>5, <2>6, ApartOwner
<1>3. ASSUME Blobs!CreateStored PROVE Apart'
  <2> DEFINE c == up.blob
  <2>1. PICK j \in Inode : /\ Blobs!Open(stored[c], j)
                           /\ stored' = [stored EXCEPT ![c] = j] /\ data' = Blobs!Emptied(j)
                           /\ up' = [up EXCEPT !.pc = "copy", !.dst = j]
    BY <1>3 DEF Blobs!CreateStored
  <2>2. up'.pc = "copy" /\ up'.blob = c /\ up'.src = up.src /\ up'.dst = j /\ UNCHANGED <<temp, quar, mod>>
    BY <1>3, <2>1 DEF Blobs!CreateStored, Types, Actor
  <2>c. c \in Cid
    BY <1>3 DEF Blobs!CreateStored, Places
  <2> HIDE DEF c
  <2>3. j = stored[c] \/ j \notin Blobs!InUse
    BY <2>1, <2>c, Opened, Used DEF Types
  <2>4. Owns(c, j) \/ (~Temporary(j) /\ \A d \in Cid : ~Owns(d, j))
    BY <1>f, <2>3 DEF Owns
  <2>5. \A i \in Inode, d \in Cid : Owns(d, i)' => Owns(d, i) \/ (d = c /\ i = j)
    BY <2>1, <2>2 DEF Types, Owns
  <2>6. \A i \in Inode : Temporary(i)' => Temporary(i)
    BY <2>2 DEF Temporary
  <2> QED BY <2>c, <2>4, <2>5, <2>6, ApartOwner
\* The others let go of files, or move them between places of one owner.
<1>4. ASSUME Blobs!WriteTemp \/ Blobs!HasStored \/ Blobs!OpenTemp \/ Blobs!CreateFails
              \/ Blobs!CopyChunk \/ Blobs!RemoveTemp \/ Blobs!KeepTemp \/ Blobs!UpReturns \/ Blobs!UpFails
      PROVE  Apart'
  <2>1. UNCHANGED <<stored, quar, mod>> /\ temp' \in {temp, Nothing}
    BY <1>4 DEF Blobs!WriteTemp, Blobs!HasStored, Blobs!OpenTemp, Blobs!CreateFails,
                Blobs!CopyChunk, Blobs!RemoveTemp, Blobs!KeepTemp, Blobs!UpReturns, Blobs!UpFails, Blobs!dirs
  <2>2. /\ up'.pc = "copy" => up.pc = "copy" /\ up'.blob = up.blob /\ up'.dst = up.dst
        /\ up'.pc = "temp" => up.pc = "temp" /\ up'.dst = up.dst
        /\ up'.src \in {up.src, temp, Nothing}
    <3>i. Blobs!Idle.pc = "idle" /\ Blobs!Idle.src = Nothing
      BY IdleActor
    <3>a. up \in Actor
      BY DEF Types
    <3>1. CASE Blobs!WriteTemp
      BY <3>a, <3>1 DEF Blobs!WriteTemp, Actor, Blobs!Idle
    <3>2. CASE Blobs!CopyChunk
      BY <3>a, <3>2 DEF Blobs!CopyChunk, Actor, Blobs!Idle
    <3>3. CASE Blobs!HasStored
      BY <3>a, <3>3 DEF Blobs!HasStored, Actor
    <3>4. CASE Blobs!OpenTemp
      BY <3>a, <3>i, <3>4 DEF Blobs!OpenTemp, Actor
    <3>5. CASE Blobs!RemoveTemp \/ Blobs!KeepTemp
      BY <3>a, <3>5 DEF Blobs!RemoveTemp, Blobs!KeepTemp, Actor, Blobs!Idle
    <3>6. CASE Blobs!CreateFails \/ Blobs!UpReturns \/ Blobs!UpFails
      BY <3>6 DEF Blobs!CreateFails, Blobs!UpReturns, Blobs!UpFails
    <3> QED BY <1>4, <3>1, <3>2, <3>3, <3>4, <3>5, <3>6
  <2>3. \A i \in Inode, d \in Cid : Owns(d, i)' => Owns(d, i)
    BY <2>1, <2>2 DEF Owns
  <2>4. \A i \in Inode : Temporary(i)' => Temporary(i)
    BY <1>0, <2>1, <2>2 DEF Temporary
  <2> QED BY <2>3, <2>4, ApartStays
<1>5. ASSUME NEW c \in Cid, Blobs!Quarantine(c) \/ Blobs!Unquarantine(c) \/ Blobs!Delete(c) PROVE Apart'
  <2>1. UNCHANGED <<temp, up, mod>>
    BY <1>5 DEF Blobs!Quarantine, Blobs!Unquarantine, Blobs!Delete
  <2>2. \A i \in Inode, d \in Cid : i \in {stored'[d], quar'[d]} => i \in {stored[d], quar[d]}
    BY <1>0, <1>5 DEF Blobs!Quarantine, Blobs!Unquarantine, Blobs!Delete, Types
  <2> QED BY <2>1, <2>2, ApartStays DEF Owns, Temporary
<1>6. ASSUME Blobs!WritePermanent \/ Blobs!ModFails \/ Blobs!DeleteAll PROVE Apart'
  <2>1. UNCHANGED up /\ temp' \in {temp, Nothing}
    BY <1>6 DEF Blobs!WritePermanent, Blobs!ModFails, Blobs!DeleteAll, Blobs!dirs
  <2>2. \A i \in Inode, d \in Cid : i \in {stored'[d], quar'[d]} => i \in {stored[d], quar[d]}
    BY <1>0, <1>6 DEF Blobs!WritePermanent, Blobs!ModFails, Blobs!DeleteAll, Blobs!dirs
  <2>3. mod'.pc = "write" => mod.pc = "write" /\ mod'.blob = mod.blob /\ mod'.dst = mod.dst
    BY <1>6 DEF Blobs!WritePermanent, Blobs!ModFails, Blobs!DeleteAll, Types, Actor, Blobs!Idle
  <2> QED BY <1>0, <2>1, <2>2, <2>3, ApartStays DEF Owns, Temporary
<1>7. CASE UNCHANGED Blobs!vars
  BY <1>7, ApartStays DEF Blobs!vars, Blobs!dirs, Owns, Temporary
<1> QED BY <1>1, <1>2, <1>3, <1>4, <1>5, <1>6, <1>7 DEF Blobs!Next, Blobs!Upload, Blobs!Moderate

\* A step that leaves the bytes of the temporary files leaves what is known of them.
LEMMA UploadKept ==
  ASSUME Types, Places, Draft, Source, Blobs!BlobStoreAssumption,
         \A i \in Inode : Temporary(i) => data'[i] = data[i],
         UNCHANGED up, temp' \in {temp, Nothing}
  PROVE  Draft' /\ Source'
<1>0. Nothing \notin Inode
  BY DEF Blobs!BlobStoreAssumption
<1>1. up.pc = "temp" => up.dst \in Inode /\ data'[up.dst] = data[up.dst]
  BY DEF Types, Places, Actor, Temporary
<1>2. temp # Nothing => temp \in Inode /\ data'[temp] = data[temp]
  BY DEF Types, Temporary
<1>3. up.pc \in {"create", "copy"} => up.src \in Inode /\ data'[up.src] = data[up.src]
  BY DEF Types, Places, Actor, Temporary
<1>4. Draft'
  BY <1>1 DEF Draft
<1>5. Source'
  BY <1>0, <1>2, <1>3 DEF Source, Blobs!Whole
<1> QED BY <1>4, <1>5

\* Files that come under a cid are emptied by somebody who will write them.
LEMMA BytesOpened ==
  ASSUME Types, Apart, Bytes, Blobs!BlobStoreAssumption, NEW c \in Cid, NEW j \in Inode,
         Blobs!Open(stored[c], j), data' = Blobs!Emptied(j), stored' = [stored EXCEPT ![c] = j], UNCHANGED quar,
         \A k \in Blobs!Chunks : Pending(j, c, k)',
         \A i \in Inode, d \in Cid, k \in Blobs!Chunks : Pending(i, d, k) => Pending(i, d, k)'
  PROVE  Bytes' /\ \A i \in Inode : Temporary(i) => data'[i] = data[i]
<1>1. j = stored[c] \/ j \notin Blobs!InUse
  BY Opened, Used DEF Types
<1>2. \A i \in Inode : i \in Blobs!InUse /\ i # j => data'[i] = data[i]
  BY Opened, Used DEF Types
<1>3. ~Temporary(j) /\ \A d \in Cid : Owns(d, j) => d = c
  BY <1>1, Used DEF Apart, Owns, Temporary
<1>4. ASSUME NEW d \in Cid, NEW k \in Blobs!Chunks, NEW i \in {stored'[d], quar'[d]} \ {Nothing}
      PROVE  data'[i][k] = d \/ Pending(i, d, k)'
  <2>1. (i = j /\ d = c) \/ i \in {stored[d], quar[d]}
    BY DEF Types
  <2>2. CASE i = j
    <3>1. d = c
      BY <1>3, <2>1, <2>2 DEF Owns
    <3> QED BY <2>2, <3>1
  <2>3. CASE i # j
    <3>1. i \in {stored[d], quar[d]} \ {Nothing} /\ i \in Inode
      BY <2>1, <2>3 DEF Types
    <3>2. data'[i] = data[i]
      BY <1>2, <2>3, <3>1, Used
    <3>3. data[i][k] = d \/ Pending(i, d, k)
      BY <3>1 DEF Bytes
    <3> QED BY <3>1, <3>2, <3>3
  <2> QED BY <2>2, <2>3
<1>5. \A i \in Inode : Temporary(i) => data'[i] = data[i]
  BY <1>2, <1>3, Used DEF Temporary
<1> QED BY <1>4, <1>5 DEF Bytes

\* An actor writes the next chunk of his blob's file.
LEMMA BytesWritten ==
  ASSUME Types, Apart, Bytes, NEW c \in Cid, NEW j \in Inode, NEW at \in Blobs!Chunks,
         Owns(c, j), data' = Blobs!Written(j, at, c), UNCHANGED <<stored, quar>>,
         \A i \in Inode, d \in Cid, k \in Blobs!Chunks :
           Pending(i, d, k) => Pending(i, d, k)' \/ (i = j /\ d = c /\ k = at)
  PROVE  Bytes' /\ \A i \in Inode : Temporary(i) => data'[i] = data[i]
<1>1. /\ data'[j][at] = c /\ data' \in [Inode -> [Blobs!Chunks -> Cid \cup {Nothing}]]
      /\ \A i \in Inode, k \in Blobs!Chunks : i # j \/ k # at => data'[i][k] = data[i][k]
  BY Writing
<1>2. ASSUME NEW d \in Cid, NEW k \in Blobs!Chunks, NEW i \in {stored[d], quar[d]} \ {Nothing}
      PROVE  data'[i][k] = d \/ Pending(i, d, k)'
  <2>1. i \in Inode /\ Owns(d, i)
    BY DEF Types, Owns
  <2>2. data[i][k] = d \/ Pending(i, d, k)
    BY DEF Bytes
  <2>3. CASE i = j /\ k = at
    BY <1>1, <2>1, <2>3 DEF Apart
  <2>4. CASE i # j \/ k # at
    BY <1>1, <2>1, <2>2, <2>4
  <2> QED BY <2>3, <2>4
<1>3. ASSUME NEW i \in Inode, Temporary(i) PROVE data'[i] = data[i]
  <2>1. i # j
    BY <1>3 DEF Apart
  <2>2. data'[i] \in [Blobs!Chunks -> Cid \cup {Nothing}] /\ data[i] \in [Blobs!Chunks -> Cid \cup {Nothing}]
    BY <1>1 DEF Types
  <2> QED BY <1>1, <2>1, <2>2
<1> QED BY <1>2, <1>3 DEF Bytes

\* A step that leaves the bytes of all files and gives none a new cid.
LEMMA BytesKept ==
  ASSUME Types, Bytes,
         \A d \in Cid : {stored'[d], quar'[d]} \subseteq {stored[d], quar[d], Nothing},
         \A i \in Inode, d \in Cid : i \in {stored[d], quar[d]} => data'[i] = data[i],
         \A i \in Inode, d \in Cid, k \in Blobs!Chunks : Pending(i, d, k) => Pending(i, d, k)'
  PROVE  Bytes'
<1> SUFFICES ASSUME NEW d \in Cid, NEW k \in Blobs!Chunks, NEW i \in {stored'[d], quar'[d]} \ {Nothing}
             PROVE  data'[i][k] = d \/ Pending(i, d, k)'
  BY DEF Bytes
<1>1. i \in {stored[d], quar[d]} \ {Nothing}
  OBVIOUS
<1>2. i \in Inode /\ data'[i] = data[i]
  BY <1>1 DEF Types
<1>3. data[i][k] = d \/ Pending(i, d, k)
  BY <1>1 DEF Bytes
<1> QED BY <1>2, <1>3

\* The bytes, action by action, while no file fails.
LEMMA NextFilled ==
  ASSUME Blobs!BlobStoreAssumption, Types, Places, Apart, Filled, [Blobs!Next]_(Blobs!vars)
  PROVE  Filled'
<1> USE IdleActor
<1>0. Nothing \notin Cid /\ Nothing \notin Inode
  BY DEF Blobs!BlobStoreAssumption
<1> SUFFICES ASSUME ~broke' PROVE Bytes' /\ Draft' /\ Source'
  BY DEF Filled
<1>b. ~broke /\ (UNCHANGED Blobs!vars \/ Blobs!Upload \/ Blobs!Moderate)
  BY DEF Blobs!Next, Blobs!UpFails, Blobs!ModFails, Blobs!vars
<1>h. Bytes /\ Draft /\ Source
  BY <1>b DEF Filled
<1>1. ASSUME NEW c \in Cid, Blobs!PutTemp(c) PROVE Bytes' /\ Draft' /\ Source'
  <2>1. PICK j \in Inode : Blobs!Open(temp, j) /\ temp' = j /\ data' = Blobs!Emptied(j)
                           /\ up' = [Blobs!Idle EXCEPT !.pc = "temp", !.blob = c, !.dst = j]
    BY <1>1 DEF Blobs!PutTemp
  <2>2. up'.pc = "temp" /\ up'.at = 1 /\ UNCHANGED <<stored, quar, mod>> /\ up.pc = "idle"
    BY <1>1, <2>1 DEF Blobs!Idle, Blobs!PutTemp
  <2>3. j = temp \/ j \notin Blobs!InUse
    BY <2>1, Opened, Used DEF Types
  <2>4. \A i \in Inode : i \in Blobs!InUse /\ i # j => data'[i] = data[i]
    BY <2>1, Opened, Used DEF Types
  <2>5. \A d \in Cid : j \notin {stored[d], quar[d]}
    BY <2>3, Used DEF Apart, Owns, Temporary
  <2>6. \A i \in Inode, d \in Cid : i \in {stored[d], quar[d]} => data'[i] = data[i]
    BY <2>4, <2>5, Used
  <2>7. Bytes'
    BY <1>h, <2>2, <2>6, BytesKept DEF Pending
  <2>8. Draft' /\ Source'
    BY <2>2 DEF Draft, Source, Blobs!Chunks
  <2> QED BY <2>7, <2>8
<1>2. ASSUME Blobs!WriteTemp PROVE Bytes' /\ Draft' /\ Source'
  <2>1. up.pc = "temp" /\ up.dst \in Inode /\ up.blob \in Cid /\ up.at \in Nat \ {0} /\ temp \in {up.dst, Nothing}
    BY <1>2 DEF Blobs!WriteTemp, Types, Places, Actor
  <2>2. UNCHANGED <<stored, quar, temp, mod>>
    BY <1>2 DEF Blobs!WriteTemp, Blobs!dirs
  <2>3. CASE up.at \in Blobs!Chunks
    <3>1. data' = Blobs!Written(up.dst, up.at, up.blob)
          /\ up'.pc = "temp" /\ up'.at = up.at + 1 /\ up'.dst = up.dst /\ up'.blob = up.blob
      BY <1>2, <2>1, <2>3 DEF Blobs!WriteTemp, Types, Actor
    <3>2. /\ data'[up.dst][up.at] = up.blob /\ data' \in [Inode -> [Blobs!Chunks -> Cid \cup {Nothing}]]
          /\ \A i \in Inode, k \in Blobs!Chunks : i # up.dst \/ k # up.at => data'[i][k] = data[i][k]
      BY <2>1, <2>3, <3>1, Writing
    <3>3. ASSUME NEW i \in Inode, NEW d \in Cid, i \in {stored[d], quar[d]} PROVE data'[i] = data[i]
      <4>1. i # up.dst
        BY <2>1, <3>3 DEF Apart, Owns, Temporary
      <4>2. data'[i] \in [Blobs!Chunks -> Cid \cup {Nothing}] /\ data[i] \in [Blobs!Chunks -> Cid \cup {Nothing}]
        BY <3>2 DEF Types
      <4> QED BY <3>2, <4>1, <4>2
    <3>4. Bytes'
      BY <1>h, <2>1, <2>2, <3>1, <3>3, BytesKept DEF Pending
    <3>5. \A k \in Blobs!Chunks : k < up.at + 1 => data'[up.dst][k] = up.blob
      BY <1>h, <2>1, <3>2 DEF Draft, Blobs!Chunks
    <3> QED BY <3>1, <3>4, <3>5 DEF Draft, Source
  <2>4. CASE up.at \notin Blobs!Chunks
    <3>1. UNCHANGED data /\ up'.pc = "put" /\ up'.blob = up.blob
      BY <1>2, <2>4 DEF Blobs!WriteTemp, Blobs!Idle
    <3>2. Bytes'
      BY <1>h, <2>1, <2>2, <3>1, BytesKept DEF Pending
    <3>3. \A k \in Blobs!Chunks : data[up.dst][k] = up.blob
      BY <1>h, <2>1, <2>4 DEF Draft, Blobs!Chunks
    <3> QED BY <2>1, <2>2, <3>1, <3>2, <3>3 DEF Draft, Source, Blobs!Whole
  <2> QED BY <2>3, <2>4
<1>3. ASSUME Blobs!HasStored \/ Blobs!OpenTemp \/ Blobs!CreateFails \/ Blobs!RemoveTemp \/ Blobs!KeepTemp \/ Blobs!UpReturns
      PROVE  Bytes' /\ Draft' /\ Source'
  <2>1. UNCHANGED <<data, stored, quar, mod>> /\ temp' \in {temp, Nothing} /\ up.pc # "copy"
    BY <1>3 DEF Blobs!HasStored, Blobs!OpenTemp, Blobs!CreateFails, Blobs!RemoveTemp, Blobs!KeepTemp, Blobs!UpReturns, Blobs!dirs
  <2>2. Bytes'
    BY <1>h, <2>1, BytesKept DEF Pending
  <2>3. CASE Blobs!HasStored
    <3>1. up'.pc \in {"remove", "open"} /\ up'.blob = up.blob /\ UNCHANGED temp /\ up.pc = "put"
      BY <2>3 DEF Blobs!HasStored, Types, Actor
    <3> QED BY <1>h, <2>1, <2>2, <3>1 DEF Draft, Source, Blobs!Whole
  <2>4. CASE Blobs!OpenTemp
    <3>1. up'.pc = "idle" \/ (up'.pc = "create" /\ up'.blob = up.blob /\ up'.src = temp /\ temp # Nothing)
      BY <2>4 DEF Blobs!OpenTemp, Types, Actor
    <3>2. UNCHANGED temp /\ up.pc = "open"
      BY <2>4 DEF Blobs!OpenTemp, Blobs!dirs
    <3> QED BY <1>h, <2>1, <2>2, <3>1, <3>2 DEF Draft, Source, Blobs!Whole
  <2>5. CASE Blobs!CreateFails \/ Blobs!RemoveTemp \/ Blobs!KeepTemp \/ Blobs!UpReturns
    <3>1. up'.pc \in {"idle", "moved"}
      BY <2>5 DEF Blobs!CreateFails, Blobs!RemoveTemp, Blobs!KeepTemp, Blobs!UpReturns, Types, Actor
    <3> QED BY <2>2, <3>1 DEF Draft, Source
  <2> QED BY <1>3, <2>3, <2>4, <2>5
<1>4. ASSUME Blobs!CreateStored PROVE Bytes' /\ Draft' /\ Source'
  <2>1. PICK j \in Inode : /\ Blobs!Open(stored[up.blob], j)
                           /\ stored' = [stored EXCEPT ![up.blob] = j] /\ data' = Blobs!Emptied(j)
                           /\ up' = [up EXCEPT !.pc = "copy", !.dst = j]
    BY <1>4 DEF Blobs!CreateStored
  <2>2. /\ up'.pc = "copy" /\ up'.blob = up.blob /\ up'.src = up.src /\ up'.dst = j /\ up'.at = 1
        /\ UNCHANGED <<temp, quar, mod>> /\ up.pc = "create"
    BY <1>4, <2>1 DEF Blobs!CreateStored, Types, Places, Actor
  <2>3. PICK c \in Cid : c = up.blob
    BY <1>4 DEF Blobs!CreateStored, Places
  <2>4. /\ \A k \in Blobs!Chunks : Pending(j, c, k)'
        /\ \A i \in Inode, d \in Cid, k \in Blobs!Chunks : Pending(i, d, k) => Pending(i, d, k)'
    BY <2>2, <2>3 DEF Pending, Blobs!Chunks
  <2>5. Bytes' /\ \A i \in Inode : Temporary(i) => data'[i] = data[i]
    BY <1>h, <2>1, <2>2, <2>3, <2>4, BytesOpened
  <2>6. /\ temp # Nothing => temp \in Inode /\ data'[temp] = data[temp]
        /\ up.src \in Inode /\ data'[up.src] = data[up.src]
    BY <2>2, <2>5 DEF Types, Places, Actor, Temporary
  <2> QED BY <1>h, <2>2, <2>5, <2>6 DEF Draft, Source, Blobs!Whole
<1>5. ASSUME Blobs!CopyChunk PROVE Bytes' /\ Draft' /\ Source'
  <2>1. /\ up.pc = "copy" /\ up.dst \in Inode /\ up.src \in Inode /\ up.at \in Nat \ {0}
        /\ UNCHANGED <<stored, quar, temp, mod>>
    BY <1>5 DEF Blobs!CopyChunk, Types, Places, Actor, Blobs!dirs
  <2>2. PICK c \in Cid : c = up.blob
    BY <1>5 DEF Blobs!CopyChunk, Places
  <2>3. CASE up.at \in Blobs!Chunks
    <3>1. data[up.src][up.at] = c /\ c # Nothing
      BY <1>0, <1>h, <2>1, <2>2, <2>3 DEF Source, Blobs!Whole
    <3>2. /\ data' = Blobs!Written(up.dst, up.at, c)
          /\ up'.pc = "copy" /\ up'.at = up.at + 1 /\ up'.dst = up.dst /\ up'.src = up.src /\ up'.blob = c
      BY <1>5, <2>1, <2>2, <2>3, <3>1 DEF Blobs!CopyChunk, Types, Actor
    <3>3. Owns(c, up.dst)
      BY <2>1, <2>2 DEF Owns
    <3>4. \A i \in Inode, d \in Cid, k \in Blobs!Chunks :
            Pending(i, d, k) => Pending(i, d, k)' \/ (i = up.dst /\ d = c /\ k = up.at)
      BY <2>1, <2>2, <3>2 DEF Pending, Blobs!Chunks
    <3>5. PICK j \in Inode, at \in Blobs!Chunks : j = up.dst /\ at = up.at
      BY <2>1, <2>3
    <3>6. Bytes' /\ \A i \in Inode : Temporary(i) => data'[i] = data[i]
      BY <1>h, <2>1, <3>2, <3>3, <3>4, <3>5, BytesWritten
    <3>7. /\ temp # Nothing => temp \in Inode /\ data'[temp] = data[temp]
          /\ data'[up.src] = data[up.src]
      BY <2>1, <3>6 DEF Types, Temporary
    <3> QED BY <1>h, <2>1, <2>2, <3>2, <3>6, <3>7 DEF Draft, Source, Blobs!Whole
  <2>4. CASE up.at \notin Blobs!Chunks
    <3>1. up'.pc = "remove" /\ UNCHANGED data
      BY <1>5, <2>4 DEF Blobs!CopyChunk, Types, Actor
    <3>2. Bytes'
      BY <1>h, <2>1, <2>4, <3>1, BytesKept DEF Pending, Blobs!Chunks
    <3> QED BY <3>1, <3>2 DEF Draft, Source
  <2> QED BY <2>3, <2>4
<1>6. ASSUME NEW c \in Cid, Blobs!PutPermanent(c) PROVE Bytes' /\ Draft' /\ Source'
  <2>1. PICK j \in Inode : /\ Blobs!Open(stored[c], j)
                           /\ stored' = [stored EXCEPT ![c] = j] /\ data' = Blobs!Emptied(j)
                           /\ mod' = [Blobs!Idle EXCEPT !.pc = "write", !.blob = c, !.dst = j]
    BY <1>6 DEF Blobs!PutPermanent
  <2>2. mod'.pc = "write" /\ mod'.blob = c /\ mod'.dst = j /\ mod'.at = 1 /\ UNCHANGED <<temp, quar, up>> /\ mod.pc = "idle"
    BY <1>6, <2>1 DEF Blobs!PutPermanent, Blobs!Idle
  <2>3. /\ \A k \in Blobs!Chunks : Pending(j, c, k)'
        /\ \A i \in Inode, d \in Cid, k \in Blobs!Chunks : Pending(i, d, k) => Pending(i, d, k)'
    BY <2>2 DEF Pending, Blobs!Chunks
  <2>4. Bytes' /\ \A i \in Inode : Temporary(i) => data'[i] = data[i]
    BY <1>h, <2>1, <2>2, <2>3, BytesOpened
  <2> QED BY <1>h, <2>2, <2>4, UploadKept
<1>7. ASSUME Blobs!WritePermanent PROVE Bytes' /\ Draft' /\ Source'
  <2>1. mod.pc = "write" /\ mod.dst \in Inode /\ mod.at \in Nat \ {0} /\ UNCHANGED <<stored, quar, temp, up>>
    BY <1>7 DEF Blobs!WritePermanent, Types, Places, Actor, Blobs!dirs
  <2>2. PICK c \in Cid : c = mod.blob
    BY <1>7 DEF Blobs!WritePermanent, Places
  <2>3. CASE mod.at \in Blobs!Chunks
    <3>1. /\ data' = Blobs!Written(mod.dst, mod.at, c)
          /\ mod'.pc = "write" /\ mod'.at = mod.at + 1 /\ mod'.dst = mod.dst /\ mod'.blob = c
      BY <1>7, <2>1, <2>2, <2>3 DEF Blobs!WritePermanent, Types, Actor
    <3>2. Owns(c, mod.dst)
      BY <2>1, <2>2 DEF Owns
    <3>3. \A i \in Inode, d \in Cid, k \in Blobs!Chunks :
            Pending(i, d, k) => Pending(i, d, k)' \/ (i = mod.dst /\ d = c /\ k = mod.at)
      BY <2>1, <2>2, <3>1 DEF Pending, Blobs!Chunks
    <3>4. PICK j \in Inode, at \in Blobs!Chunks : j = mod.dst /\ at = mod.at
      BY <2>1, <2>3
    <3>5. Bytes' /\ \A i \in Inode : Temporary(i) => data'[i] = data[i]
      BY <1>h, <2>1, <3>1, <3>2, <3>3, <3>4, BytesWritten
    <3> QED BY <1>h, <2>1, <3>5, UploadKept
  <2>4. CASE mod.at \notin Blobs!Chunks
    <3>1. mod'.pc = "idle" /\ UNCHANGED data
      BY <1>7, <2>4 DEF Blobs!WritePermanent
    <3>2. Bytes'
      BY <1>h, <2>1, <2>4, <3>1, BytesKept DEF Pending, Blobs!Chunks
    <3> QED BY <1>h, <2>1, <3>1, <3>2, UploadKept
  <2> QED BY <2>3, <2>4
<1>8. ASSUME NEW c \in Cid, Blobs!Quarantine(c) \/ Blobs!Unquarantine(c) \/ Blobs!Delete(c) PROVE Bytes' /\ Draft' /\ Source'
  <2>1. UNCHANGED <<data, temp, up, mod>>
    BY <1>8 DEF Blobs!Quarantine, Blobs!Unquarantine, Blobs!Delete
  <2>2. \A d \in Cid : {stored'[d], quar'[d]} \subseteq {stored[d], quar[d], Nothing}
    BY <1>8 DEF Blobs!Quarantine, Blobs!Unquarantine, Blobs!Delete, Types
  <2>3. Bytes'
    BY <1>h, <2>1, <2>2, BytesKept DEF Pending
  <2> QED BY <1>h, <2>1, <2>3, UploadKept
<1>9. ASSUME Blobs!DeleteAll PROVE Bytes' /\ Draft' /\ Source'
  <2>1. UNCHANGED <<data, up>> /\ temp' \in {temp, Nothing} /\ mod.pc # "write"
    BY <1>9 DEF Blobs!DeleteAll
  <2>2. \A d \in Cid : {stored'[d], quar'[d]} \subseteq {stored[d], quar[d], Nothing}
    BY <1>9 DEF Blobs!DeleteAll, Types
  <2>3. Bytes'
    BY <1>h, <2>1, <2>2, BytesKept DEF Pending
  <2> QED BY <1>h, <2>1, <2>3, UploadKept
<1>10. CASE UNCHANGED Blobs!vars
  BY <1>h, <1>10 DEF Blobs!vars, Blobs!dirs, Bytes, Draft, Source, Pending, Blobs!Whole
<1> QED BY <1>b, <1>1, <1>2, <1>3, <1>4, <1>5, <1>6, <1>7, <1>8, <1>9, <1>10 DEF Blobs!Upload, Blobs!Moderate

\* The inductive invariant of the blob files.
THEOREM BlobInvariance == ASSUME Blobs!BlobStoreAssumption PROVE Blobs!Spec => []BlobInv
<1>1. Blobs!Init => BlobInv
  <2> SUFFICES ASSUME Blobs!Init PROVE BlobInv
    OBVIOUS
  <2>1. Types /\ Places
    BY IdleActor DEF Blobs!Init, Types, Places
  <2>2. Apart
    BY IdleActor DEF Blobs!Init, Apart, Owns, Blobs!BlobStoreAssumption
  <2>3. Filled
    BY IdleActor DEF Blobs!Init, Filled, Bytes, Draft, Source
  <2> QED BY <2>1, <2>2, <2>3 DEF BlobInv
<1>2. BlobInv /\ [Blobs!Next]_(Blobs!vars) => BlobInv'
  BY NextTypes, NextApart, NextFilled DEF BlobInv
<1> QED BY <1>1, <1>2, PTL DEF Blobs!Spec

\* Until a read or write of a file fails, a blob that neither copyFile nor
\* PutPermanent is writing (internal/repo/blobstore.go) is whole wherever it stands.
THEOREM BlobsWhole == ASSUME Blobs!BlobStoreAssumption PROVE Blobs!Spec => []WholeWhenQuiet
<1>1. BlobInv => WholeWhenQuiet
  BY DEF BlobInv, Types, Filled, Bytes, Pending, Blobs!Whole, WholeWhenQuiet, Blobs!WholeWhenQuiet
<1> QED BY <1>1, BlobInvariance, PTL

-----------------------------------------------------------------------------
(* Repository *)

Write == [action : {"Create", "Update", "Delete"}, key : Key, value : Value]
Trees == UNION {[D -> Value] : D \in SUBSET Key}

\* The records of a tree are in the store.
Kept(tree, store) == \A k \in DOMAIN tree : Repo!Leaf(tree[k]) \in store

\* The tree that is open has its records in the store, and a commit there its tree
\* and its records too.
RepoInv ==
  /\ repo \in [tree : Trees, data : Trees \cup {Undef}, dirty : BOOLEAN]
  /\ tid \in Nat
  /\ Kept(repo.tree, blocks)
  /\ \A c \in blocks : c.kind = "commit" =>
       c.tree \in Trees /\ Repo!Node(c.tree) \in blocks /\ Kept(c.tree, blocks)

\* What a write that is not refused makes of a tree: a tree whose records are the
\* old ones and the one it was given.
LEMMA Applied ==
  ASSUME NEW tree \in Trees, NEW w \in Write, Repo!Apply(tree, w) # Undef
  PROVE  /\ Repo!Apply(tree, w) \in Trees
         /\ \A k \in DOMAIN Repo!Apply(tree, w) :
              \/ k \in DOMAIN tree /\ Repo!Apply(tree, w)[k] = tree[k]
              \/ w.action # "Delete" /\ Repo!Apply(tree, w)[k] = w.value
<1>1. PICK D \in SUBSET Key : tree \in [D -> Value]
  BY DEF Trees
<1>2. w.key \in Key /\ w.value \in Value
  BY DEF Write
<1>3. CASE w.action = "Delete"
  <2>1. Repo!Apply(tree, w) = [k \in D \ {w.key} |-> tree[k]]
    BY <1>1, <1>3 DEF Repo!Apply
  <2>2. Repo!Apply(tree, w) \in [D \ {w.key} -> Value]
    BY <1>1, <2>1
  <2> QED BY <1>1, <2>1, <2>2 DEF Trees
<1>4. CASE w.action # "Delete"
  <2>1. Repo!Apply(tree, w) = [k \in D \cup {w.key} |-> IF k = w.key THEN w.value ELSE tree[k]]
    BY <1>1, <1>4 DEF Repo!Apply
  <2>2. Repo!Apply(tree, w) \in [D \cup {w.key} -> Value]
    BY <1>1, <1>2, <2>1
  <2> QED BY <1>1, <1>2, <1>4, <2>1, <2>2 DEF Trees
<1> QED BY <1>3, <1>4

\* The store only grows; a write adds records.
LEMMA StoreGrows ==
  ASSUME RepoInv, NEW leaves, \A c \in leaves : c.kind = "leaf", blocks' = blocks \cup leaves,
         NEW tree \in Trees, Repo!SetTree(tree), Kept(tree, blocks'), UNCHANGED tid
  PROVE  RepoInv'
<1>1. repo' \in [tree : Trees, data : Trees \cup {Undef}, dirty : BOOLEAN] /\ repo'.tree = tree
  BY DEF RepoInv, Repo!SetTree
<1>2. tid' \in Nat
  BY DEF RepoInv
<1>3. \A c \in blocks' : c.kind = "commit" =>
        c.tree \in Trees /\ Repo!Node(c.tree) \in blocks' /\ Kept(c.tree, blocks')
  BY DEF RepoInv, Kept
<1> QED BY <1>1, <1>2, <1>3 DEF RepoInv

\* A record that is created, updated or deleted leaves no dangling link, failed or not.
LEMMA RecordKeeps == ASSUME RepoInv, NEW w \in Write, Repo!Record(w) PROVE RepoInv'
<1>1. \A c \in Repo!Leaves(<<w>>, 1) : c.kind = "leaf"
  BY DEF Repo!Leaves, Repo!Leaf
<1>3. repo.tree \in Trees /\ Kept(repo.tree, blocks)
  BY DEF RepoInv
<1>4. CASE ~Repo!Refused(w) /\ blocks' = blocks \cup Repo!Leaves(<<w>>, 1) /\ Repo!SetTree(Repo!Apply(repo.tree, w)) /\ UNCHANGED tid
  <2>1. Repo!Apply(repo.tree, w) # Undef
    BY <1>4 DEF Repo!Refused
  <2>2. w.action # "Delete" => Repo!Leaf(w.value) \in Repo!Leaves(<<w>>, 1)
    <3>1. <<w>>[1] = w /\ 1 \in 1..1
      OBVIOUS
    <3> QED BY <3>1 DEF Repo!Leaves
  <2>3. Kept(Repo!Apply(repo.tree, w), blocks')
    BY <1>3, <1>4, <2>1, <2>2, Applied DEF Kept
  <2> QED BY <1>1, <1>3, <1>4, <2>1, <2>3, Applied, StoreGrows
<1>5. CASE blocks' \in {blocks, blocks \cup Repo!Leaves(<<w>>, 1)} /\ Repo!SetTree(repo.tree) /\ UNCHANGED tid
  <2>1. Kept(repo.tree, blocks')
    BY <1>3, <1>5 DEF Kept
  <2>2. PICK new \in {{}, Repo!Leaves(<<w>>, 1)} : blocks' = blocks \cup new
    BY <1>5
  <2>3. \A c \in new : c.kind = "leaf"
    BY <1>1, <2>2
  <2> QED BY <1>3, <1>5, <2>1, <2>2, <2>3, StoreGrows
<1> QED BY <1>4, <1>5 DEF Repo!Record

\* Only the record of the last write is in the tree that stays, and it is stored.
LEMMA WritesKeep == ASSUME RepoInv, NEW batch \in Seq(Write), Repo!ApplyWrites(batch) PROVE RepoInv'
<1>1. PICK n \in 0..Len(batch) :
        /\ \A i \in 1..n : ~Repo!Refused(batch[i])
        /\ Repo!SetTree(IF n = 0 THEN repo.tree ELSE Repo!Apply(repo.tree, batch[n]))
        /\ \E m \in {n, n + 1} : m <= Len(batch) /\ blocks' = blocks \cup Repo!Leaves(batch, m)
  BY DEF Repo!ApplyWrites
<1>2. PICK m \in {n, n + 1} : m <= Len(batch) /\ blocks' = blocks \cup Repo!Leaves(batch, m)
  BY <1>1
<1>3. repo.tree \in Trees /\ Kept(repo.tree, blocks) /\ UNCHANGED tid
  BY DEF RepoInv, Repo!ApplyWrites
<1>4. \A c \in Repo!Leaves(batch, m) : c.kind = "leaf"
  BY DEF Repo!Leaves, Repo!Leaf
<1>5. CASE n = 0
  <2>1. Repo!SetTree(repo.tree) /\ Kept(repo.tree, blocks')
    BY <1>1, <1>2, <1>3, <1>5 DEF Kept
  <2> QED BY <1>2, <1>3, <1>4, <2>1, StoreGrows
<1>6. CASE n # 0
  <2>1. Len(batch) \in Nat /\ n \in 1..Len(batch) /\ n \in 1..n /\ n \in 1..m
    BY <1>2, <1>6
  <2>2. batch[n] \in Write
    BY <2>1
  <2>3. Repo!SetTree(Repo!Apply(repo.tree, batch[n])) /\ Repo!Apply(repo.tree, batch[n]) # Undef
    BY <1>1, <1>6, <2>1 DEF Repo!Refused
  <2>4. batch[n].action # "Delete" => Repo!Leaf(batch[n].value) \in Repo!Leaves(batch, m)
    BY <2>1 DEF Repo!Leaves
  <2>5. Kept(Repo!Apply(repo.tree, batch[n]), blocks')
    BY <1>2, <1>3, <2>2, <2>3, <2>4, Applied DEF Kept
  <2> QED BY <1>2, <1>3, <1>4, <2>2, <2>3, <2>5, Applied, StoreGrows
<1> QED BY <1>5, <1>6

\* A commit is stored after the nodes of its tree, whose records are there.
LEMMA CommitKeeps == ASSUME RepoInv, Repo!MakeCommit \/ \E b \in Edits : Repo!FormatCommit(b) PROVE RepoInv'
<1>1. repo.tree \in Trees /\ tid \in Nat /\ Kept(repo.tree, blocks)
  BY DEF RepoInv
<1>2. /\ \A t : Repo!Node(t).kind = "node"
      /\ \A t, n : Repo!Commit(t, n).kind = "commit" /\ Repo!Commit(t, n).tree = t
  BY DEF Repo!Node, Repo!Commit
<1>3. ASSUME NEW t, blocks' = blocks \cup {Repo!Node(t)}, tid' = tid + 1, UNCHANGED repo PROVE RepoInv'
  <2>1. \A c \in blocks' : c.kind = "commit" =>
          c.tree \in Trees /\ Repo!Node(c.tree) \in blocks' /\ Kept(c.tree, blocks')
    BY <1>2, <1>3 DEF RepoInv, Kept
  <2>2. Kept(repo'.tree, blocks') /\ tid' \in Nat
    BY <1>1, <1>3 DEF Kept
  <2> QED BY <1>3, <2>1, <2>2 DEF RepoInv
<1>4. CASE UNCHANGED <<blocks, repo, tid>>
  BY <1>4 DEF RepoInv
<1>5. CASE /\ blocks' = blocks \cup {Repo!Node(repo.tree), Repo!Commit(repo.tree, tid + 1)}
           /\ repo' = [repo EXCEPT !.data = repo.tree, !.dirty = FALSE]
           /\ tid' = tid + 1
  <2>1. \A c \in blocks' : c.kind = "commit" =>
          c.tree \in Trees /\ Repo!Node(c.tree) \in blocks' /\ Kept(c.tree, blocks')
    BY <1>1, <1>2, <1>5 DEF RepoInv, Kept
  <2>2. repo' \in [tree : Trees, data : Trees \cup {Undef}, dirty : BOOLEAN] /\ repo'.tree = repo.tree
    BY <1>1, <1>5 DEF RepoInv
  <2>3. Kept(repo'.tree, blocks') /\ tid' \in Nat
    BY <1>1, <1>5, <2>2 DEF Kept
  <2> QED BY <2>1, <2>2, <2>3 DEF RepoInv
<1> QED BY <1>3, <1>4, <1>5 DEF Repo!MakeCommit, Repo!FormatCommit

\* Every operation on the store of blocks keeps the invariant.
LEMMA NextRepo == ASSUME Repo!RepositoryAssumption, RepoInv, [Repo!Next]_(Repo!vars) PROVE RepoInv'
<1>1. ASSUME NEW a \in {"Create", "Update", "Delete"}, NEW k \in Key, NEW v \in Value,
             Repo!Record([action |-> a, key |-> k, value |-> v])
      PROVE  RepoInv'
  <2>1. [action |-> a, key |-> k, value |-> v] \in Write
    BY DEF Write
  <2> QED BY <1>1, <2>1, RecordKeeps
<1>2. ASSUME NEW b \in Edits, Repo!ApplyWrites(b) PROVE RepoInv'
  <2>1. b \in Seq(Write)
    BY DEF Repo!RepositoryAssumption, Write
  <2> QED BY <1>2, <2>1, WritesKeep
<1>3. CASE Repo!MakeCommit \/ \E b \in Edits : Repo!FormatCommit(b)
  BY <1>3, CommitKeeps
<1>4. ASSUME NEW c \in blocks, Repo!Load(c) PROVE RepoInv'
  <2>1. repo' = [tree |-> Repo!EmptyTree, data |-> c.tree, dirty |-> FALSE] /\ c.tree \in Trees /\ UNCHANGED <<blocks, tid>>
    BY <1>4 DEF Repo!Load, RepoInv
  <2>2. Repo!EmptyTree \in Trees /\ Kept(Repo!EmptyTree, blocks)
    <3>1. DOMAIN Repo!EmptyTree = {} /\ Repo!EmptyTree \in [{} -> Value]
      BY DEF Repo!EmptyTree
    <3> QED BY <3>1 DEF Trees, Kept
  <2> QED BY <2>1, <2>2 DEF RepoInv
<1>5. CASE UNCHANGED Repo!vars
  BY <1>5 DEF Repo!vars, RepoInv
<1> QED BY <1>1, <1>2, <1>3, <1>4, <1>5 DEF Repo!Next

\* The inductive invariant holds in every state of a repository.
THEOREM RepoInvariance == ASSUME Repo!RepositoryAssumption PROVE Repo!Spec => []RepoInv
<1>1. Repo!Init => RepoInv
  <2>1. Repo!EmptyTree \in Trees /\ DOMAIN Repo!EmptyTree = {}
    <3>1. DOMAIN Repo!EmptyTree = {} /\ Repo!EmptyTree \in [{} -> Value]
      BY DEF Repo!EmptyTree
    <3> QED BY <3>1 DEF Trees
  <2> QED BY <2>1 DEF Repo!Init, Repo!New, RepoInv, Kept
<1>2. RepoInv /\ [Repo!Next]_(Repo!vars) => RepoInv'
  BY NextRepo
<1> QED BY <1>1, <1>2, PTL DEF Repo!Spec

\* Whatever the store or the signer refuses half way (internal/repo/repo.go), no key
\* of the open tree lacks its record and no stored commit its tree or its records.
THEOREM TreesWhole == ASSUME Repo!RepositoryAssumption PROVE Repo!Spec => []NothingDangles
<1>1. RepoInv => NothingDangles
  <2> SUFFICES ASSUME RepoInv PROVE NothingDangles
    OBVIOUS
  <2>1. ASSUME NEW k \in DOMAIN repo.tree PROVE Repo!GetRecord(k) # Undef
    <3>1. PICK D \in SUBSET Key : repo.tree \in [D -> Value]
      BY DEF RepoInv, Trees
    <3>2. repo.tree[k] \in Value /\ Repo!Leaf(repo.tree[k]) \in blocks
      BY <2>1, <3>1 DEF RepoInv, Kept
    <3> QED BY <3>2 DEF Repo!GetRecord, Repo!RepositoryAssumption
  <2> QED BY <2>1 DEF RepoInv, Kept, NothingDangles, Repo!NothingDangles
<1> QED BY <1>1, RepoInvariance, PTL

-----------------------------------------------------------------------------
(* PreparedWrites *)

PartsFor(a) == IF a = "Delete" THEN Writes!Removal ELSE Writes!Full

\* A write has no part, or one.
IsWrite(v) == v = Writes!None \/ \E a \in Writes!Action : \E p \in PartsFor(a) : v = [Writes!None EXCEPT ![a] = p]

\* Which part a write with one part has.
LEMMA OnePart ==
  ASSUME Writes!PreparedWritesAssumption, NEW a \in Writes!Action, NEW p \in PartsFor(a), NEW v,
         v = [Writes!None EXCEPT ![a] = p]
  PROVE  /\ Writes!Part(v) = a /\ a # NoValue /\ v[a] = p
         /\ \A x : [v EXCEPT ![a] = x] = [Writes!None EXCEPT ![a] = x]
<1>1. p # NoValue /\ a # NoValue
  BY DEF PartsFor, Writes!PreparedWritesAssumption
<1>2. \A b \in Writes!Action : v[b] = IF b = a THEN p ELSE NoValue
  BY DEF Writes!None
<1>3. v["Create"] = (IF "Create" = a THEN p ELSE NoValue) /\ v["Update"] = (IF "Update" = a THEN p ELSE NoValue)
      /\ v["Delete"] = (IF "Delete" = a THEN p ELSE NoValue)
  BY <1>2 DEF Writes!Action
<1>4. Writes!Part(v) = a
  BY <1>1, <1>3 DEF Writes!Part, Writes!Action
<1>5. ASSUME NEW x PROVE [v EXCEPT ![a] = x] = [Writes!None EXCEPT ![a] = x]
  BY DEF Writes!None
<1> QED BY <1>1, <1>2, <1>4, <1>5

\* A write without a part.
LEMMA NoPart ==
  ASSUME Writes!PreparedWritesAssumption PROVE Writes!Part(Writes!None) = NoValue
BY DEF Writes!Part, Writes!None, Writes!Action

\* All makes the fields of any part, and PartOf cuts them down to the action's.
LEMMA Fields ==
  ASSUME NEW a \in Writes!Action, NEW b \in Writes!Action, NEW u \in WriteUri, NEW r \in Record \cup {NoValue},
         NEW c \in WriteCid \cup {NoValue}, NEW s \in WriteCid \cup {NoValue}
  PROVE  Writes!All(b, u, r, c, s) \in Writes!Full /\ Writes!PartOf(a, Writes!All(b, u, r, c, s)) \in PartsFor(a)
<1>1. Writes!All(b, u, r, c, s) \in Writes!Full
  BY DEF Writes!All, Writes!Full
<1>2. CASE a = "Delete"
  <2>1. Writes!PartOf(a, Writes!All(b, u, r, c, s)) = [f \in {"action", "uri", "swap"} |-> Writes!All(b, u, r, c, s)[f]]
    BY <1>2 DEF Writes!PartOf
  <2>2. [f \in {"action", "uri", "swap"} |-> Writes!All(b, u, r, c, s)[f]] = [action |-> b, uri |-> u, swap |-> s]
    BY DEF Writes!All
  <2> QED BY <1>1, <1>2, <2>1, <2>2 DEF PartsFor, Writes!Removal
<1>3. CASE a # "Delete"
  <2>1. Writes!PartOf(a, Writes!All(b, u, r, c, s))
          = [f \in DOMAIN Writes!All(b, u, r, c, s) |-> Writes!All(b, u, r, c, s)[f]]
    BY <1>3 DEF Writes!PartOf
  <2>2. @ = Writes!All(b, u, r, c, s)
    BY DEF Writes!All
  <2> QED BY <1>1, <1>3, <2>1, <2>2 DEF PartsFor
<1> QED BY <1>2, <1>3

\* PartOf of a part's own fields, with what is missing filled in, is the part.
LEMMA ReadBack ==
  ASSUME Writes!PreparedWritesAssumption, NEW a \in Writes!Action, NEW p \in Writes!Full \cup Writes!Removal
  PROVE  /\ Writes!Read(a, p) # NoValue => \E x \in PartsFor(a) : Writes!Read(a, p) = [Writes!None EXCEPT ![a] = x]
         /\ p \in PartsFor(a) /\ ~Writes!NoCid(p) => Writes!Read(a, p) = [Writes!None EXCEPT ![a] = p]
<1> DEFINE all == [f \in DOMAIN Writes!All(0, 0, 0, 0, 0) |-> IF f \in DOMAIN p THEN p[f] ELSE NoValue]
           whole == Writes!All(p.action, p.uri, IF "record" \in DOMAIN p THEN p.record ELSE NoValue,
                               IF "cid" \in DOMAIN p THEN p.cid ELSE NoValue, p.swap)
<1>1. all = whole
  BY DEF Writes!All, Writes!Full, Writes!Removal
<1>2. Writes!PartOf(a, whole) \in PartsFor(a)
  <2>1. p.action \in Writes!Action /\ p.uri \in WriteUri /\ p.swap \in WriteCid \cup {NoValue}
    BY DEF Writes!Full, Writes!Removal
  <2>2. (IF "record" \in DOMAIN p THEN p.record ELSE NoValue) \in Record \cup {NoValue}
    BY DEF Writes!Full, Writes!Removal
  <2>3. (IF "cid" \in DOMAIN p THEN p.cid ELSE NoValue) \in WriteCid \cup {NoValue}
    BY DEF Writes!Full, Writes!Removal
  <2> QED BY <2>1, <2>2, <2>3, Fields
<1>3. Writes!Read(a, p) = IF a # "Delete" /\ Writes!NoCid(p) THEN NoValue ELSE [Writes!None EXCEPT ![a] = Writes!PartOf(a, whole)]
  BY <1>1 DEF Writes!Read
<1>4. ASSUME p \in PartsFor(a) PROVE Writes!PartOf(a, whole) = p
  <2>1. CASE a = "Delete"
    <3>1. p \in Writes!Removal
      BY <1>4, <2>1 DEF PartsFor
    <3>2. Writes!PartOf(a, whole) = [f \in {"action", "uri", "swap"} |-> whole[f]]
      BY <2>1 DEF Writes!PartOf
    <3>3. @ = p
      BY <3>1 DEF Writes!Removal, Writes!All
    <3> QED BY <3>2, <3>3
  <2>2. CASE a # "Delete"
    <3>1. p \in Writes!Full
      BY <1>4, <2>2 DEF PartsFor
    <3>2. Writes!PartOf(a, whole) = [f \in DOMAIN whole |-> whole[f]]
      BY <2>2 DEF Writes!PartOf
    <3>3. @ = p
      BY <3>1 DEF Writes!Full, Writes!All
    <3> QED BY <3>2, <3>3
  <2> QED BY <2>1, <2>2
<1> HIDE DEF all, whole
<1> QED BY <1>2, <1>3, <1>4

\* A setter changes one field of the part, if the part has it.
LEMMA SetKeeps ==
  ASSUME Writes!PreparedWritesAssumption, NEW v, IsWrite(v),
         NEW f \in Writes!Fields, NEW x \in Writes!Values(f)
  PROVE  IsWrite(Writes!Set(v, f, x))
<1>1. CASE ~Writes!Has(v, f)
  BY <1>1 DEF Writes!Set
<1>2. CASE Writes!Has(v, f)
  <2>1. v # Writes!None
    BY <1>2, NoPart DEF Writes!Has
  <2>2. PICK a \in Writes!Action : \E p \in PartsFor(a) : v = [Writes!None EXCEPT ![a] = p]
    BY <2>1 DEF IsWrite
  <2>3. PICK p \in PartsFor(a) : v = [Writes!None EXCEPT ![a] = p]
    BY <2>2
  <2>4. Writes!Part(v) = a /\ v[a] = p /\ \A y : [v EXCEPT ![a] = y] = [Writes!None EXCEPT ![a] = y]
    BY <2>3, OnePart
  <2>5. f \in DOMAIN p
    BY <1>2, <2>4 DEF Writes!Has
  <2>6. [p EXCEPT ![f] = x] \in PartsFor(a)
    <3>1. (f = "action" /\ x \in Writes!Action) \/ (f = "uri" /\ x \in WriteUri) \/ (f = "record" /\ x \in Record)
          \/ (f = "cid" /\ x \in WriteCid \cup {NoValue})
      BY DEF Writes!Fields, Writes!Values
    <3>2. CASE a = "Delete"
      <4>1. p \in Writes!Removal
        BY <3>2 DEF PartsFor
      <4>2. [p EXCEPT ![f] = x] \in Writes!Removal
        BY <2>5, <3>1, <4>1 DEF Writes!Removal
      <4> QED BY <3>2, <4>2 DEF PartsFor
    <3>3. CASE a # "Delete"
      <4>1. p \in Writes!Full
        BY <3>3 DEF PartsFor
      <4>2. [p EXCEPT ![f] = x] \in Writes!Full
        BY <3>1, <4>1 DEF Writes!Full
      <4> QED BY <3>3, <4>2 DEF PartsFor
    <3> QED BY <3>2, <3>3
  <2>7. Writes!Set(v, f, x) = [Writes!None EXCEPT ![a] = [p EXCEPT ![f] = x]]
    BY <1>2, <2>4 DEF Writes!Set
  <2> QED BY <2>6, <2>7 DEF IsWrite
<1> QED BY <1>1, <1>2

\* The part of a write that has one.
LEMMA PartOfWrite ==
  ASSUME Writes!PreparedWritesAssumption, NEW v, IsWrite(v), Writes!Part(v) # NoValue
  PROVE  /\ Writes!Part(v) \in Writes!Action /\ v[Writes!Part(v)] \in PartsFor(Writes!Part(v))
         /\ v[Writes!Part(v)] # NoValue
         /\ v = [Writes!None EXCEPT ![Writes!Part(v)] = v[Writes!Part(v)]]
         /\ \A x : [v EXCEPT ![Writes!Part(v)] = x] = [Writes!None EXCEPT ![Writes!Part(v)] = x]
<1>1. v # Writes!None
  BY NoPart
<1>2. PICK a \in Writes!Action : \E p \in PartsFor(a) : v = [Writes!None EXCEPT ![a] = p]
  BY <1>1 DEF IsWrite
<1>3. PICK p \in PartsFor(a) : v = [Writes!None EXCEPT ![a] = p]
  BY <1>2
<1>4. Writes!Part(v) = a /\ v[a] = p /\ \A x : [v EXCEPT ![a] = x] = [Writes!None EXCEPT ![a] = x]
  BY <1>3, OnePart
<1>5. p # NoValue
  BY DEF PartsFor, Writes!PreparedWritesAssumption
<1> QED BY <1>3, <1>4, <1>5

\* Every call leaves a write with one part at most.
LEMMA NextWrite == ASSUME Writes!PreparedWritesAssumption, IsWrite(write), [Writes!Next]_write PROVE IsWrite(write)'
<1> SUFFICES IsWrite(write')
  BY DEF IsWrite
<1>1. ASSUME NEW a \in Writes!Action, NEW u \in WriteUri, NEW r \in Record \ {Odd}, NEW s \in WriteCid \cup {NoValue},
             write' = Writes!PrepareWrite(a, u, r, s)
      PROVE  IsWrite(write')
  <2>1. CidOf(r) \in WriteCid
    BY DEF Writes!PreparedWritesAssumption
  <2>2. Writes!PartOf(a, Writes!All(a, u, r, CidOf(r), s)) \in PartsFor(a)
    BY <2>1, Fields
  <2> QED BY <1>1, <2>2 DEF IsWrite, Writes!PrepareWrite
<1>2. CASE Writes!Part(write) # NoValue /\ write' = Writes!PrepWrite(Writes!Part(write), write[Writes!Part(write)])
  <2> DEFINE a == Writes!Part(write)
             p == write[a]
  <2>1. a \in Writes!Action /\ p \in PartsFor(a)
    BY <1>2, PartOfWrite
  <2>2. write' = Writes!PrepWrite(a, p)
    BY <1>2
  <2> HIDE DEF a, p
  <2>3. CASE a = "Delete"
    <3>1. p.uri \in WriteUri /\ p.swap \in WriteCid \cup {NoValue}
      BY <2>1, <2>3 DEF PartsFor, Writes!Removal
    <3>2. Writes!All("Update", p.uri, NoValue, NoValue, p.swap) \in Writes!Full
      BY <3>1, Fields DEF Writes!Action
    <3>3. write' = [Writes!None EXCEPT !["Update"] = Writes!All("Update", p.uri, NoValue, NoValue, p.swap)]
      BY <2>2, <2>3 DEF Writes!PrepWrite
    <3> QED BY <3>2, <3>3 DEF IsWrite, PartsFor, Writes!Action
  <2>4. CASE a # "Delete"
    <3>1. [p EXCEPT !.action = a] \in PartsFor(a)
      BY <2>1, <2>4 DEF PartsFor, Writes!Full
    <3>2. write' = [Writes!None EXCEPT ![a] = [p EXCEPT !.action = a]]
      BY <2>2, <2>4 DEF Writes!PrepWrite
    <3> QED BY <2>1, <3>1, <3>2 DEF IsWrite
  <2> QED BY <2>3, <2>4
<1>3. ASSUME NEW f \in Writes!Fields, NEW x \in UNION {Writes!Values(g) : g \in Writes!Fields}, x \in Writes!Values(f),
             write' = Writes!Set(write, f, x)
      PROVE  IsWrite(write')
  BY <1>3, SetKeeps
<1>4. ASSUME NEW a \in Writes!Action, NEW u \in WriteUri, NEW r \in Record, NEW c \in WriteCid,
             write' = Writes!SetInfo(write, Writes!All(a, u, r, c, NoValue))
      PROVE  IsWrite(write')
  <2>1. CASE Writes!Part(write) = NoValue
    BY <1>4, <2>1 DEF Writes!SetInfo
  <2>2. CASE Writes!Part(write) # NoValue
    <3>1. Writes!Part(write) \in Writes!Action
          /\ \A x : [write EXCEPT ![Writes!Part(write)] = x] = [Writes!None EXCEPT ![Writes!Part(write)] = x]
      BY <2>2, PartOfWrite
    <3>2. Writes!PartOf(Writes!Part(write), Writes!All(a, u, r, c, NoValue)) \in PartsFor(Writes!Part(write))
      BY <3>1, Fields
    <3> QED BY <1>4, <2>2, <3>1, <3>2 DEF IsWrite, Writes!SetInfo
  <2> QED BY <2>1, <2>2
<1>5. CASE write' = Writes!DeriveCID(write)
  <2>1. CASE write' = write
    BY <2>1
  <2>2. CASE write' # write
    <3>1. Writes!Has(write, "cid") /\ Writes!Get(write, "record") # Odd /\ write' = Writes!Set(write, "cid", CidOf(Writes!Get(write, "record")))
      BY <1>5, <2>2 DEF Writes!DeriveCID
    <3>2. Writes!Get(write, "record") \in Record \cup {NoValue}
      <4>1. Writes!Part(write) \in Writes!Action /\ write[Writes!Part(write)] \in PartsFor(Writes!Part(write))
        BY <3>1, PartOfWrite DEF Writes!Has
      <4> DEFINE p == write[Writes!Part(write)]
      <4>2. p \in Writes!Full \cup Writes!Removal
        BY <4>1 DEF PartsFor
      <4>3. "record" \in DOMAIN p => p["record"] \in Record \cup {NoValue}
        BY <4>2 DEF Writes!Full, Writes!Removal
      <4> QED BY <4>3 DEF Writes!Get, Writes!Has
    <3>3. CidOf(Writes!Get(write, "record")) \in WriteCid \cup {NoValue}
      BY <3>1, <3>2 DEF Writes!PreparedWritesAssumption
    <3>4. "cid" \in Writes!Fields /\ Writes!Values("cid") = WriteCid \cup {NoValue}
      BY DEF Writes!Fields, Writes!Values
    <3> QED BY <3>1, <3>3, <3>4, SetKeeps
  <2> QED BY <2>1, <2>2
<1>6. CASE Writes!Unmarshal(Writes!Marshal(write)) # NoValue /\ write' = Writes!Unmarshal(Writes!Marshal(write))
  <2>1. Writes!Marshal(write) # NoValue
    BY <1>6 DEF Writes!Unmarshal
  <2>2. Writes!Part(write) # NoValue /\ Writes!Marshal(write) = write[Writes!Part(write)]
    BY <2>1 DEF Writes!Marshal
  <2> DEFINE p == Writes!Marshal(write)
  <2>3. p \in Writes!Full \cup Writes!Removal
    BY <2>2, PartOfWrite DEF PartsFor
  <2>4. p.action \in Writes!Action
    BY <2>3 DEF Writes!Full, Writes!Removal
  <2>5. write' = Writes!Read(p.action, p) /\ write' # NoValue
    BY <1>6, <2>1 DEF Writes!Unmarshal
  <2>6. \E x \in PartsFor(p.action) : write' = [Writes!None EXCEPT ![p.action] = x]
    <3> HIDE DEF p
    <3> QED BY <2>3, <2>4, <2>5, ReadBack
  <2> HIDE DEF p
  <2> QED BY <2>4, <2>6 DEF IsWrite
<1>7. CASE write' = write
  BY <1>7
<1> QED BY <1>1, <1>2, <1>3, <1>4, <1>5, <1>6, <1>7 DEF Writes!Next

\* Through any calls a write has one part at most, with the fields of its kind.
THEOREM WriteInvariance == ASSUME Writes!PreparedWritesAssumption PROVE Writes!Spec => []IsWrite(write)
<1>1. Writes!Init => IsWrite(write)
  BY DEF Writes!Init, IsWrite
<1>2. IsWrite(write) /\ [Writes!Next]_write => IsWrite(write)'
  BY NextWrite
<1> QED BY <1>1, <1>2, PTL DEF Writes!Spec

\* For any records, URIs and cids, and after any calls: reading a prepared write that agrees
\* with itself gives the write that was encoded (MarshalCBOR and UnmarshalCBOR,
\* internal/repo/ops.go).
THEOREM WritesAreRead == ASSUME Writes!PreparedWritesAssumption PROVE Writes!Spec => []WriteIsRead
<1>1. IsWrite(write) => WriteIsRead
  <2> SUFFICES ASSUME IsWrite(write), Writes!Get(write, "action") = Writes!Part(write), Writes!Part(write) # NoValue,
                      Writes!Has(write, "cid") => Writes!Get(write, "cid") # NoValue
               PROVE  Writes!Unmarshal(Writes!Marshal(write)) = write
    BY DEF WriteIsRead, Writes!WriteIsRead
  <2> DEFINE a == Writes!Part(write)
             p == write[a]
  <2>1. a \in Writes!Action /\ p \in PartsFor(a) /\ p # NoValue /\ write = [Writes!None EXCEPT ![a] = p]
    BY PartOfWrite
  <2>2. p \in Writes!Full \cup Writes!Removal
    BY <2>1 DEF PartsFor
  <2>3. p["action"] = a
    BY DEF Writes!Get, Writes!Has
  <2>4. ~Writes!NoCid(p)
    BY DEF Writes!NoCid, Writes!Get, Writes!Has
  <2>5. Writes!Marshal(write) = p
    BY DEF Writes!Marshal
  <2>6. Writes!Unmarshal(p) = Writes!Read(a, p)
    BY <2>1, <2>3 DEF Writes!Unmarshal
  <2>7. Writes!Read(a, p) = [Writes!None EXCEPT ![a] = p]
    <3> HIDE DEF a, p
    <3> QED BY <2>1, <2>2, <2>4, ReadBack
  <2> QED BY <2>1, <2>5, <2>6, <2>7
<1> QED BY <1>1, WriteInvariance, PTL

-----------------------------------------------------------------------------
(* QueryParams *)

\* For any properties and values, the server reads what the client's toQuery sent, if the
\* lexicon allows it, and refuses it otherwise (toQuery and fromQuery, lexgen/generator.go).
LEMMA QueryRead ==
  ASSUME Query!QueryParamsAssumption, NEW p \in Query!Property, NEW v \in Query!FieldValues(p)
  PROVE  Query!QueryIsRead(p, v)
<1> SUFFICES ASSUME Query!Compiles(p), Query!Sound(p)
             PROVE  IF Query!Valid(p, v) THEN Query!Same(p, Query!FromQuery(p, Query!ToQuery(p, v)), v)
                    ELSE Query!FromQuery(p, Query!ToQuery(p, v)) = Rejected
  BY DEF Query!QueryIsRead
<1>0. /\ p.type \in {"string", "integer", "boolean", "array"} /\ p.required \in BOOLEAN
      /\ NoValue # Rejected /\ NoValue # <<>> /\ NoValue # ""
  <2>1. p.type \in {"string", "integer", "boolean", "array"} /\ p.required \in BOOLEAN
    BY DEF Query!Property
  <2>2. NoValue # Rejected /\ NoValue # "" /\ NoValue \notin Seq(STRING)
    BY DEF Query!QueryParamsAssumption
  <2>3. <<>> \in Seq(STRING)
    OBVIOUS
  <2> QED BY <2>1, <2>2, <2>3
<1>1. CASE p.type = "boolean"
  <2>1. Query!FromQuery(p, Query!ToQuery(p, v)) = v
    BY <1>1 DEF Query!FromQuery, Query!ToQuery, Query!Set, Query!Get
  <2> QED BY <1>1, <2>1 DEF Query!Valid, Query!Same
<1>2. CASE p.type = "integer"
  <2>1. v \in Int \cup {NoValue} /\ (p.required => v # NoValue)
    BY <1>2, <1>0 DEF Query!FieldValues, Query!Pointer, Query!QueryParamsAssumption
  <2>2. Query!FromQuery(p, Query!ToQuery(p, v)) = Query!ReadInteger(p, v)
    BY <1>2, <2>1 DEF Query!FromQuery, Query!ToQuery, Query!Set, Query!Get
  <2>3. p.required => ~Query!Outside(p, v)
    BY <1>2 DEF Query!Sound, Query!Outside
  <2> QED BY <1>2, <2>1, <2>2, <2>3 DEF Query!ReadInteger, Query!Valid, Query!Same
<1>3. CASE p.type = "string"
  <2>1. v \in STRING \cup {NoValue} /\ (p.required => v # NoValue)
    BY <1>3, <1>0 DEF Query!FieldValues, Query!Pointer, Query!QueryParamsAssumption
  <2>2. Query!FromQuery(p, Query!ToQuery(p, v)) = Query!ReadString(p, v)
    BY <1>3, <2>1 DEF Query!FromQuery, Query!ToQuery, Query!Set, Query!Get
  <2> QED BY <1>0, <1>3, <2>1, <2>2 DEF Query!ReadString, Query!Valid, Query!Same
<1>4. CASE p.type = "array"
  <2>1. v \in Seq(STRING) \cup {NoValue}
    BY <1>4 DEF Query!FieldValues
  <2>2. Query!FromQuery(p, Query!ToQuery(p, v)) = Query!ReadArray(p, IF v = NoValue THEN <<>> ELSE v)
    BY <1>4 DEF Query!FromQuery, Query!ToQuery
  <2>3. CASE v \in {NoValue, <<>>}
    <3>1. Query!FromQuery(p, Query!ToQuery(p, v)) = IF p.required THEN Rejected ELSE NoValue
      BY <2>2, <2>3 DEF Query!ReadArray
    <3>2. Query!ToQuery(p, v) = <<>>
      BY <1>4, <2>3 DEF Query!ToQuery
    <3>3. Query!Valid(p, v) <=> ~p.required
      <4>1. Query!Valid(p, v)
              <=> (p.required => v \notin {NoValue, <<>>}) /\ \A i \in DOMAIN Query!ToQuery(p, v) : Query!Fits(p.items.format, v[i])
        BY <1>4 DEF Query!Valid
      <4>2. \A i \in DOMAIN Query!ToQuery(p, v) : Query!Fits(p.items.format, v[i])
        BY <3>2
      <4> QED BY <2>3, <4>1, <4>2
    <3> QED BY <1>0, <1>4, <2>3, <3>1, <3>3 DEF Query!Same
  <2>4. CASE v \notin {NoValue, <<>>}
    <3>1. p.items.format \in Query!InArrays <=> p.items.format \in Query!Parsed
      BY <1>4 DEF Query!Compiles, Query!InArrays
    <3>2. p.items.format # "cid"
      BY <1>4 DEF Query!Sound
    <3>3. Query!ToQuery(p, v) = v
      BY <1>4, <2>4 DEF Query!ToQuery
    <3>4. Query!Valid(p, v) <=> \A i \in DOMAIN v : Query!Fits(p.items.format, v[i])
      BY <1>4, <2>4, <3>3 DEF Query!Valid
    <3>5. Query!FromQuery(p, Query!ToQuery(p, v))
            = IF p.items.format \in Query!InArrays /\ \E i \in DOMAIN v : ~Query!Fits(p.items.format, v[i])
              THEN Rejected ELSE v
      BY <2>2, <2>4, <3>2 DEF Query!ReadArray
    <3>6. CASE Query!Valid(p, v)
      BY <3>4, <3>5, <3>6 DEF Query!Same
    <3>7. CASE ~Query!Valid(p, v)
      <4>1. \E i \in DOMAIN v : ~Query!Fits(p.items.format, v[i])
        BY <3>4, <3>7
      <4>2. p.items.format \in Query!Parsed
        BY <4>1 DEF Query!Fits
      <4> QED BY <3>1, <3>5, <3>7, <4>1, <4>2
    <3> QED BY <3>6, <3>7
  <2> QED BY <2>3, <2>4
<1> QED BY <1>0, <1>1, <1>2, <1>3, <1>4

-----------------------------------------------------------------------------
(* XrpcErrors *)

\* Any error, with any texts for codes and messages, and the answers to failed RPCs: bare ones,
\* with a status of HTTP's; what WriteError makes of an error, with a default that is a code of
\* the package; and a response whose code has a status, with none.
IsResponse(e) == \E code, message : \E status \in Int : e = Errors!Response(code, message, status)
IsErr(err) ==
  Len(err) \in Nat /\ \A i \in 1..Len(err) : err[i] \in {Errors!Wrapping, Errors!Plain} \/ IsResponse(err[i])
IsAnswer(answer) ==
  \/ \E status \in 100..599 : answer = Errors!Bare(status)
  \/ \E err : IsErr(err) /\ \E default \in DOMAIN Errors!StatusTable : answer = Errors!WriteError(err, default)
  \/ \E e : IsResponse(e) /\ Errors!StatusOf(e.code) # 0 /\ answer = Errors!WriteErrorResponse(e, "")

\* The codes, and their statuses.
LEMMA Codes ==
  DOMAIN Errors!StatusTable =
    {"Unknown", "Success", "InvalidRequest", "AuthRequired", "Forbidden", "XRPCNotSupported", "NotAcceptable",
     "PayloadTooLarge", "UnsupportedMediaType", "RateLimitExceeded", "InternalServerError", "MethodNotImplemented",
     "UpstreamFailure", "NotEnoughResources", "UpstreamTimeout", "RepoNotFound", "RecordNotFound"}
BY DEF Errors!StatusTable

LEMMA NoCode == "" \notin DOMAIN Errors!StatusTable
BY Codes

LEMMA Statuses ==
  ASSUME NEW code
  PROVE  /\ Errors!StatusOf(code) \in Int /\ Errors!StatusOf(code) >= 0 /\ Errors!StatusOf(code) < 600
         /\ code \in DOMAIN Errors!StatusTable => Errors!StatusOf(code) # 0
<1> DEFINE T == Errors!StatusTable
<1>1. /\ T["Unknown"] = 400 /\ T["Success"] = 200 /\ T["InvalidRequest"] = 400 /\ T["AuthRequired"] = 401
      /\ T["Forbidden"] = 403 /\ T["XRPCNotSupported"] = 404 /\ T["NotAcceptable"] = 406
      /\ T["PayloadTooLarge"] = 413 /\ T["UnsupportedMediaType"] = 415 /\ T["RateLimitExceeded"] = 429
      /\ T["InternalServerError"] = 500 /\ T["MethodNotImplemented"] = 501 /\ T["UpstreamFailure"] = 502
      /\ T["NotEnoughResources"] = 503 /\ T["UpstreamTimeout"] = 504 /\ T["RepoNotFound"] = 400
      /\ T["RecordNotFound"] = 400
  BY DEF Errors!StatusTable
<1> HIDE DEF T
<1>2. \A c \in DOMAIN Errors!StatusTable : T[c] \in Int /\ T[c] > 0 /\ T[c] < 600
  BY <1>1, Codes
<1>3. \A c \in DOMAIN Errors!StatusTable :
        Errors!StatusTable[c] \in Int /\ Errors!StatusTable[c] > 0 /\ Errors!StatusTable[c] < 600
  BY <1>2 DEF T
<1> QED BY <1>3 DEF Errors!StatusOf

LEMMA StatusesOfClasses == Errors!StatusOf("InvalidRequest") = 400 /\ Errors!StatusOf("InternalServerError") = 500
<1>1. "InvalidRequest" \in DOMAIN Errors!StatusTable /\ "InternalServerError" \in DOMAIN Errors!StatusTable
  BY Codes
<1>2. Errors!StatusTable["InvalidRequest"] = 400 /\ Errors!StatusTable["InternalServerError"] = 500
  BY DEF Errors!StatusTable
<1> QED BY <1>1, <1>2 DEF Errors!StatusOf

\* CodeFromStatus gives a code whose statuses are of the same class.
LEMMA CodeOfClass ==
  ASSUME NEW status \in 1..599
  PROVE  /\ Errors!CodeFromStatus(status) # ""
         /\ status >= 400 => Errors!StatusOf(Errors!CodeFromStatus(status)) \div 100 = status \div 100
<1>1. CASE \E code \in Errors!Plainest : Errors!StatusOf(code) = status
  <2>1. PICK code \in Errors!Plainest : Errors!CodeFromStatus(status) = code /\ Errors!StatusOf(code) = status
    BY <1>1 DEF Errors!CodeFromStatus
  <2>2. code # ""
    BY NoCode DEF Errors!Plainest
  <2> QED BY <2>1, <2>2
<1>2. CASE ~\E code \in Errors!Plainest : Errors!StatusOf(code) = status
  <2>1. Errors!CodeFromStatus(status) =
          IF status \in 100..199 \cup 300..399 THEN "XRPCNotSupported" ELSE IF status \in 200..299 THEN "Success"
          ELSE IF status \in 400..499 THEN "InvalidRequest" ELSE "InternalServerError"
    BY <1>2 DEF Errors!CodeFromStatus
  <2>2. Errors!CodeFromStatus(status) # ""
    <3>1. Errors!CodeFromStatus(status) \in {"Success", "XRPCNotSupported", "InvalidRequest", "InternalServerError"}
      BY <2>1
    <3>2. "" \notin {"Success", "XRPCNotSupported", "InvalidRequest", "InternalServerError"}
      OBVIOUS
    <3> QED BY <3>1, <3>2
  <2>3. ASSUME status \in 400..499 PROVE Errors!CodeFromStatus(status) = "InvalidRequest"
    <3>1. status \notin 200..299
      BY <2>3
    <3>2. status \notin 100..199 \cup 300..399
      BY <2>3
    <3> QED BY <2>1, <2>3, <3>1, <3>2
  <2>4. ASSUME status \in 500..599 PROVE Errors!CodeFromStatus(status) = "InternalServerError"
    <3>1. status \notin 200..299 /\ status \notin 400..499
      BY <2>4
    <3>2. status \notin 100..199 \cup 300..399
      BY <2>4
    <3> QED BY <2>1, <3>1, <3>2
  <2>5. status \in 400..499 => Errors!StatusOf(Errors!CodeFromStatus(status)) = 400
    BY <2>3, StatusesOfClasses
  <2>6. status \in 500..599 => Errors!StatusOf(Errors!CodeFromStatus(status)) = 500
    BY <2>4, StatusesOfClasses
  <2> DEFINE n == Errors!StatusOf(Errors!CodeFromStatus(status))
  <2>7. status >= 400 => n \div 100 = status \div 100
    <3>1. (status \in 400..499 => n = 400) /\ (status \in 500..599 => n = 500)
      BY <2>5, <2>6
    <3> HIDE DEF n
    <3> QED BY <3>1
  <2> QED BY <2>2, <2>7
<1> QED BY <1>1, <1>2

\* An answer with a body in which nothing is left to fill in.
Complete(answer) ==
  \E status \in 1..599 : \E code, message :
    /\ answer = [status |-> status, body |-> <<code, message>>]
    /\ code # "" /\ (message = "" => Errors!MessageOf(code) = "")

\* writeErrorResponse fills everything in.
LEMMA FilledIn ==
  ASSUME NEW e, IsResponse(e), NEW default,
         Errors!StatusOf(e.code) # 0 \/ Errors!StatusOf(default) # 0
  PROVE  Complete(Errors!WriteErrorResponse(e, default))
<1> DEFINE status  == Errors!AnswerStatus(e, default)
           code    == IF e.code = "" THEN Errors!CodeFromStatus(status) ELSE e.code
           message == IF e.message = "" THEN Errors!MessageOf(code) ELSE e.message
<1>1. status \in 1..599
  <2>1. e.status \in Int
    BY DEF IsResponse, Errors!Response
  <2>2. /\ Errors!StatusOf(e.code) \in Int /\ Errors!StatusOf(e.code) >= 0 /\ Errors!StatusOf(e.code) < 600
        /\ Errors!StatusOf(default) \in Int /\ Errors!StatusOf(default) >= 0 /\ Errors!StatusOf(default) < 600
    BY Statuses
  <2> QED BY <2>1, <2>2 DEF Errors!AnswerStatus
<1>2. code # ""
  <2> HIDE DEF status
  <2> QED BY <1>1, CodeOfClass
<1>3. message = "" => Errors!MessageOf(code) = ""
  <2> HIDE DEF code
  <2> QED OBVIOUS
<1>4. Errors!WriteErrorResponse(e, default) = [status |-> status, body |-> <<code, message>>]
  BY DEF Errors!WriteErrorResponse
<1> HIDE DEF status, code, message
<1> QED BY <1>1, <1>2, <1>3, <1>4 DEF Complete

\* Non-empty sets of natural numbers have a least element.
LEMMA Least == ASSUME NEW I \in SUBSET Nat, I # {} PROVE \E x \in I : \A y \in I : x <= y
<1> DEFINE R == {ss \in Nat \X Nat : ss[1] < ss[2]}
<1>1. IsWellFoundedOn(R, Nat)
  BY NatLessThanWellFounded DEF OpToRel
<1>2. PICK x \in I : \A y \in I : ~(<<y, x>> \in R)
  <2> HIDE DEF R
  <2> QED BY <1>1, WFMin
<1>3. ASSUME NEW y \in I PROVE x <= y
  <2>1. ~(<<y, x>> \in R)
    BY <1>2
  <2> QED BY <2>1
<1> QED BY <1>3

\* Min gives it.
LEMMA LeastIndex == ASSUME NEW I \in SUBSET Nat, I # {} PROVE Errors!Min(I) \in I
BY Least DEF Errors!Min

\* WriteError makes the answer of a response that is in the error, or one of its own.
LEMMA WrittenIsComplete ==
  ASSUME NEW err, IsErr(err), NEW default \in DOMAIN Errors!StatusTable
  PROVE  Complete(Errors!WriteError(err, default))
<1> DEFINE I == {i \in 1..Len(err) : err[i].kind = "response"}
<1>1. Errors!WriteError(err, default) =
        IF I # {} /\ Errors!Min(I) # 0 THEN Errors!WriteErrorResponse(err[Errors!Min(I)], default)
        ELSE [status |-> Errors!StatusOf(default), body |-> <<default, "Server Error">>]
  BY DEF Errors!WriteError, Errors!SelectInSeq
<1>2. Errors!StatusOf(default) \in 1..599 /\ Errors!StatusOf(default) # 0
  <2>1. /\ Errors!StatusOf(default) \in Int /\ Errors!StatusOf(default) >= 0 /\ Errors!StatusOf(default) < 600
        /\ Errors!StatusOf(default) # 0
    BY Statuses
  <2> QED BY <2>1
<1>5. default # "" /\ "Server Error" # ""
  BY NoCode
<1>3. CASE I # {} /\ Errors!Min(I) # 0
  <2>1. Errors!Min(I) \in I
    <3>1. I \in SUBSET Nat
      BY DEF IsErr
    <3> HIDE DEF I
    <3> QED BY <1>3, <3>1, LeastIndex
  <2>2. Errors!Min(I) \in 1..Len(err) /\ err[Errors!Min(I)].kind = "response"
    BY <2>1
  <2> HIDE DEF I
  <2>3. IsResponse(err[Errors!Min(I)])
    BY <2>2 DEF IsErr, Errors!Wrapping, Errors!Plain
  <2>4. Errors!StatusOf(default) # 0
    BY <1>2
  <2> QED BY <1>1, <1>3, <2>3, <2>4, FilledIn
<1>4. CASE ~(I # {} /\ Errors!Min(I) # 0)
  <2> HIDE DEF I
  <2>1. Errors!WriteError(err, default) = [status |-> Errors!StatusOf(default), body |-> <<default, "Server Error">>]
    BY <1>1, <1>4
  <2> QED BY <1>2, <1>5, <2>1 DEF Complete
<1> QED BY <1>3, <1>4

\* Sequences of two.
LEMMA Pairs == ASSUME NEW a, NEW b PROVE <<a>> \o <<b>> = <<a, b>> /\ <<a, b>> # <<>>
<1>1. <<a>> \o <<b>> = <<a, b>>
  <2>1. <<a>> \in Seq({a, b}) /\ <<b>> \in Seq({a, b}) /\ <<a, b>> \in Seq({a, b})
    OBVIOUS
  <2> DEFINE c == <<a>> \o <<b>>
  <2>2. /\ c \in Seq({a, b}) /\ Len(c) = Len(<<a>>) + Len(<<b>>)
        /\ \A i \in 1..(Len(<<a>>) + Len(<<b>>)) : c[i] = IF i <= Len(<<a>>) THEN <<a>>[i] ELSE <<b>>[i - Len(<<a>>)]
    BY <2>1, ConcatProperties
  <2> HIDE DEF c
  <2>3. Len(c) = 2 /\ c[1] = a /\ c[2] = b
    BY <2>2
  <2>4. Len(<<a, b>>) = 2 /\ <<a, b>>[1] = a /\ <<a, b>>[2] = b
    OBVIOUS
  <2>5. \A i \in 1..Len(c) : c[i] = <<a, b>>[i]
    BY <2>3, <2>4
  <2>6. c = <<a, b>>
    BY <2>1, <2>2, <2>3, <2>4, <2>5, SeqEqual
  <2> QED BY <2>6 DEF c
<1>2. Len(<<a, b>>) = 2 /\ Len(<<>>) = 0
  OBVIOUS
<1> QED BY <1>1, <1>2

\* The response that a client finds in an answer is the one that a handler writes again.
LEMMA Relayed ==
  ASSUME NEW status \in 1..599
  PROVE  /\ Errors!Relay(Errors!Bare(status)) = Errors!WriteErrorResponse(Errors!Response("", "", status), "InvalidRequest")
         /\ \A code, message :
              Errors!Relay([status |-> status, body |-> <<code, message>>])
                = Errors!WriteErrorResponse(Errors!Response(code, message, status), "InvalidRequest")
<1>2. ASSUME NEW e, e.kind = "response"
      PROVE  /\ Errors!WriteError(<<e, Errors!Plain>>, "InvalidRequest") = Errors!WriteErrorResponse(e, "InvalidRequest")
             /\ Errors!WriteError(<<Errors!Wrapping, e>>, "InvalidRequest") = Errors!WriteErrorResponse(e, "InvalidRequest")
  <2>0. ASSUME NEW err, NEW n \in 1..2, {i \in 1..Len(err) : err[i].kind = "response"} = {n}, err[n] = e
        PROVE  Errors!WriteError(err, "InvalidRequest") = Errors!WriteErrorResponse(e, "InvalidRequest")
    <3>1. Errors!SelectInSeq(err, LAMBDA layer : layer.kind = "response") = Errors!Min({n})
      BY <2>0 DEF Errors!SelectInSeq
    <3>2. Errors!Min({n}) = n /\ n # 0
      BY DEF Errors!Min
    <3> QED BY <2>0, <3>1, <3>2 DEF Errors!WriteError
  <2>1. {i \in 1..Len(<<e, Errors!Plain>>) : <<e, Errors!Plain>>[i].kind = "response"} = {1}
    BY <1>2 DEF Errors!Plain
  <2>2. {i \in 1..Len(<<Errors!Wrapping, e>>) : <<Errors!Wrapping, e>>[i].kind = "response"} = {2}
    BY <1>2 DEF Errors!Wrapping
  <2>3. <<e, Errors!Plain>>[1] = e /\ <<Errors!Wrapping, e>>[2] = e
    OBVIOUS
  <2> QED BY <2>0, <2>1, <2>2, <2>3
<1>3. \A code, message : Errors!Response(code, message, status).kind = "response"
  BY DEF Errors!Response
<1>4. Errors!Read(Errors!Bare(status)) = <<Errors!Response("", "", status), Errors!Plain>>
  <2>1. Errors!Wrap(Errors!Response("", "", status), <<Errors!Plain>>) = <<Errors!Response("", "", status), Errors!Plain>>
    BY Pairs DEF Errors!Wrap
  <2> QED BY <2>1 DEF Errors!Read, Errors!Bare
<1>5. ASSUME NEW code, NEW message
      PROVE  Errors!Read([status |-> status, body |-> <<code, message>>])
               = <<Errors!Wrapping, Errors!Response(code, message, status)>>
  BY DEF Errors!Read
<1> QED BY <1>2, <1>3, <1>4, <1>5 DEF Errors!Relay

\* A complete answer is passed on as it is.
LEMMA CompleteStays == ASSUME NEW answer, Complete(answer) PROVE Errors!Relay(answer) = answer
<1>1. PICK status \in 1..599 : \E code, message :
        /\ answer = [status |-> status, body |-> <<code, message>>]
        /\ code # "" /\ (message = "" => Errors!MessageOf(code) = "")
  BY DEF Complete
<1>2. PICK code, message :
        /\ answer = [status |-> status, body |-> <<code, message>>]
        /\ code # "" /\ (message = "" => Errors!MessageOf(code) = "")
  BY <1>1
<1> DEFINE e == Errors!Response(code, message, status)
<1>3. Errors!Relay(answer) = Errors!WriteErrorResponse(e, "InvalidRequest")
  BY <1>2, Relayed
<1>4. e.code = code /\ e.message = message /\ e.status = status
  BY DEF Errors!Response
<1> HIDE DEF e
<1>5. Errors!AnswerStatus(e, "InvalidRequest") = status
  BY <1>4 DEF Errors!AnswerStatus
<1>6. Errors!WriteErrorResponse(e, "InvalidRequest") = [status |-> status, body |-> <<code, message>>]
  BY <1>2, <1>4, <1>5 DEF Errors!WriteErrorResponse
<1> QED BY <1>2, <1>3, <1>6

\* However many clients and handlers pass a failed RPC on, its caller is told the same (WriteError,
\* xrpc/error.go, and Client.do, xrpc/client.go), for any errors, codes and messages.
LEMMA AnswerIsRelayed == ASSUME NEW answer, IsAnswer(answer) PROVE Errors!ErrorIsRelayed(answer)
<1>1. ASSUME Complete(answer) PROVE Errors!ErrorIsRelayed(answer)
  <2>1. \E code, message : answer.body = <<code, message>>
    <3>1. PICK status \in 1..599 : \E code, message : answer = [status |-> status, body |-> <<code, message>>]
      BY <1>1 DEF Complete
    <3>2. PICK code, message : answer = [status |-> status, body |-> <<code, message>>]
      BY <3>1
    <3> QED BY <3>2
  <2>2. answer.body # <<>>
    BY <2>1, Pairs
  <2> QED BY <1>1, <2>2, CompleteStays DEF Errors!ErrorIsRelayed
<1>2. ASSUME NEW status \in 100..599, answer = Errors!Bare(status) PROVE Errors!ErrorIsRelayed(answer)
  <2> DEFINE e    == Errors!Response("", "", status)
             next == Errors!WriteErrorResponse(e, "InvalidRequest")
  <2>0. status \in 1..599 /\ status \in Int
    OBVIOUS
  <2>1. Errors!Relay(answer) = next
    BY <1>2, <2>0, Relayed
  <2>2. IsResponse(e) /\ e.code = "" /\ e.status = status
    <3>1. IsResponse(e)
      BY <2>0 DEF IsResponse
    <3> QED BY <3>1 DEF Errors!Response
  <2>3. Errors!StatusOf("InvalidRequest") # 0
    BY StatusesOfClasses
  <2>4. Errors!AnswerStatus(e, "InvalidRequest") = status
    <3> HIDE DEF e
    <3> QED BY <2>0, <2>2 DEF Errors!AnswerStatus
  <2>5. next.status = status /\ next.body[1] = Errors!CodeFromStatus(status)
    <3> HIDE DEF e
    <3> QED BY <2>2, <2>4 DEF Errors!WriteErrorResponse
  <2>6. Complete(next)
    <3> HIDE DEF e
    <3> QED BY <2>2, <2>3, FilledIn
  <2>7. answer.status = status /\ answer.body = <<>>
    BY <1>2 DEF Errors!Bare
  <2>8. status >= 400 => Errors!StatusOf(next.body[1]) \div 100 = status \div 100
    <3> HIDE DEF next
    <3> QED BY <2>0, <2>5, CodeOfClass
  <2>9. Errors!Relay(next) = next
    BY <2>6, CompleteStays
  <2> HIDE DEF next
  <2> QED BY <2>1, <2>5, <2>7, <2>8, <2>9 DEF Errors!ErrorIsRelayed, Errors!IsError
<1>3. ASSUME NEW err, IsErr(err), NEW default \in DOMAIN Errors!StatusTable, answer = Errors!WriteError(err, default)
      PROVE  Complete(answer)
  BY <1>3, WrittenIsComplete
<1>4. ASSUME NEW e, IsResponse(e), Errors!StatusOf(e.code) # 0, answer = Errors!WriteErrorResponse(e, "")
      PROVE  Complete(answer)
  BY <1>4, FilledIn
<1> QED BY <1>1, <1>2, <1>3, <1>4 DEF IsAnswer

-----------------------------------------------------------------------------
(* CommitCodec *)

\* How many integers are negative.
Half == 2^(Width - 1)

\* A number below another one is its own remainder, and stays it with the other one less.
LEMMA Remainder == ASSUME NEW m \in Nat \ {0}, NEW k \in 0..(m - 1) PROVE k % m = k /\ (k - m) % m = k
<1>1. k \div m = 0
  BY Z3
<1> QED BY <1>1, Z3

\* An integer that is neither negative nor too large is the same as an unsigned one.
LEMMA SmallNumber ==
  ASSUME Commits!CommitCodecAssumption, NEW k \in 0..(Half - 1)
  PROVE Commits!Signed(k) = k /\ Commits!Unsig(k) = k
<1> DEFINE m == 2 * Half
<1>1. Half \in Nat \ {0} /\ 2^Width = m
  BY DEF Half, Commits!CommitCodecAssumption
<1>2. m \in Nat \ {0} /\ k \in 0..(m - 1) /\ k + Half \in 0..(m - 1)
  BY <1>1
<1> HIDE DEF m
<1>3. k % m = k /\ (k + Half) % m = k + Half
  BY <1>2, Remainder
<1> QED BY <1>1, <1>3 DEF Commits!Signed, Commits!Unsig, Half

\* A version is written as its distance from zero, or from -1, of which no overflow
\* remains: its minimum is its own negation, but one below that is the maximum again.
LEMMA Distance ==
  ASSUME Commits!CommitCodecAssumption, NEW n \in -Half..-1
  PROVE Commits!Unsig(Commits!Signed(-n) - 1) = -n - 1
<1> DEFINE m == 2 * Half
<1>1. Half \in Nat \ {0} /\ 2^Width = m
  BY DEF Half, Commits!CommitCodecAssumption
<1>2. m \in Nat \ {0} /\ -n - 1 \in 0..(Half - 1)
  BY <1>1
<1>3. CASE n = -Half
  <2>1. 0 \in 0..(m - 1) /\ (Half - 1) + Half = m - 1 /\ Half - 1 \in 0..(m - 1)
    BY <1>1
  <2>2. (0 - m) % m = 0 /\ (Half - 1 - m) % m = Half - 1 /\ m % m = 0
    <3> HIDE DEF m
    <3>1. (0 - m) % m = 0 /\ ((Half - 1) - m) % m = Half - 1
      BY <1>2, <2>1, Remainder
    <3>2. m % m = 0
      <4>1. m \div m = 1
        BY <1>2, Z3
      <4> QED BY <1>2, <4>1, Z3
    <3> QED BY <3>1, <3>2
  <2>3. Commits!Signed(-n) = -Half
    <3>1. (-n + Half) = m
      BY <1>1, <1>3
    <3> HIDE DEF m
    <3> QED BY <1>1, <2>2, <3>1 DEF Commits!Signed, Half
  <2>4. -Half - 1 = Half - 1 - m
    BY <1>1
  <2> HIDE DEF m
  <2> QED BY <1>1, <1>3, <2>2, <2>3, <2>4 DEF Commits!Unsig
<1>4. CASE n # -Half
  <2>1. -n \in 0..(Half - 1)
    BY <1>1, <1>4
  <2>2. Commits!Signed(-n) = -n
    BY <2>1, SmallNumber
  <2> QED BY <1>2, <2>2, SmallNumber
<1> QED BY <1>3, <1>4

\* A version of any value is read as it was written.
LEMMA VersionIsRead ==
  ASSUME Commits!CommitCodecAssumption, NEW n \in -Half..(Half - 1),
         NEW item, item = Commits!VersionItem(n)
  PROVE /\ item[1] \in {"uint", "nint"} /\ Commits!Signed(item[2]) >= 0
        /\ Commits!ReadVersion(item) = n
<1>1. Half \in Nat \ {0}
  BY DEF Half, Commits!CommitCodecAssumption
<1>2. CASE n >= 0
  <2>1. item = <<"uint", n>>
    BY <1>2 DEF Commits!VersionItem, Commits!Item
  <2>2. Commits!Signed(n) = n
    BY <1>1, <1>2, SmallNumber
  <2> QED BY <1>2, <2>1, <2>2 DEF Commits!ReadVersion
<1>3. CASE ~(n >= 0)
  <2>1. n \in -Half..-1 /\ -n - 1 \in 0..(Half - 1)
    BY <1>1, <1>3
  <2>2. item = <<"nint", -n - 1>>
    BY <1>3, <2>1, Distance DEF Commits!VersionItem, Commits!Item
  <2>3. Commits!Signed(-n - 1) = -n - 1
    BY <2>1, SmallNumber
  <2>4. item[1] = "nint" /\ item[2] = -n - 1 /\ "nint" # "uint"
    BY <2>2
  <2>5. Commits!ReadVersion(item) = -1 - (-n - 1)
    BY <2>3, <2>4 DEF Commits!ReadVersion
  <2> QED BY <2>1, <2>3, <2>4, <2>5
<1> QED BY <1>2, <1>3

\* The length of a sequence that is given as a function.
LEMMA LengthOf ==
  ASSUME NEW n \in Nat, NEW s, s = [i \in 1..n |-> s[i]]
  PROVE  Len(s) = n /\ s \in Seq({s[i] : i \in 1..n})
<1>1. \A i \in 1..n : s[i] \in {s[j] : j \in 1..n}
  OBVIOUS
<1> QED BY <1>1, Z3

\* What stands where in a stream.
LEMMA Streams ==
  ASSUME NEW F, Len(F) \in Nat, NEW s, s = Commits!Stream(F)
  PROVE /\ Len(s) = 2 * Len(F) + 1 /\ s # <<>> /\ s[1] = <<"map", Len(F)>>
        /\ s \in Seq({s[i] : i \in DOMAIN s})
        /\ \A i \in 1..Len(F) : s[2 * i] = <<"text", F[i][1]>> /\ s[2 * i + 1] = F[i][2]
<1>1. DOMAIN s = 1..(2 * Len(F) + 1) /\ s[1] = <<"map", Len(F)>>
  BY DEF Commits!Stream, Commits!Item
<1>2. s = [i \in 1..(2 * Len(F) + 1) |-> s[i]]
  BY DEF Commits!Stream
<1>3. s \in Seq({s[i] : i \in DOMAIN s}) /\ Len(s) = 2 * Len(F) + 1
  <2>1. 2 * Len(F) + 1 \in Nat
    OBVIOUS
  <2> QED BY <1>1, <1>2, <2>1, LengthOf
<1>4. ASSUME NEW i \in 1..Len(F) PROVE s[2 * i] = <<"text", F[i][1]>> /\ s[2 * i + 1] = F[i][2]
  <2>1. /\ 2 * i \in 1..(2 * Len(F) + 1) /\ 2 * i + 1 \in 1..(2 * Len(F) + 1)
        /\ 2 * i # 1 /\ 2 * i + 1 # 1 /\ (2 * i) % 2 = 0 /\ (2 * i + 1) % 2 = 1
        /\ (2 * i) \div 2 = i /\ (2 * i + 1) \div 2 = i
    OBVIOUS
  <2> QED BY <2>1 DEF Commits!Stream, Commits!Text, Commits!Item
<1>5. s # <<>>
  BY <1>3
<1> QED BY <1>1, <1>3, <1>4, <1>5

\* A field that sets something: all but a previous commit that is null.
IsSet(field) == ~(field[1] = "prev" /\ field[2] = Commits!Null)

\* What a field sets.
Held(field) == IF field[1] = "version" THEN Commits!ReadVersion(field[2]) ELSE field[2][2]

\* What a reader makes of a stream of these fields, whatever their order.
Gives(F, zero, d) ==
  /\ DOMAIN d = DOMAIN zero /\ d = [f \in DOMAIN zero |-> d[f]]
  /\ \A i \in 1..Len(F) :
       /\ F[i][1] # Overlong
       /\ F[i][1] \in DOMAIN zero =>
            Commits!Readable(F[i][1], F[i][2]) /\ (IsSet(F[i]) => Held(F[i]) = d[F[i][1]])
  /\ \A f \in DOMAIN zero : d[f] = zero[f] \/ \E i \in 1..Len(F) : F[i][1] = f /\ IsSet(F[i])

\* A non-empty set of indices has a greatest one, which Max gives.
LEMMA GreatestIndex == ASSUME NEW n \in Nat, NEW I \in SUBSET (1..n), I # {} PROVE Commits!Max(I) \in I
<1>1. PICK y \in {n - i : i \in I} : \A x \in {n - i : i \in I} : y <= x
  <2>1. \A i \in I : n - i \in Nat
    OBVIOUS
  <2>2. {n - i : i \in I} \in SUBSET Nat /\ {n - i : i \in I} # {}
    BY <2>1
  <2> QED BY <2>2, Least
<1>2. PICK i \in I : y = n - i
  BY <1>1
<1>3. ASSUME NEW j \in I PROVE i >= j
  <2>1. n - i <= n - j
    BY <1>1, <1>2
  <2> QED BY <2>1
<1> QED BY <1>3 DEF Commits!Max

\* Unmarshal reads what the fields give.
LEMMA IsGiven ==
  ASSUME NEW F, Len(F) \in Nat, NEW zero, NEW d, Gives(F, zero, d)
  PROVE Commits!Unmarshal(zero, Commits!Stream(F)) = d
<1> DEFINE n == Len(F)
           s == Commits!Stream(F)
           sets(f) == {i \in 1..n : s[2 * i][2] = f /\ ~(f = "prev" /\ s[2 * i + 1] = Commits!Null)}
           last(f) == s[2 * Commits!Max(sets(f)) + 1]
<1>1. /\ Len(s) = 2 * n + 1 /\ s # <<>> /\ s[1][1] = "map" /\ s[1][2] = n
      /\ \A i \in 1..n : s[2 * i][1] = "text" /\ s[2 * i][2] = F[i][1] /\ s[2 * i + 1] = F[i][2]
  <2>1. s = Commits!Stream(F)
    OBVIOUS
  <2> HIDE DEF s
  <2>2. /\ Len(s) = 2 * n + 1 /\ s # <<>> /\ s[1] = <<"map", n>>
        /\ \A i \in 1..n : s[2 * i] = <<"text", F[i][1]>> /\ s[2 * i + 1] = F[i][2]
    BY <2>1, Streams
  <2> HIDE DEF n
  <2> QED BY <2>2
<1> HIDE DEF s
<1>2. ASSUME NEW i \in 1..n
      PROVE s[2 * i][1] = "text" /\ s[2 * i][2] # Overlong
            /\ (s[2 * i][2] \in DOMAIN zero => Commits!Readable(s[2 * i][2], s[2 * i + 1]))
  BY <1>1 DEF Gives
<1>3. ASSUME NEW f \in DOMAIN zero
      PROVE (IF sets(f) = {} THEN zero[f]
             ELSE IF f = "version" THEN Commits!ReadVersion(last(f)) ELSE last(f)[2]) = d[f]
  <2>1. CASE sets(f) = {}
    <3>1. ~ \E i \in 1..n : F[i][1] = f /\ IsSet(F[i])
      BY <1>1, <2>1 DEF IsSet
    <3> QED BY <2>1, <3>1 DEF Gives
  <2>2. CASE sets(f) # {}
    <3>1. PICK m \in sets(f) : m = Commits!Max(sets(f))
      <4>1. sets(f) \in SUBSET (1..n) /\ n \in Nat
        OBVIOUS
      <4> HIDE DEF sets, n
      <4> QED BY <2>2, <4>1, GreatestIndex
    <3>2. m \in 1..n /\ F[m][1] = f /\ IsSet(F[m])
      BY <1>1, <3>1 DEF IsSet
    <3>3. Held(F[m]) = d[f]
      BY <3>2 DEF Gives
    <3>4. last(f) = F[m][2]
      BY <1>1, <3>1, <3>2
    <3> HIDE DEF last, sets
    <3> QED BY <2>2, <3>2, <3>3, <3>4 DEF Held
  <2> QED BY <2>1, <2>2
<1>4. Commits!Unmarshal(zero, s)
        = [f \in DOMAIN zero |->
            IF sets(f) = {} THEN zero[f] ELSE IF f = "version" THEN Commits!ReadVersion(last(f)) ELSE last(f)[2]]
  BY <1>1, <1>2 DEF Commits!Unmarshal
<1>5. d = [f \in DOMAIN zero |-> d[f]]
  BY DEF Gives
<1> HIDE DEF sets, last, n
<1> QED BY <1>3, <1>4, <1>5 DEF s

\* The fields of a commit under these names.
LEMMA FieldsOf ==
  ASSUME NEW n \in Nat, NEW names, DOMAIN names = 1..n, NEW d
  PROVE  /\ Len(Commits!Fields(names, d)) = n /\ DOMAIN Commits!Fields(names, d) = 1..n
         /\ Commits!Fields(names, d) = [i \in 1..n |-> Commits!Fields(names, d)[i]]
         /\ \A i \in 1..n :
              Commits!Fields(names, d)[i][1] = names[i] /\ Commits!Fields(names, d)[i][2] = Commits!ItemOf(names[i], d)
<1> DEFINE F == Commits!Fields(names, d)
<1>1. F = [i \in 1..n |-> <<names[i], Commits!ItemOf(names[i], d)>>]
  BY DEF Commits!Fields
<1> HIDE DEF F
<1>2. DOMAIN F = 1..n /\ \A i \in 1..n : F[i] = <<names[i], Commits!ItemOf(names[i], d)>>
  BY <1>1
<1>3. F = [i \in 1..n |-> F[i]]
  BY <1>1, <1>2
<1>4. Len(F) = n
  BY <1>3, LengthOf
<1>5. \A i \in 1..n : F[i][1] = names[i] /\ F[i][2] = Commits!ItemOf(names[i], d)
  BY <1>2
<1> QED BY <1>2, <1>3, <1>4, <1>5 DEF F

\* The fields of a signed commit.
Names == {"did", "rev", "sig", "data", "prev", "version"}

\* What is written for a field gives back the field.
LEMMA ItemIsRead ==
  ASSUME Commits!CommitCodecAssumption, NEW d, d.version \in -Half..(Half - 1), NEW field, NEW f \in Names,
         NEW item, field[1] = f, field[2] = item, item = Commits!ItemOf(f, d),
         item \notin {Commits!Text(Overlong), Commits!Bytes(Overlong), Commits!Link(NoValue)}
  PROVE  /\ Commits!Readable(f, item)
         /\ IsSet(field) => Held(field) = d[f]
         /\ ~IsSet(field) => f = "prev" /\ d.prev = NoValue
<1>1. CASE f \in {"did", "rev"}
  <2>1. item = <<"text", d[f]>>
    BY <1>1, Zenon DEF Commits!ItemOf, Commits!Text, Commits!Item
  <2>2. d[f] # Overlong
    BY <2>1 DEF Commits!Text, Commits!Item
  <2> QED BY <1>1, <2>1, <2>2 DEF Commits!Readable, IsSet, Held
<1>2. CASE f = "sig"
  <2>1. item = <<"bytes", d[f]>>
    BY <1>2, Zenon DEF Commits!ItemOf, Commits!Bytes, Commits!Item
  <2>2. d[f] # Overlong
    BY <2>1 DEF Commits!Bytes, Commits!Item
  <2> QED BY <1>2, <2>1, <2>2 DEF Commits!Readable, IsSet, Held
<1>3. CASE f = "data"
  <2>1. item = <<"link", d[f]>>
    BY <1>3, Zenon DEF Commits!ItemOf, Commits!Link, Commits!Item
  <2> QED BY <1>3, <2>1 DEF Commits!Readable, IsSet, Held
<1>4. CASE f = "prev"
  <2>1. item = IF d.prev = NoValue THEN Commits!Null ELSE <<"link", d[f]>>
    BY <1>4, Zenon DEF Commits!ItemOf, Commits!Link, Commits!Item
  <2>2. Commits!Null = <<"null", "">>
    BY DEF Commits!Null, Commits!Item
  <2>3. CASE d.prev = NoValue
    <3>1. item = Commits!Null
      BY <2>1, <2>3
    <3>2. ~IsSet(field)
      BY <1>4, <3>1, Zenon DEF IsSet
    <3>3. Commits!Null[1] = "null"
      BY <2>2
    <3>4. item[1] = "null"
      BY <3>1, <3>3, Zenon
    <3> QED BY <1>4, <2>3, <3>2, <3>4 DEF Commits!Readable
  <2>4. CASE d.prev # NoValue
    <3>1. item = <<"link", d[f]>>
      BY <2>1, <2>4
    <3>2. item[1] = "link"
      BY <3>1
    <3>3. Commits!Null[1] = "null"
      BY <2>2
    <3>4. item # Commits!Null
      BY <3>2, <3>3
    <3>5. IsSet(field)
      BY <3>4, Zenon DEF IsSet
    <3> QED BY <1>4, <3>1, <3>5 DEF Commits!Readable, Held
  <2> QED BY <2>3, <2>4
<1>5. CASE f = "version"
  <2>1. item = Commits!VersionItem(d.version)
    BY <1>5, Zenon DEF Commits!ItemOf
  <2>2. item[1] \in {"uint", "nint"} /\ Commits!Signed(item[2]) >= 0 /\ Commits!ReadVersion(item) = d.version
    BY <2>1, VersionIsRead
  <2> QED BY <1>5, <2>2 DEF Commits!Readable, IsSet, Held
<1> QED BY <1>1, <1>2, <1>3, <1>4, <1>5 DEF Names

\* A reader's fields before it starts.
IsZero(zero) ==
  /\ DOMAIN zero \in SUBSET Names
  /\ "rev" \in DOMAIN zero => zero["rev"] = ""
  /\ "prev" \in DOMAIN zero => zero["prev"] = NoValue

\* A commit with a reader's fields.
HasFields(zero, d) ==
  /\ DOMAIN d = DOMAIN zero /\ d = [f \in DOMAIN zero |-> d[f]]
  /\ d.version \in -Half..(Half - 1)

\* The names that are written: all of them, but for an empty revision.
Listed(zero, d, n, names) ==
  \A f \in DOMAIN zero : (\E i \in 1..n : names[i] = f) \/ (f = "rev" /\ d["rev"] = "")

\* What Marshal writes of the fields of a commit gives back the commit.
LEMMA FieldsGive ==
  ASSUME Commits!CommitCodecAssumption, NEW zero, IsZero(zero), NEW d, HasFields(zero, d),
         NEW n \in Nat, NEW names \in [1..n -> DOMAIN zero], Listed(zero, d, n, names),
         Commits!Marshal(Commits!Fields(names, d)) # <<>>
  PROVE  /\ Len(Commits!Fields(names, d)) = n
         /\ Gives(Commits!Fields(names, d), zero, d)
         /\ Commits!Marshal(Commits!Fields(names, d)) = Commits!Stream(Commits!Fields(names, d))
<1> DEFINE F == Commits!Fields(names, d)
<1>1. /\ DOMAIN F = 1..n /\ Len(F) = n
      /\ \A i \in 1..n : F[i][1] = names[i] /\ F[i][2] = Commits!ItemOf(names[i], d)
  <2>1. DOMAIN names = 1..n
    OBVIOUS
  <2> QED BY <2>1, FieldsOf
<1> HIDE DEF F
<1>2. /\ \A i \in 1..n : F[i][2] \notin {Commits!Text(Overlong), Commits!Bytes(Overlong), Commits!Link(NoValue)}
      /\ Commits!Marshal(F) = Commits!Stream(F)
  BY <1>1 DEF Commits!Marshal, F
<1>3. ASSUME NEW i \in 1..n
      PROVE /\ F[i][1] = names[i] /\ F[i][1] # Overlong
            /\ Commits!Readable(F[i][1], F[i][2])
            /\ IsSet(F[i]) => Held(F[i]) = d[F[i][1]]
            /\ ~IsSet(F[i]) => F[i][1] = "prev" /\ d["prev"] = NoValue
  <2>1. names[i] \in DOMAIN zero
    OBVIOUS
  <2>2. F[i][1] = names[i] /\ F[i][2] = Commits!ItemOf(names[i], d)
    BY <1>1
  <2>3. names[i] \in Names
    BY <2>1 DEF IsZero
  <2>4. names[i] # Overlong
    BY <2>3 DEF Names, Commits!CommitCodecAssumption, Commits!SignedZero
  <2> DEFINE f == names[i]
             item == F[i][2]
  <2>5. f \in Names /\ F[i][1] = f /\ F[i][2] = item /\ item = Commits!ItemOf(f, d)
    BY <2>2, <2>3
  <2>6. item \notin {Commits!Text(Overlong), Commits!Bytes(Overlong), Commits!Link(NoValue)}
    BY <1>2
  <2> HIDE DEF f, item
  <2>7. /\ Commits!Readable(f, item)
        /\ IsSet(F[i]) => Held(F[i]) = d[f]
        /\ ~IsSet(F[i]) => f = "prev" /\ d.prev = NoValue
    <3>1. d.version \in -Half..(Half - 1)
      BY DEF HasFields
    <3> QED BY <2>5, <2>6, <3>1, ItemIsRead
  <2> QED BY <2>2, <2>4, <2>5, <2>7
<1>4. ASSUME NEW f \in DOMAIN zero, d[f] # zero[f] PROVE \E i \in 1..n : F[i][1] = f /\ IsSet(F[i])
  <2>1. ~(f = "rev" /\ d["rev"] = "")
    BY <1>4 DEF IsZero
  <2>2. PICK i \in 1..n : names[i] = f
    BY <2>1 DEF Listed
  <2>3. ~(f = "prev" /\ d["prev"] = NoValue)
    BY <1>4 DEF IsZero
  <2> QED BY <1>3, <2>2, <2>3
<1> QED BY <1>1, <1>2, <1>3, <1>4 DEF Gives, HasFields, F

\* What InsertAt of SequencesExt returns.
LEMMA InsertedAt ==
  ASSUME NEW T, NEW s \in Seq(T), NEW x \in T, NEW k \in 1..(Len(s) + 1)
  PROVE  /\ Commits!InsertAt(s, k, x) \in Seq(T)
         /\ Len(Commits!InsertAt(s, k, x)) = Len(s) + 1
         /\ \A i \in 1..(Len(s) + 1) :
              Commits!InsertAt(s, k, x)[i] = IF i < k THEN s[i] ELSE IF i = k THEN x ELSE s[i - 1]
<1> DEFINE a == SubSeq(s, 1, k - 1)
           b == SubSeq(s, k, Len(s))
<1>1. Commits!InsertAt(s, k, x) = a \o <<x>> \o b
  BY DEF Commits!InsertAt
<1>2. Len(s) \in Nat /\ k \in Int /\ k - 1 \in Int /\ 1 \in Int /\ \A i \in 1..Len(s) : s[i] \in T
  BY LenProperties, ElementOfSeq
<1>3. /\ a \in Seq(T) /\ Len(a) = k - 1
      /\ \A i \in 1..(k - 1) : a[i] = s[i]
  <2>1. \A i \in 1..(k - 1) : s[i] \in T
    BY <1>2
  <2> HIDE DEF a
  <2>2. /\ SubSeq(s, 1, k - 1) \in Seq(T)
        /\ Len(SubSeq(s, 1, k - 1)) = IF 1 <= k - 1 THEN k - 1 - 1 + 1 ELSE 0
        /\ \A i \in 1..(k - 1 - 1 + 1) : SubSeq(s, 1, k - 1)[i] = s[1 + i - 1]
    BY <2>1, <1>2, SubSeqProperties
  <2> QED BY <2>2, <1>2 DEF a
<1>4. /\ b \in Seq(T) /\ Len(b) = Len(s) + 1 - k
      /\ \A i \in 1..(Len(s) + 1 - k) : b[i] = s[k + i - 1]
  <2>1. \A i \in k..Len(s) : s[i] \in T
    BY <1>2
  <2>2. /\ SubSeq(s, k, Len(s)) \in Seq(T)
        /\ Len(SubSeq(s, k, Len(s))) = IF k <= Len(s) THEN Len(s) - k + 1 ELSE 0
        /\ \A i \in 1..(Len(s) - k + 1) : SubSeq(s, k, Len(s))[i] = s[k + i - 1]
    BY <2>1, <1>2, SubSeqProperties
  <2> HIDE DEF b
  <2> QED BY <2>2, <1>2 DEF b
<1> HIDE DEF a, b
<1>5. <<x>> \in Seq(T) /\ Len(<<x>>) = 1 /\ <<x>>[1] = x
  OBVIOUS
<1>6. /\ a \o <<x>> \in Seq(T) /\ Len(a \o <<x>>) = k
      /\ \A i \in 1..k : (a \o <<x>>)[i] = IF i < k THEN s[i] ELSE x
  <2>1. /\ a \o <<x>> \in Seq(T) /\ Len(a \o <<x>>) = Len(a) + 1
        /\ \A i \in 1..(Len(a) + 1) : (a \o <<x>>)[i] = IF i <= Len(a) THEN a[i] ELSE <<x>>[i - Len(a)]
    BY <1>3, <1>5, ConcatProperties
  <2> QED BY <2>1, <1>2, <1>3, <1>5
<1>7. /\ (a \o <<x>>) \o b \in Seq(T) /\ Len((a \o <<x>>) \o b) = k + Len(b)
      /\ \A i \in 1..(k + Len(b)) :
           ((a \o <<x>>) \o b)[i] = IF i <= k THEN (a \o <<x>>)[i] ELSE b[i - k]
  <2> DEFINE c == a \o <<x>>
  <2> HIDE DEF c
  <2>1. c \in Seq(T) /\ Len(c) = k
    BY <1>6 DEF c
  <2>2. /\ c \o b \in Seq(T) /\ Len(c \o b) = Len(c) + Len(b)
        /\ \A i \in 1..(Len(c) + Len(b)) : (c \o b)[i] = IF i <= Len(c) THEN c[i] ELSE b[i - Len(c)]
    BY <2>1, <1>4, ConcatProperties
  <2> QED BY <2>1, <2>2 DEF c
<1> DEFINE c == a \o <<x>>
           d == c \o b
<1>8. ASSUME NEW i \in 1..(Len(s) + 1)
      PROVE  d[i] = IF i < k THEN s[i] ELSE IF i = k THEN x ELSE s[i - 1]
  <2>1. \A j \in 1..k : c[j] = IF j < k THEN s[j] ELSE x
    BY <1>6
  <2>2. \A j \in 1..(k + Len(b)) : d[j] = IF j <= k THEN c[j] ELSE b[j - k]
    BY <1>7
  <2> HIDE DEF c, d
  <2>3. i \in 1..(k + Len(b)) /\ i \in Int
    BY <1>2, <1>4
  <2>4. d[i] = IF i <= k THEN c[i] ELSE b[i - k]
    BY <2>2, <2>3
  <2>5. CASE i <= k
    <3>1. i \in 1..k
      BY <2>5
    <3> QED BY <3>1, <2>1, <2>4, <2>5, <1>2
  <2>6. CASE i > k
    <3>1. i - k \in 1..(Len(s) + 1 - k) /\ k + (i - k) - 1 = i - 1
      BY <2>6, <1>2
    <3>2. b[i - k] = s[i - 1]
      BY <3>1, <1>4
    <3> QED BY <3>2, <2>4, <2>6, <1>2
  <2> QED BY <2>3, <2>5, <2>6, <1>2
<1>9. Commits!InsertAt(s, k, x) = d /\ d \in Seq(T) /\ Len(d) = Len(s) + 1
  BY <1>1, <1>2, <1>4, <1>7
<1> HIDE DEF d
<1> QED BY <1>8, <1>9

\* A field that the reader does not know changes nothing, wherever it stands.
LEMMA InsertedGives ==
  ASSUME NEW n \in Nat, NEW T, NEW F \in Seq(T), Len(F) = n, NEW zero, NEW d, Gives(F, zero, d),
         NEW g, g[1] \notin DOMAIN zero, g[1] # Overlong, NEW k \in 1..(n + 1)
  PROVE  Len(Commits!InsertAt(F, k, g)) = n + 1 /\ Gives(Commits!InsertAt(F, k, g), zero, d)
<1> DEFINE G == Commits!InsertAt(F, k, g)
           U == T \cup {g}
<1>1. F \in Seq(U) /\ g \in U /\ Len(F) = n
  OBVIOUS
<1> HIDE DEF U
<1>2. /\ Len(G) = n + 1
      /\ \A j \in 1..(n + 1) : G[j] = IF j < k THEN F[j] ELSE IF j = k THEN g ELSE F[j - 1]
  <2>1. k \in 1..(Len(F) + 1)
    BY <1>1
  <2> HIDE DEF G
  <2>2. /\ Len(Commits!InsertAt(F, k, g)) = Len(F) + 1
        /\ \A j \in 1..(Len(F) + 1) :
             Commits!InsertAt(F, k, g)[j] = IF j < k THEN F[j] ELSE IF j = k THEN g ELSE F[j - 1]
    BY <1>1, <2>1, InsertedAt
  <2> QED BY <1>1, <2>2 DEF G
<1> HIDE DEF G
<1>3. ASSUME NEW j \in 1..(n + 1) PROVE G[j] = g \/ \E i \in 1..n : G[j] = F[i]
  <2>1. G[j] = IF j < k THEN F[j] ELSE IF j = k THEN g ELSE F[j - 1]
    BY <1>2
  <2>2. (j < k => j \in 1..n) /\ (j > k => j - 1 \in 1..n) /\ (j < k \/ j = k \/ j > k)
    OBVIOUS
  <2>3. CASE j < k
    <3>1. G[j] = F[j] /\ j \in 1..n
      BY <2>1, <2>2, <2>3
    <3> QED BY <3>1
  <2>4. CASE j = k
    BY <2>1, <2>4
  <2>5. CASE j > k
    <3>1. G[j] = F[j - 1] /\ j - 1 \in 1..n
      BY <2>1, <2>2, <2>5
    <3> QED BY <3>1
  <2> QED BY <2>2, <2>3, <2>4, <2>5
<1>4. ASSUME NEW i \in 1..n PROVE \E j \in 1..(n + 1) : G[j] = F[i]
  <2>1. CASE i < k
    <3>1. i \in 1..(n + 1)
      BY <2>1
    <3>2. G[i] = F[i]
      BY <1>2, <2>1, <3>1
    <3> QED BY <3>1, <3>2
  <2>2. CASE i >= k
    <3>1. i + 1 \in 1..(n + 1) /\ (i + 1) - 1 = i /\ ~(i + 1 < k) /\ i + 1 # k
      BY <2>2
    <3>2. G[i + 1] = F[(i + 1) - 1]
      <4> DEFINE m == i + 1
      <4>1. G[m] = IF m < k THEN F[m] ELSE IF m = k THEN g ELSE F[m - 1]
        BY <1>2, <3>1
      <4> QED BY <3>1, <4>1
    <3> QED BY <3>1, <3>2
  <2> QED BY <2>1, <2>2
<1>5. ASSUME NEW j \in 1..(n + 1)
      PROVE /\ G[j][1] # Overlong
            /\ G[j][1] \in DOMAIN zero =>
                 Commits!Readable(G[j][1], G[j][2]) /\ (IsSet(G[j]) => Held(G[j]) = d[G[j][1]])
  <2>1. CASE G[j] = g
    BY <2>1
  <2>2. CASE \E i \in 1..n : G[j] = F[i]
    BY <1>1, <2>2 DEF Gives
  <2> QED BY <1>3, <2>1, <2>2
<1>6. ASSUME NEW f \in DOMAIN zero, d[f] # zero[f] PROVE \E j \in 1..(n + 1) : G[j][1] = f /\ IsSet(G[j])
  <2>1. PICK i \in 1..n : F[i][1] = f /\ IsSet(F[i])
    BY <1>1, <1>6 DEF Gives
  <2> QED BY <1>4, <2>1
<1>7. DOMAIN d = DOMAIN zero /\ d = [f \in DOMAIN zero |-> d[f]]
  BY DEF Gives
<1>8. Gives(G, zero, d)
  BY <1>2, <1>5, <1>6, <1>7 DEF Gives
<1> QED BY <1>2, <1>8 DEF G

\* The fields that the two readers know.
LEMMA Zeros ==
  /\ DOMAIN Commits!UnsignedZero = {"did", "rev", "data", "prev", "version"} /\ IsZero(Commits!UnsignedZero)
  /\ DOMAIN Commits!SignedZero = Names /\ IsZero(Commits!SignedZero)
  BY DEF Commits!UnsignedZero, Commits!SignedZero, IsZero, Names

\* The names of both commits are listed.
LEMMA Listing ==
  ASSUME NEW c
  PROVE  /\ \E n \in Nat : /\ Commits!UnsignedNames(c) \in [1..n -> DOMAIN Commits!UnsignedZero]
                           /\ Listed(Commits!UnsignedZero, c, n, Commits!UnsignedNames(c))
         /\ \E n \in Nat : /\ Commits!SignedNames(c) \in [1..n -> DOMAIN Commits!SignedZero]
                           /\ Listed(Commits!SignedZero, c, n, Commits!SignedNames(c))
<1>1. CASE c.rev = ""
  <2> DEFINE u == <<"did", "data", "prev", "version">>
             s == <<"did", "sig", "data", "prev", "version">>
  <2>1. Commits!UnsignedNames(c) = u /\ Commits!SignedNames(c) = s
    BY <1>1 DEF Commits!UnsignedNames, Commits!SignedNames
  <2>2. u \in [1..4 -> DOMAIN Commits!UnsignedZero] /\ s \in [1..5 -> DOMAIN Commits!SignedZero]
    BY Zeros DEF Names
  <2>3. u[1] = "did" /\ u[2] = "data" /\ u[3] = "prev" /\ u[4] = "version"
    OBVIOUS
  <2>4. s[1] = "did" /\ s[2] = "sig" /\ s[3] = "data" /\ s[4] = "prev" /\ s[5] = "version"
    OBVIOUS
  <2> HIDE DEF u, s
  <2>5. Listed(Commits!UnsignedZero, c, 4, u)
    <3>1. ASSUME NEW f \in DOMAIN Commits!UnsignedZero PROVE f \in {u[1], u[2], u[3], u[4]} \/ f = "rev"
      BY <2>3, Zeros DEF Names
    <3>2. 1 \in 1..4 /\ 2 \in 1..4 /\ 3 \in 1..4 /\ 4 \in 1..4
      OBVIOUS
    <3>3. ASSUME NEW f \in {u[1], u[2], u[3], u[4]} PROVE \E i \in 1..4 : u[i] = f
      BY <3>2
    <3> QED BY <1>1, <3>1, <3>3 DEF Listed
  <2>6. Listed(Commits!SignedZero, c, 5, s)
    <3>1. ASSUME NEW f \in DOMAIN Commits!SignedZero PROVE f \in {s[1], s[2], s[3], s[4], s[5]} \/ f = "rev"
      BY <2>4, Zeros DEF Names
    <3>2. 1 \in 1..5 /\ 2 \in 1..5 /\ 3 \in 1..5 /\ 4 \in 1..5 /\ 5 \in 1..5
      OBVIOUS
    <3>3. ASSUME NEW f \in {s[1], s[2], s[3], s[4], s[5]} PROVE \E i \in 1..5 : s[i] = f
      BY <3>2
    <3> QED BY <1>1, <3>1, <3>3 DEF Listed
  <2> QED BY <2>1, <2>2, <2>5, <2>6
<1>2. CASE c.rev # ""
  <2> DEFINE u == <<"did", "rev", "data", "prev", "version">>
             s == <<"did", "rev", "sig", "data", "prev", "version">>
  <2>1. Commits!UnsignedNames(c) = u /\ Commits!SignedNames(c) = s
    BY <1>2 DEF Commits!UnsignedNames, Commits!SignedNames
  <2>2. u \in [1..5 -> DOMAIN Commits!UnsignedZero] /\ s \in [1..6 -> DOMAIN Commits!SignedZero]
    BY Zeros DEF Names
  <2>3. u[1] = "did" /\ u[2] = "rev" /\ u[3] = "data" /\ u[4] = "prev" /\ u[5] = "version"
    OBVIOUS
  <2>4. s[1] = "did" /\ s[2] = "rev" /\ s[3] = "sig" /\ s[4] = "data" /\ s[5] = "prev" /\ s[6] = "version"
    OBVIOUS
  <2> HIDE DEF u, s
  <2>5. Listed(Commits!UnsignedZero, c, 5, u)
    <3>1. ASSUME NEW f \in DOMAIN Commits!UnsignedZero PROVE f \in {u[1], u[2], u[3], u[4], u[5]}
      BY <2>3, Zeros DEF Names
    <3>2. 1 \in 1..5 /\ 2 \in 1..5 /\ 3 \in 1..5 /\ 4 \in 1..5 /\ 5 \in 1..5
      OBVIOUS
    <3>3. ASSUME NEW f \in {u[1], u[2], u[3], u[4], u[5]} PROVE \E i \in 1..5 : u[i] = f
      BY <3>2
    <3> QED BY <3>1, <3>3 DEF Listed
  <2>6. Listed(Commits!SignedZero, c, 6, s)
    <3>1. ASSUME NEW f \in DOMAIN Commits!SignedZero PROVE f \in {s[1], s[2], s[3], s[4], s[5], s[6]}
      BY <2>4, Zeros DEF Names
    <3>2. 1 \in 1..6 /\ 2 \in 1..6 /\ 3 \in 1..6 /\ 4 \in 1..6 /\ 5 \in 1..6 /\ 6 \in 1..6
      OBVIOUS
    <3>3. ASSUME NEW f \in {s[1], s[2], s[3], s[4], s[5], s[6]} PROVE \E i \in 1..6 : s[i] = f
      BY <3>2
    <3> QED BY <3>1, <3>3 DEF Listed
  <2> QED BY <2>1, <2>2, <2>5, <2>6
<1> QED BY <1>1, <1>2

\* Fields that are written, and what they give.
Written(F, zero, d) ==
  /\ Len(F) \in Nat /\ F \in Seq({F[i] : i \in 1..Len(F)})
  /\ Gives(F, zero, d)
  /\ Commits!Marshal(F) = Commits!Stream(F)

\* The fields of an unsigned commit give it back.
LEMMA UnsignedIsRead ==
  ASSUME Commits!CommitCodecAssumption, NEW c, HasFields(Commits!UnsignedZero, c),
         Commits!Marshal(Commits!UnsignedFields(c)) # <<>>
  PROVE  Written(Commits!UnsignedFields(c), Commits!UnsignedZero, c)
<1> DEFINE names == Commits!UnsignedNames(c)
<1>1. PICK n \in Nat : /\ names \in [1..n -> DOMAIN Commits!UnsignedZero]
                       /\ Listed(Commits!UnsignedZero, c, n, names)
  BY Listing
<1> HIDE DEF names
<1>2. Commits!UnsignedFields(c) = Commits!Fields(names, c)
  BY DEF Commits!UnsignedFields, names
<1> DEFINE F == Commits!Fields(names, c)
<1>3. DOMAIN names = 1..n
  BY <1>1
<1>4. F = [i \in 1..n |-> F[i]] /\ Len(F) = n
  BY <1>3, FieldsOf
<1>5. Gives(F, Commits!UnsignedZero, c) /\ Commits!Marshal(F) = Commits!Stream(F)
  BY <1>1, <1>2, Zeros, FieldsGive
<1> HIDE DEF F
<1>6. F \in Seq({F[i] : i \in 1..n})
  BY <1>4, LengthOf
<1> QED BY <1>2, <1>4, <1>5, <1>6 DEF Written, F

\* The fields of a signed commit give it back.
LEMMA SignedIsWritten ==
  ASSUME Commits!CommitCodecAssumption, NEW d, HasFields(Commits!SignedZero, d),
         Commits!Marshal(Commits!SignedFields(d)) # <<>>
  PROVE  Written(Commits!SignedFields(d), Commits!SignedZero, d)
<1> DEFINE names == Commits!SignedNames(d)
<1>1. PICK n \in Nat : /\ names \in [1..n -> DOMAIN Commits!SignedZero]
                       /\ Listed(Commits!SignedZero, d, n, names)
  BY Listing
<1> HIDE DEF names
<1>2. Commits!SignedFields(d) = Commits!Fields(names, d)
  BY DEF Commits!SignedFields, names
<1> DEFINE F == Commits!Fields(names, d)
<1>3. DOMAIN names = 1..n
  BY <1>1
<1>4. F = [i \in 1..n |-> F[i]] /\ Len(F) = n
  BY <1>3, FieldsOf
<1>5. Gives(F, Commits!SignedZero, d) /\ Commits!Marshal(F) = Commits!Stream(F)
  BY <1>1, <1>2, Zeros, FieldsGive
<1> HIDE DEF F
<1>6. F \in Seq({F[i] : i \in 1..n})
  BY <1>4, LengthOf
<1> QED BY <1>2, <1>4, <1>5, <1>6 DEF Written, F

\* The signed commit has the fields of the unsigned one, which is what was signed.
LEMMA SignedHasFields ==
  ASSUME Commits!CommitCodecAssumption, NEW c, Commits!IsCommit(c), NEW d, d = Commits!WithSig(c)
  PROVE  /\ HasFields(Commits!UnsignedZero, c) /\ HasFields(Commits!SignedZero, d)
         /\ d["sig"] = Commits!Marshal(Commits!UnsignedFields(c))
         /\ Commits!Unsigned(d) = c
         /\ Commits!UnsignedFields(d) = Commits!UnsignedFields(c)
<1>1. /\ DOMAIN c = DOMAIN Commits!UnsignedZero /\ c = [f \in DOMAIN Commits!UnsignedZero |-> c[f]]
      /\ c.version \in -Half..(Half - 1)
  BY DEF Commits!IsCommit, Commits!UnsignedZero, Half
<1>2. /\ DOMAIN d = Names /\ d = [f \in Names |-> d[f]]
      /\ d["sig"] = Commits!Marshal(Commits!UnsignedFields(c))
      /\ \A f \in Names \ {"sig"} : d[f] = c[f]
  BY Zeros DEF Commits!WithSig, Names
<1>3. HasFields(Commits!UnsignedZero, c)
  BY <1>1 DEF HasFields
<1>4. HasFields(Commits!SignedZero, d)
  <2>1. d["version"] = c["version"]
    BY <1>2 DEF Names
  <2> QED BY <1>1, <1>2, <2>1, Zeros DEF HasFields
<1>5. Commits!Unsigned(d) = c
  <2>1. \A f \in DOMAIN Commits!UnsignedZero : d[f] = c[f]
    BY <1>2, Zeros DEF Names
  <2> QED BY <1>1, <2>1 DEF Commits!Unsigned
<1>6. Commits!UnsignedFields(d) = Commits!UnsignedFields(c)
  <2>1. d.did = c.did /\ d.rev = c.rev /\ d.data = c.data /\ d.prev = c.prev /\ d.version = c.version
    BY <1>2 DEF Names
  <2>2. Commits!UnsignedNames(d) = Commits!UnsignedNames(c)
    BY <2>1 DEF Commits!UnsignedNames
  <2>3. \A f \in DOMAIN Commits!UnsignedZero : Commits!ItemOf(f, d) = Commits!ItemOf(f, c)
    BY <2>1, Zeros, Zenon DEF Commits!ItemOf
  <2>4. PICK n \in Nat : Commits!UnsignedNames(c) \in [1..n -> DOMAIN Commits!UnsignedZero]
    BY Listing
  <2> QED BY <2>2, <2>3, <2>4 DEF Commits!UnsignedFields, Commits!Fields
<1> QED BY <1>2, <1>3, <1>4, <1>5, <1>6

\* A stream that ends before its head says is not read.
LEMMA CutFails ==
  ASSUME NEW F, Len(F) \in Nat, NEW zero, NEW n \in 0..(2 * Len(F))
  PROVE  Commits!Unmarshal(zero, SubSeq(Commits!Stream(F), 1, n)) = Commits!Failed
<1> DEFINE s == Commits!Stream(F)
           T == {s[i] : i \in DOMAIN s}
           t == SubSeq(s, 1, n)
<1>1. Len(s) = 2 * Len(F) + 1 /\ s[1] = <<"map", Len(F)>> /\ s \in Seq(T)
  <2>1. s = Commits!Stream(F)
    OBVIOUS
  <2> HIDE DEF s
  <2> QED BY <2>1, Streams
<1> HIDE DEF s, T
<1>2. Len(t) = n /\ (n >= 1 => t[1] = s[1])
  <2>1. \A i \in 1..Len(s) : s[i] \in T
    BY <1>1, ElementOfSeq
  <2>2. 1 \in Int /\ n \in Int /\ \A i \in 1..n : s[i] \in T
    BY <1>1, <2>1
  <2> HIDE DEF t
  <2>3. /\ Len(SubSeq(s, 1, n)) = IF 1 <= n THEN n - 1 + 1 ELSE 0
        /\ \A i \in 1..(n - 1 + 1) : SubSeq(s, 1, n)[i] = s[1 + i - 1]
    BY <1>1, <2>2, SubSeqProperties
  <2> QED BY <2>3 DEF t
<1> HIDE DEF t
<1>3. CASE n = 0
  <2>1. t = <<>>
    BY <1>1, <1>2, <1>3, EmptySeq DEF t
  <2> QED BY <2>1 DEF Commits!Unmarshal, t, s
<1>4. CASE n >= 1
  <2>1. t[1] = <<"map", Len(F)>>
    BY <1>1, <1>2, <1>4
  <2>2. t[1][2] = Len(F)
    BY <2>1
  <2>3. Len(t) < 2 * t[1][2] + 1
    BY <1>2, <2>2
  <2> QED BY <2>3 DEF Commits!Unmarshal, t, s
<1> QED BY <1>3, <1>4

\* A commit that can be signed is read back as it was signed, whatever field of another
\* writer stands among its own, so that its reader can encode the bytes that the signature
\* is over, and nothing that was cut off is read at all: for integers of any width, with any
\* texts and links (MarshalCBOR and UnmarshalCBOR, cbor.go, SignCommitWithSigner, ops.go).
LEMMA CommitIsRead ==
  ASSUME Commits!CommitCodecAssumption, NEW c, Commits!IsCommit(c),
         NEW name, name \notin DOMAIN Commits!SignedZero \cup {Overlong}, NEW item
  PROVE  Commits!SignedIsRead(c, name, item)
<1> DEFINE s     == Commits!SignCommit(c)
           unsig == Commits!Marshal(Commits!UnsignedFields(c))
           d     == Commits!WithSig(c)
           F     == Commits!SignedFields(d)
           more(i) == Commits!InsertAt(F, i, <<name, item>>)
<1>1. SUFFICES ASSUME s # <<>>
               PROVE  /\ Commits!UnmarshalUnsigned(unsig) = c
                      /\ \A i \in 1..(Len(F) + 1) :
                           LET e == Commits!UnmarshalSigned(Commits!Stream(more(i)))
                           IN  Commits!Unsigned(e) = c /\ Commits!Marshal(Commits!UnsignedFields(e)) = e.sig
                      /\ \A n \in 0..(Len(s) - 1) : Commits!UnmarshalSigned(SubSeq(s, 1, n)) = Commits!Failed
  BY Zenon DEF Commits!SignedIsRead
<1>2. unsig # <<>> /\ Commits!Marshal(F) # <<>> /\ s = Commits!Marshal(F)
  BY <1>1 DEF Commits!SignCommit
<1>3. /\ HasFields(Commits!UnsignedZero, c) /\ HasFields(Commits!SignedZero, d)
      /\ d["sig"] = unsig /\ Commits!Unsigned(d) = c
      /\ Commits!UnsignedFields(d) = Commits!UnsignedFields(c)
  BY SignedHasFields
<1>4. Written(Commits!UnsignedFields(c), Commits!UnsignedZero, c)
  BY <1>2, <1>3, UnsignedIsRead
<1>5. Written(F, Commits!SignedZero, d)
  <2> HIDE DEF d
  <2> QED BY <1>2, <1>3, SignedIsWritten
<1> HIDE DEF s, d, unsig
<1>6. Commits!UnmarshalUnsigned(unsig) = c
  BY <1>4, IsGiven DEF Written, unsig, Commits!UnmarshalUnsigned
<1>7. ASSUME NEW i \in 1..(Len(F) + 1) PROVE Commits!UnmarshalSigned(Commits!Stream(more(i))) = d
  <2> DEFINE g == <<name, item>>
  <2>1. g[1] = name
    OBVIOUS
  <2>2. g[1] \notin DOMAIN Commits!SignedZero /\ g[1] # Overlong
    BY <2>1
  <2> HIDE DEF g
  <2>3. Len(Commits!InsertAt(F, i, g)) = Len(F) + 1 /\ Gives(Commits!InsertAt(F, i, g), Commits!SignedZero, d)
    <3> DEFINE T == {F[j] : j \in 1..Len(F)}
    <3>1. Len(F) \in Nat /\ F \in Seq(T) /\ Gives(F, Commits!SignedZero, d)
      BY <1>5 DEF Written
    <3> HIDE DEF T, F
    <3> QED BY <2>2, <3>1, InsertedGives
  <2>4. Len(F) + 1 \in Nat
    BY <1>5 DEF Written
  <2> HIDE DEF F
  <2>5. Commits!Unmarshal(Commits!SignedZero, Commits!Stream(Commits!InsertAt(F, i, g))) = d
    BY <2>3, <2>4, IsGiven
  <2> QED BY <2>5 DEF g, Commits!UnmarshalSigned
<1>8. ASSUME NEW n \in 0..(Len(s) - 1) PROVE Commits!UnmarshalSigned(SubSeq(s, 1, n)) = Commits!Failed
  <2> HIDE DEF F
  <2>1. s = Commits!Stream(F) /\ Len(F) \in Nat
    BY <1>2, <1>5 DEF Written
  <2>2. Len(s) = 2 * Len(F) + 1
    BY <2>1, Streams
  <2>3. n \in 0..(2 * Len(F))
    BY <2>1, <2>2
  <2> QED BY <2>1, <2>3, CutFails DEF Commits!UnmarshalSigned
<1> HIDE DEF F, more
<1>9. Commits!Marshal(Commits!UnsignedFields(d)) = d.sig
  BY <1>3 DEF unsig
<1> QED BY <1>3, <1>6, <1>7, <1>8, <1>9

-----------------------------------------------------------------------------
(* Encodings *)

\* The answers given are of the kinds that AnswerIsRelayed is about.
LEMMA AnswersGiven == ASSUME NEW answer \in ErrorInput PROVE IsAnswer(answer)
<1>1. ASSUME NEW e \in SomeResponse PROVE IsResponse(e)
  <2>1. e = Errors!Response(e.code, e.message, e.status) /\ e.status \in Int
    BY EncodingsAssumption
  <2> QED BY <2>1 DEF IsResponse
<1>2. ASSUME NEW err \in SomeError PROVE IsErr(err)
  <2> DEFINE Layer == {Errors!Wrapping, Errors!Plain} \cup SomeResponse
  <2>1. err \in Seq(Layer)
    BY EncodingsAssumption
  <2> HIDE DEF Layer
  <2>2. Len(err) \in Nat /\ \A i \in 1..Len(err) : err[i] \in Layer
    BY <2>1, LenProperties, ElementOfSeq
  <2> QED BY <1>1, <2>2 DEF IsErr, Layer
<1>3. CASE answer \in BareAnswer
  BY <1>3, EncodingsAssumption DEF IsAnswer, BareAnswer
<1>4. CASE answer \in ErrAnswer
  <2>1. PICK err \in SomeError, default \in DOMAIN Errors!StatusTable \ {"Success"} :
               answer = Errors!WriteError(err, default)
    BY <1>4, Zenon DEF ErrAnswer
  <2>2. IsErr(err) /\ default \in DOMAIN Errors!StatusTable
    BY <1>2
  <2> QED BY <2>1, <2>2, Zenon DEF IsAnswer
<1>5. CASE answer \in ResponseAnswer
  BY <1>1, <1>5 DEF IsAnswer, ResponseAnswer
<1> QED BY <1>3, <1>4, <1>5, Zenon DEF ErrorInput

\* What is given is an input of the subject.
IsInput == given # NoValue => given \in Input

LEMMA InputInvariance == EncodingsSpec => []IsInput
<1>1. EncodingsInit => IsInput
  BY DEF EncodingsInit, IsInput
<1>2. IsInput /\ [EncodingsNext]_<<write, given, subject>> => IsInput'
  <2> SUFFICES ASSUME IsInput, [EncodingsNext]_<<write, given, subject>> PROVE IsInput'
    OBVIOUS
  <2>1. CASE UNCHANGED <<given, subject>>
    BY <2>1 DEF IsInput, Input
  <2>2. CASE Pick
    BY <2>2 DEF Pick, IsInput, Input
  <2>3. CASE PutBack
    BY <2>3 DEF PutBack, IsInput
  <2> QED BY <2>1, <2>2, <2>3 DEF EncodingsNext, WriteStep
<1> QED BY <1>1, <1>2, PTL DEF EncodingsSpec

\* Every commit that is given is read as it was signed, whatever its integers' width
\* (SignedCommit.MarshalCBOR and UnmarshalCBOR, cbor.go).
THEOREM CommitsAreRead == EncodingsSpec => []SignedIsRead
<1>1. IsInput => SignedIsRead
  <2> SUFFICES ASSUME IsInput, Given("commits") PROVE Commits!SignedIsRead(given[1], given[2], given[3])
    BY DEF SignedIsRead
  <2>1. given \in CommitInput
    BY DEF IsInput, Given, Input
  <2>2. Commits!IsCommit(given[1]) /\ given[2] \notin DOMAIN Commits!SignedZero \cup {Overlong}
    BY <2>1, EncodingsAssumption
  <2> QED BY <2>2, EncodingsAssumption, CommitIsRead
<1> QED BY <1>1, InputInvariance, PTL

\* Every query that is given is read as its client wrote it, or refused as the lexicon
\* wants it (toQuery and fromQuery, generator.go).
THEOREM QueriesAreRead == EncodingsSpec => []QueryIsRead
<1>1. IsInput => QueryIsRead
  <2> SUFFICES ASSUME IsInput, Given("query") PROVE Query!QueryIsRead(given[1], given[2])
    BY DEF QueryIsRead
  <2>1. given \in QueryInput
    BY DEF IsInput, Given, Input
  <2>2. given[1] \in Query!Property /\ given[2] \in Query!FieldValues(given[1])
    BY <2>1, EncodingsAssumption
  <2> QED BY <2>2, EncodingsAssumption, QueryRead
<1> QED BY <1>1, InputInvariance, PTL

\* Every answer that is given tells its caller the same after any number of legs
\* (WriteError, error.go, and Client.do, client.go).
THEOREM ErrorsAreRelayed == EncodingsSpec => []ErrorIsRelayed
<1>1. IsInput => ErrorIsRelayed
  <2> SUFFICES ASSUME IsInput, Given("errors") PROVE Errors!ErrorIsRelayed(given)
    BY DEF ErrorIsRelayed
  <2>1. given \in ErrorInput
    BY DEF IsInput, Given, Input
  <2> QED BY <2>1, AnswersGiven, AnswerIsRelayed
<1> QED BY <1>1, InputInvariance, PTL
=============================================================================
