----------------------------- MODULE BlobStore -----------------------------
(***************************************************************************)
(* The blob files of one account (internal/repo/blobstore.go): a temporary *)
(* file, permanent files by cid, quarantined files by cid.  Files are      *)
(* written in place, chunk by chunk, through descriptors that follow a     *)
(* file wherever it is renamed or unlinked.  Every temporary file has the  *)
(* same key, so one uploader works at a time; a moderator works beside it. *)
(***************************************************************************)
EXTENDS Naturals, FiniteSets

CONSTANTS
  Cid,      \* blobs, by the cid of their bytes
  Inode,    \* files, a bound
  Nothing,  \* no file, or no bytes
  Faults    \* who may meet a failing disk: "up", "mod"

\* What is assumed of them; the module that gives them values checks it.
BlobStoreAssumption ==
  Nothing \notin Cid \cup Inode /\ IsFiniteSet(Inode) /\ Faults \subseteq {"up", "mod"}

Chunks == {1, 2}

VARIABLES
  data,    \* what each chunk of each file holds
  temp,    \* the file under the temporary key
  stored,  \* the permanent file of each cid
  quar,    \* the quarantined file of each cid
  home,    \* the directory of permanent files exists
  up,      \* the uploader: place, blob, open files, next chunk
  mod,     \* the moderator
  broke    \* history: a read or write of a file has failed

dirs == <<temp, stored, quar, home>>
vars == <<data, dirs, up, mod, broke>>

Idle == [pc |-> "idle", blob |-> Nothing, src |-> Nothing, dst |-> Nothing, at |-> 1, kept |-> FALSE]

Init ==
  /\ data = [i \in Inode |-> [k \in Chunks |-> Nothing]]
  /\ temp = Nothing
  /\ stored = [c \in Cid |-> Nothing] /\ quar = [c \in Cid |-> Nothing]
  /\ home = FALSE
  /\ up = Idle /\ mod = Idle /\ broke = FALSE

Whole(i, c) == i # Nothing /\ \A k \in Chunks : data[i][k] = c

InUse == {temp, up.src, up.dst, mod.dst} \cup {stored[c] : c \in Cid} \cup {quar[c] : c \in Cid}

\* O_CREATE|O_TRUNC: an existing file is emptied, else an unused one is taken
\* (and the bytes of files that nobody holds are forgotten).
Open(old, i) ==
  IF old # Nothing THEN i = old ELSE i \notin InUse /\ i = CHOOSE j \in Inode \ InUse : TRUE
Emptied(i)   == [j \in Inode |-> IF j = i \/ j \notin InUse THEN [k \in Chunks |-> Nothing] ELSE data[j]]
Written(i, k, x) == [data EXCEPT ![i][k] = x]

-----------------------------------------------------------------------------
\* An upload: PutTemp and then MakePermanent.

\* An error gives the upload up; the descriptors are closed, the bytes stay.
UpFails == "up" \in Faults /\ up.pc \in {"temp", "copy"} /\ up' = Idle /\ broke' = TRUE
           /\ UNCHANGED <<data, dirs, mod>>

PutTemp(c) ==
  /\ up.pc = "idle"
  /\ \E i \in Inode : Open(temp, i) /\ temp' = i /\ data' = Emptied(i)
                      /\ up' = [Idle EXCEPT !.pc = "temp", !.blob = c, !.dst = i]
  /\ UNCHANGED <<stored, quar, home, mod>>

WriteTemp ==
  /\ up.pc = "temp"
  /\ IF up.at \in Chunks
     THEN /\ data' = Written(up.dst, up.at, up.blob)
          /\ up' = [up EXCEPT !.at = @ + 1]
     ELSE /\ up' = [Idle EXCEPT !.pc = "put", !.blob = up.blob]
          /\ UNCHANGED data
  /\ UNCHANGED <<dirs, mod>>

\* MakePermanent makes the directory and looks for the permanent file.
HasStored ==
  /\ up.pc = "put"
  /\ home' = TRUE
  /\ up' = [up EXCEPT !.pc = IF stored[up.blob] # Nothing THEN "remove" ELSE "open",
                      !.kept = Whole(temp, up.blob)]
  /\ UNCHANGED <<data, temp, stored, quar, mod>>

\* copyFile opens its source, which DeleteAll may have taken away ...
OpenTemp ==
  /\ up.pc = "open"
  /\ up' = IF temp = Nothing THEN Idle ELSE [up EXCEPT !.pc = "create", !.src = temp]
  /\ UNCHANGED <<data, dirs, mod>>

\* ... and its target, whose directory it may have taken away.
CreateStored ==
  /\ up.pc = "create" /\ home
  /\ \E i \in Inode : /\ Open(stored[up.blob], i)
                      /\ stored' = [stored EXCEPT ![up.blob] = i] /\ data' = Emptied(i)
                      /\ up' = [up EXCEPT !.pc = "copy", !.dst = i]
  /\ UNCHANGED <<temp, quar, home, mod>>

CreateFails == up.pc = "create" /\ ~home /\ up' = Idle /\ UNCHANGED <<data, dirs, mod>>

\* Wrong: the source is looked up again for every chunk.
CopyByPath ==
  /\ up.pc = "copy"
  /\ IF up.at \in Chunks /\ temp # Nothing /\ data[up.src][up.at] # Nothing
     THEN /\ data' = Written(up.dst, up.at, data[up.src][up.at])
          /\ up' = [up EXCEPT !.at = @ + 1]
     ELSE /\ up' = [up EXCEPT !.pc = "remove", !.src = Nothing, !.dst = Nothing]
          /\ UNCHANGED data
  /\ UNCHANGED <<dirs, mod>>

\* io.Copy, chunk by chunk until the source ends.
CopyChunk ==
  /\ up.pc = "copy"
  /\ IF up.at \in Chunks /\ data[up.src][up.at] # Nothing
     THEN /\ data' = Written(up.dst, up.at, data[up.src][up.at])
          /\ up' = [up EXCEPT !.at = @ + 1]
     ELSE /\ up' = [up EXCEPT !.pc = "remove", !.src = Nothing, !.dst = Nothing]
          /\ UNCHANGED data
  /\ UNCHANGED <<dirs, mod>>

\* The temporary file goes; a failure to remove it is ignored.
RemoveTemp ==
  /\ up.pc = "remove"
  /\ temp' = Nothing
  /\ up' = [up EXCEPT !.pc = "moved", !.src = Nothing, !.dst = Nothing]
  /\ UNCHANGED <<data, stored, quar, home, mod>>

KeepTemp ==
  /\ "up" \in Faults /\ up.pc = "remove"
  /\ up' = [up EXCEPT !.pc = "moved", !.src = Nothing, !.dst = Nothing]
  /\ UNCHANGED <<data, dirs, mod>>

\* The upload has its answer.
UpReturns == up.pc = "moved" /\ up' = Idle /\ UNCHANGED <<data, dirs, mod>>

-----------------------------------------------------------------------------
\* Everybody else.

PutPermanent(c) ==
  /\ mod.pc = "idle"
  /\ \E i \in Inode : /\ Open(stored[c], i)
                      /\ stored' = [stored EXCEPT ![c] = i] /\ data' = Emptied(i)
                      /\ mod' = [Idle EXCEPT !.pc = "write", !.blob = c, !.dst = i]
  /\ home' = TRUE
  /\ UNCHANGED <<temp, quar, up>>

WritePermanent ==
  /\ mod.pc = "write"
  /\ IF mod.at \in Chunks
     THEN data' = Written(mod.dst, mod.at, mod.blob) /\ mod' = [mod EXCEPT !.at = @ + 1]
     ELSE mod' = Idle /\ UNCHANGED data
  /\ UNCHANGED <<dirs, up>>

ModFails == "mod" \in Faults /\ mod.pc = "write" /\ mod' = Idle /\ broke' = TRUE /\ UNCHANGED <<data, dirs, up>>

\* Renames: the target is replaced, a missing source is an error.
Quarantine(c) ==
  /\ mod.pc = "idle" /\ stored[c] # Nothing
  /\ quar' = [quar EXCEPT ![c] = stored[c]] /\ stored' = [stored EXCEPT ![c] = Nothing]
  /\ UNCHANGED <<data, temp, home, up, mod>>

Unquarantine(c) ==
  /\ mod.pc = "idle" /\ quar[c] # Nothing
  /\ stored' = [stored EXCEPT ![c] = quar[c]] /\ quar' = [quar EXCEPT ![c] = Nothing]
  /\ home' = TRUE
  /\ UNCHANGED <<data, temp, up, mod>>

Delete(c) ==
  /\ mod.pc = "idle"
  /\ stored' = [stored EXCEPT ![c] = Nothing]
  /\ UNCHANGED <<data, temp, quar, home, up, mod>>

\* DeleteAll: three directories, one after another.
DeleteAll ==
  \/ /\ mod.pc = "idle" /\ mod' = [Idle EXCEPT !.pc = "temps"]
     /\ stored' = [c \in Cid |-> Nothing] /\ home' = FALSE
     /\ UNCHANGED <<data, temp, quar, up>>
  \/ /\ mod.pc = "temps" /\ mod' = [Idle EXCEPT !.pc = "quarantine"]
     /\ temp' = Nothing
     /\ UNCHANGED <<data, stored, quar, home, up>>
  \/ /\ mod.pc = "quarantine" /\ mod' = Idle
     /\ quar' = [c \in Cid |-> Nothing]
     /\ UNCHANGED <<data, temp, stored, home, up>>

Upload == (\E c \in Cid : PutTemp(c)) \/ WriteTemp \/ HasStored \/ OpenTemp
            \/ CreateStored \/ CreateFails \/ CopyChunk \/ RemoveTemp \/ KeepTemp \/ UpReturns
Moderate == (\E c \in Cid : PutPermanent(c) \/ Quarantine(c) \/ Unquarantine(c) \/ Delete(c))
              \/ WritePermanent \/ DeleteAll

Next == UpFails \/ ModFails \/ (UNCHANGED broke /\ (Upload \/ Moderate))

Spec == Init /\ [][Next]_vars

-----------------------------------------------------------------------------
\* Properties.

\* Until a file fails, nobody is left with half a blob: once neither copyFile nor
\* PutPermanent is at work, every permanent and quarantined file holds the
\* bytes of its cid, whatever was renamed, deleted or emptied meanwhile.
WholeWhenQuiet ==
  (~broke /\ up.pc # "copy" /\ mod.pc # "write") =>
     \A c \in Cid : \A i \in {stored[c], quar[c]} \ {Nothing} : Whole(i, c)

\* "MakePermanent moves a temporary file to permanent storage"
\* (internal/repo/blobstore.go:150): if the temporary file was whole, so is the
\* permanent one when the call answers nil, unless it was taken away or is
\* being written again.
MovedIsStored ==
  (up.pc = "moved" /\ up.kept /\ stored[up.blob] # Nothing /\ mod.pc # "write")
     => Whole(stored[up.blob], up.blob)
=============================================================================
