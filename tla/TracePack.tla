----------------------------- MODULE TracePack -----------------------------
(***************************************************************************)
(* rr pack: the files that the mapped regions of a trace take their data    *)
(* from are hashed, the ones outside the trace directory or hard-linked     *)
(* into it are copied, the mmaps substream is replaced by one that names    *)
(* one file for every content, and the files no longer named are deleted.   *)
(* The command may be killed anywhere and run again.                        *)
(*                                                                          *)
(* A name is a record of a directory ("trace", or one outside), a kind (the *)
(* prefix mmap_copy_, mmap_hardlink_... of files rr has made, or "plain")   *)
(* and the rest of it.                                                      *)
(***************************************************************************)
EXTENDS Integers, Sequences, FiniteSets

CONSTANTS
  Recordings,    \* what a recording may have left: [regions, names], see Init
  Contents,      \* contents of files
  MaxPack,       \* bound on the indexes of mmap_pack_ names
  MaxInode,      \* bound on the inodes
  MaxCrashes,    \* bound on the times the command is killed
  MaxWrites      \* bound on the writes of others to files outside the trace

Inodes == 1 .. MaxInode
NoFile == 0      \* not an inode

Partial == "partial"    \* the content of a file that is being copied

PackName(i) == [d |-> "trace", k |-> "pack", b |-> i]

IsName(n) == n = [d |-> n.d, k |-> n.k, b |-> n.b]

(* What a recording leaves: the regions are of files that exist, no mapped file
   is in a directory whose name only begins like that of the trace directory,
   and only a file named mmap_hardlink_ is a link to one outside it. *)
PackAssumption ==
  /\ MaxPack \in Nat /\ MaxInode \in Nat
  /\ \A r \in Recordings :
       /\ r.names \in [DOMAIN r.names -> Inodes]
       /\ r.regions \in [DOMAIN r.regions -> DOMAIN r.names]
       /\ \A n \in DOMAIN r.names : IsName(n) /\ n.d # "trace0"
       /\ \A n, m \in DOMAIN r.names :
            r.names[n] = r.names[m] /\ n.d = "trace" /\ n.k # "hardlink" => m.d = "trace"

VARIABLES
  fs,            \* the inode of every name, or NoFile
  data,          \* the content of every inode
  mmaps,         \* the mmaps substream: the name of the file of every region
  temp,          \* the new substream, pack_mmaps: <<>> or <<its regions>>
  pk,            \* the command
  want,          \* the content that was mapped, of every region
  crashes, writes

vars == <<fs, data, mmaps, temp, pk, want, crashes, writes>>

Names == DOMAIN fs

Idle == [pc |-> "idle", info |-> <<>>, rep |-> <<>>, todo |-> {}, new |-> 0,
         index |-> 0, del |-> {}]

Init ==
  \E r \in Recordings :
    /\ fs = [n \in DOMAIN r.names \cup {PackName(i) : i \in 0 .. MaxPack} |->
               IF n \in DOMAIN r.names THEN r.names[n] ELSE NoFile]
    /\ \E c \in [{r.names[n] : n \in DOMAIN r.names} -> Contents] :
         data = [i \in Inodes |-> IF i \in DOMAIN c THEN c[i] ELSE Partial]
    /\ mmaps = r.regions
    /\ want = [i \in DOMAIN r.regions |-> data[r.names[r.regions[i]]]]
    /\ temp = <<>>
    /\ pk = Idle
    /\ crashes = 0
    /\ writes = 0

(* (A hard link is taken for a file of the trace.) *)
LinkIsOwn(n) == FALSE

is_hardlink(n) == n.k = "hardlink"

(* The name begins with that of the trace directory. *)
is_in_trace_dir(n) == n.d \in {"trace", "trace0"}

(* The names the regions use, and their hashes.  A file that cannot be opened
   ends the command. *)
gather_file_info ==
  /\ pk.pc = "idle"
  /\ LET used == {mmaps[i] : i \in DOMAIN mmaps} IN
     IF \E n \in used : n \notin Names \/ fs[n] = NoFile
     THEN pk' = [Idle EXCEPT !.pc = "failed"]
     ELSE pk' = [Idle EXCEPT !.pc = "gathered", !.info = [n \in used |-> data[fs[n]]]]
  /\ UNCHANGED <<fs, data, mmaps, temp, want, crashes, writes>>

(* The names of one hash: one in the trace directory that is no hard link
   stands for them if there is one, and any other one otherwise. *)
Standing(h) ==
  LET all  == {n \in DOMAIN pk.info : pk.info[n] = h}
      good == {n \in all : ~is_hardlink(n) /\ is_in_trace_dir(n)}
  IN IF good # {} THEN good ELSE all

compute_canonical_mmapped_files ==
  /\ pk.pc = "gathered"
  /\ LET hashes == {pk.info[n] : n \in DOMAIN pk.info} IN
     \E rep \in [hashes -> DOMAIN pk.info] :
       /\ \A h \in hashes : rep[h] \in Standing(h)
       /\ pk' = [pk EXCEPT !.pc = "copy", !.rep = rep,
                   !.todo = {h \in hashes : is_hardlink(rep[h]) \/ ~is_in_trace_dir(rep[h])}]
  /\ UNCHANGED <<fs, data, mmaps, temp, want, crashes, writes>>

(* The lowest inode that no name has. *)
FreshInode(i) ==
  /\ i \in Inodes
  /\ \A n \in Names : fs[n] # i
  /\ \A j \in 1 .. i - 1 : \E n \in Names : fs[n] = j

(* copy_into_trace: a new file under the first name that is not taken... *)
CreateCopy ==
  /\ pk.pc = "copy"
  /\ pk.todo # {}
  /\ \E i \in pk.index .. MaxPack, inode \in Inodes :
       /\ fs[PackName(i)] = NoFile
       /\ \A j \in pk.index .. i - 1 : fs[PackName(j)] # NoFile
       /\ FreshInode(inode)
       /\ fs' = [fs EXCEPT ![PackName(i)] = inode]
       /\ data' = [data EXCEPT ![inode] = Partial]
       /\ pk' = [pk EXCEPT !.pc = "fill", !.new = i, !.index = i + 1]
  /\ UNCHANGED <<mmaps, temp, want, crashes, writes>>

(* ... which gets the content the file has by now. *)
FillCopy ==
  /\ pk.pc = "fill"
  /\ \E h \in pk.todo :
       /\ data' = [data EXCEPT ![fs[PackName(pk.new)]] = data[fs[pk.rep[h]]]]
       /\ pk' = [pk EXCEPT !.pc = "copy", !.rep[h] = PackName(pk.new), !.todo = @ \ {h}]
  /\ UNCHANGED <<fs, mmaps, temp, want, crashes, writes>>

(* The name that stands for n, taken to be one of the trace directory. *)
file_map(n) == [pk.rep[pk.info[n]] EXCEPT !.d = "trace"]

(* rewrite_mmaps: the new substream is written and closed.  Its file must not
   exist. *)
WriteTemp ==
  /\ pk.pc = "copy"
  /\ pk.todo = {}
  /\ IF temp # <<>> THEN pk' = [Idle EXCEPT !.pc = "failed"] /\ UNCHANGED temp
     ELSE /\ temp' = <<[i \in DOMAIN mmaps |-> file_map(mmaps[i])]>>
          /\ pk' = [pk EXCEPT !.pc = "written"]
  /\ UNCHANGED <<fs, data, mmaps, want, crashes, writes>>

(* (The files of the old substream are deleted before it is replaced.) *)
ReplaceLast ==
  /\ pk.pc = "written"
  /\ pk' = [pk EXCEPT !.pc = "delete",
       !.del = {n \in Names : /\ n.d = "trace" /\ n.k # "plain" /\ fs[n] # NoFile
                              /\ n \notin {file_map(m) : m \in DOMAIN pk.info}}]
  /\ mmaps' = mmaps
  /\ temp' = <<>>
  /\ UNCHANGED <<fs, data, want, crashes, writes>>

(* It replaces the old one. *)
RenameTemp ==
  /\ pk.pc = "written"
  /\ mmaps' = temp[1]
  /\ temp' = <<>>
  /\ pk' = [pk EXCEPT !.pc = "renamed"]
  /\ UNCHANGED <<fs, data, want, crashes, writes>>

(* delete_unnecessary_files: the directory is read... *)
ListFiles ==
  /\ pk.pc = "renamed"
  /\ pk' = [pk EXCEPT !.pc = "delete",
       !.del = {n \in Names : /\ n.d = "trace" /\ n.k # "plain" /\ fs[n] # NoFile
                              /\ n \notin {file_map(m) : m \in DOMAIN pk.info}}]
  /\ UNCHANGED <<fs, data, mmaps, temp, want, crashes, writes>>

(* ... and what no region uses is deleted, one file after the other. *)
DeleteFile ==
  /\ pk.pc = "delete"
  /\ IF pk.del = {} THEN pk' = [Idle EXCEPT !.pc = "done"] /\ UNCHANGED fs
     ELSE \E n \in pk.del : /\ fs' = [fs EXCEPT ![n] = NoFile]
                            /\ pk' = [pk EXCEPT !.del = @ \ {n}]
  /\ UNCHANGED <<data, mmaps, temp, want, crashes, writes>>

PackStep ==
  \/ gather_file_info \/ compute_canonical_mmapped_files \/ CreateCopy \/ FillCopy
  \/ WriteTemp \/ RenameTemp \/ ListFiles \/ DeleteFile

(* The command is killed, and may be run again; a run that has failed is given
   up. *)
Crash ==
  /\ crashes < MaxCrashes
  /\ pk.pc \notin {"idle", "done", "failed"}
  /\ crashes' = crashes + 1
  /\ pk' = Idle
  /\ UNCHANGED <<fs, data, mmaps, temp, want, writes>>

(* Packing a trace again. *)
Again ==
  /\ crashes < MaxCrashes
  /\ pk.pc = "done"
  /\ crashes' = crashes + 1
  /\ pk' = Idle
  /\ UNCHANGED <<fs, data, mmaps, temp, want, writes>>

(* Others overwrite or delete a file outside the trace, once it is packed. *)
Overwrite(n) ==
  /\ writes < MaxWrites
  /\ pk.pc = "done"
  /\ n.d # "trace"
  /\ fs[n] # NoFile
  /\ writes' = writes + 1
  /\ \/ \E c \in Contents : data' = [data EXCEPT ![fs[n]] = c] /\ UNCHANGED fs
     \/ fs' = [fs EXCEPT ![n] = NoFile] /\ UNCHANGED data
  /\ UNCHANGED <<mmaps, temp, pk, want, crashes>>

Next == PackStep \/ Crash \/ Again \/ \E n \in Names : Overwrite(n)

(* The command, once started, runs; and is run again after it was killed. *)
Spec == Init /\ [][Next]_vars /\ WF_vars(PackStep)

-----------------------------------------------------------------------------
(* The trace can be replayed at every moment - before, during and after a
   pack, wherever that is killed: every region finds its file, with the
   content that was mapped.  "BEFORE this point, we haven't altered any of the
   original trace files.  A crash might leave some mmap_pack_ files around but
   that's OK. [...] AFTER this point, we have altered the mmaps file and the
   trace remains valid" (rewrite_mmaps); and after the command the trace is
   "independent of changes to other files" (its help). *)
StaysReplayable ==
  \A i \in DOMAIN mmaps :
    mmaps[i] \in Names /\ fs[mmaps[i]] # NoFile /\ data[fs[mmaps[i]]] = want[i]

(* A completed pack leaves one file for every content that is mapped, a file
   of the trace directory that is no link to one outside, and no other file of
   its own: "a retried rr pack that runs to completion will clean them all
   up". *)
PackedIsClean ==
  pk.pc = "done" =>
    /\ \A i, j \in DOMAIN mmaps : want[i] = want[j] => mmaps[i] = mmaps[j]
    /\ \A i \in DOMAIN mmaps : mmaps[i].d = "trace" /\ mmaps[i].k # "hardlink"
    /\ \A n \in Names : n.d = "trace" /\ n.k # "plain" /\ fs[n] # NoFile =>
         n \in {mmaps[i] : i \in DOMAIN mmaps}

(* A pack that was killed can be completed by running it again, unless it was
   killed between the creation of pack_mmaps and its renaming. *)
PackCompletes == [](pk.pc = "idle" => temp = <<>>) => <>(pk.pc = "done")

(* The same wherever it was killed: "A crash might leave some mmap_pack_ files
   around but that's OK.  A retried rr pack that runs to completion will clean
   them all up" (rewrite_mmaps). *)
PackAlwaysCompletes == <>(pk.pc = "done")

-----------------------------------------------------------------------------
(* The inductive invariant. *)

(* A file of the trace that is no link to one outside. *)
Own(n) == n.d = "trace" /\ n.k # "hardlink"

(* What the variables are, whatever the command is doing. *)
FilesOK ==
  /\ fs \in [Names -> Inodes \cup {NoFile}]
  /\ DOMAIN data = Inodes
  /\ \A n \in Names : IsName(n) /\ n.d # "trace0"
  /\ \A i \in 0 .. MaxPack : PackName(i) \in Names
  /\ DOMAIN want = DOMAIN mmaps
  /\ DOMAIN pk = {"pc", "info", "rep", "todo", "new", "index", "del"} /\ pk.index \in Nat

(* No other name leads to the data of a trace's own file from outside. *)
OwnApart ==
  \A n, m \in Names : fs[n] = fs[m] /\ fs[n] # NoFile /\ Own(n) => m.d = "trace"

Working == pk.pc \in {"gathered", "copy", "fill", "written"}

(* The hashes are those of the files the regions still name. *)
InfoAgrees ==
  Working =>
    /\ DOMAIN pk.info = {mmaps[i] : i \in DOMAIN mmaps}
    /\ \A i \in DOMAIN mmaps : pk.info[mmaps[i]] = want[i]

Hashes == {pk.info[n] : n \in DOMAIN pk.info}

(* Each hash has a file that stands for it and has its content, and the ones
   that are not to be copied any more are the trace's own. *)
RepAgrees ==
  pk.pc \in {"copy", "fill", "written"} =>
    /\ DOMAIN pk.rep = Hashes /\ pk.todo \subseteq Hashes
    /\ \A h \in Hashes :
         /\ pk.rep[h] \in Names /\ fs[pk.rep[h]] # NoFile /\ data[fs[pk.rep[h]]] = h
         /\ h \notin pk.todo => Own(pk.rep[h])

(* The file that is being copied to is new: no region has it and it stands for
   nothing yet. *)
CopyIsNew ==
  pk.pc = "fill" =>
    /\ pk.new \in 0 .. MaxPack
    /\ fs[PackName(pk.new)] # NoFile
    /\ \A n \in Names : fs[n] = fs[PackName(pk.new)] => n = PackName(pk.new)
    /\ \A i \in DOMAIN mmaps : mmaps[i] # PackName(pk.new)
    /\ \A h \in Hashes : pk.rep[h] # PackName(pk.new)

(* The new substream names what stands for the content of every region. *)
TempAgrees ==
  pk.pc = "written" =>
    /\ pk.todo = {}
    /\ DOMAIN temp[1] = DOMAIN mmaps
    /\ \A i \in DOMAIN mmaps : temp[1][i] = pk.rep[want[i]]

(* Once it has replaced the old one, there is one file for each content, the
   trace's own, and no other is spared when files are deleted. *)
Renamed ==
  pk.pc \in {"renamed", "delete", "done"} =>
    /\ \A i \in DOMAIN mmaps : Own(mmaps[i])
    /\ \A i, j \in DOMAIN mmaps : want[i] = want[j] => mmaps[i] = mmaps[j]

RetainAgrees ==
  pk.pc = "renamed" =>
    {file_map(m) : m \in DOMAIN pk.info} = {mmaps[i] : i \in DOMAIN mmaps}

MmapFiles == {n \in Names : n.d = "trace" /\ n.k # "plain" /\ fs[n] # NoFile}

DeletesOthers ==
  /\ pk.pc = "delete" =>
       pk.del \subseteq MmapFiles /\ MmapFiles \cap {mmaps[i] : i \in DOMAIN mmaps} = MmapFiles \ pk.del
  /\ pk.pc = "done" => MmapFiles \subseteq {mmaps[i] : i \in DOMAIN mmaps}

IndInv ==
  /\ FilesOK /\ OwnApart /\ StaysReplayable /\ InfoAgrees /\ RepAgrees /\ CopyIsNew
  /\ TempAgrees /\ Renamed /\ RetainAgrees /\ DeletesOthers
=============================================================================
