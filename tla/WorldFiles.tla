------------------------------ MODULE WorldFiles ------------------------------
(***************************************************************************)
(* The two files a world is restored from: its event log and its snapshot  *)
(* (EventLog, commit_module_delta, save_snapshot and load_snapshot of      *)
(* src/compilableworld/kernel.py).                                         *)
(*                                                                         *)
(* Processes (Host) open the world, append batches of events to its log,   *)
(* save and load its snapshot, and die.  Nothing locks the files: hosts    *)
(* that both believe they serve the world (RuntimeHost has how that comes) *)
(* work on them at the same time, and what another wrote meanwhile is not  *)
(* read.                                                                   *)
(*                                                                         *)
(* A batch is two records.  What is in the file of a batch whose write did *)
(* not get to its end is cut anywhere: between records, inside one (nobody *)
(* can parse the line), or before its newline (the line is read, but the   *)
(* next append is glued to it).  A state is the set of batches whose       *)
(* effects it has.                                                         *)
(***************************************************************************)
EXTENDS Naturals, Sequences, SequencesExt, Hosts

CONSTANTS
  MaxBatches,   \* bound: batches that are appended
  MaxDeaths,    \* bound: deaths of processes
  MaxFaults     \* bound: appends that fail

\* A line of the log, cut short or not; what a process has in memory; an append.
LogRecord == [batch : Nat, part : Nat, cut : {"none", "inside", "newline"}]
Runtime   == [log : SUBSET Nat, state : SUBSET Nat]
Writing   == [batch : Nat, offset : Nat, before : SUBSET Nat]

ASSUME FilesAssumption == None \notin Runtime /\ None \notin Writing

VARIABLES
  file,      \* the lines of the event log, in order
  snap,      \* the snapshot file: [kind : none, whole or torn; state]
  rt,        \* [Host -> its WorldRuntime [log, state], or None]
  writing,   \* [Host -> the append under way, or None]
  batches, deaths, faults,
  acked,     \* history: batches whose append returned, in order
  refused,   \* history: batches whose append raised
  spoilt     \* history: the log was damaged in a way nobody noticed

bounds    == <<batches, deaths, faults>>
answers   == <<acked, refused, spoilt>>
filesVars == <<file, snap, rt, writing, bounds, answers>>

FilesInit ==
  /\ file = <<>> /\ snap = [kind |-> "none", state |-> {}]
  /\ rt = [p \in Host |-> None] /\ writing = [p \in Host |-> None]
  /\ batches = 0 /\ deaths = 0 /\ faults = 0
  /\ acked = <<>> /\ refused = {} /\ spoilt = FALSE

-----------------------------------------------------------------------------
Line(b, part, cut) == [batch |-> b, part |-> part, cut |-> cut]

Batch(b) == <<Line(b, 1, "none"), Line(b, 2, "none")>>

\* What a write of the batch that was cut may have left in the file.
Cuts(b) ==
  {<<>>, SubSeq(Batch(b), 1, 1), Batch(b)}
    \cup { SubSeq(Batch(b), 1, n - 1) \o <<Line(b, n, c)>>
             : n \in 1 .. 2, c \in {"inside", "newline"} }

\* The file ends in a line without newline.
OpenEnd(f) == f # <<>> /\ f[Len(f)].cut # "none"

\* The file after lines were appended: the first is glued to an open end, and
\* nobody can parse the two together.
Appended(f, lines) ==
  IF OpenEnd(f) /\ lines # <<>>
  THEN Front(f) \o <<Line(Last(f).batch, Last(f).part, "inside")>> \o Tail(lines)
  ELSE f \o lines

\* _load_existing() parses every line.
Parses(f) == \A i \in DOMAIN f : f[i].cut # "inside"

Logged(f) == {f[i].batch : i \in DOMAIN f}

-----------------------------------------------------------------------------
\* from_package() with the log, and load_snapshot() if there is a snapshot, whose
\* event_count nobody compares with the log.
Open(p) ==
  /\ rt[p] = None
  /\ Parses(file) /\ snap.kind # "torn"
  /\ rt' = [rt EXCEPT ![p] = [log |-> Logged(file), state |-> snap.state]]
  /\ UNCHANGED <<file, snap, writing, bounds, answers>>

CloseWorld(p) ==
  /\ rt[p] # None /\ writing[p] = None
  /\ rt' = [rt EXCEPT ![p] = None]
  /\ UNCHANGED <<file, snap, writing, bounds, answers>>

\* commit_module_delta() applies the deltas, and append_batch() looks at the
\* length of the file.
Begin(p) ==
  /\ rt[p] # None /\ writing[p] = None
  /\ batches < MaxBatches /\ batches' = batches + 1
  /\ writing' = [writing EXCEPT ![p] =
       [batch |-> batches + 1, offset |-> Len(file), before |-> rt[p].state]]
  /\ rt' = [rt EXCEPT ![p].state = @ \cup {batches + 1}]
  /\ UNCHANGED <<file, snap, deaths, faults, answers>>

\* The batch is in the file, flushed and synchronised.
Written(p) ==
  /\ writing[p] # None
  /\ LET b == writing[p].batch IN
     /\ file' = Appended(file, Batch(b))
     /\ spoilt' = (spoilt \/ OpenEnd(file))
     /\ acked' = Append(acked, b)
     /\ rt' = [rt EXCEPT ![p].log = @ \cup {b}]
  /\ writing' = [writing EXCEPT ![p] = None]
  /\ UNCHANGED <<snap, bounds, refused>>

\* Mutant of Undone: what was written stays in the file.
UndoneNot(f, cut, offset) == Appended(f, cut)

\* truncate(start_offset) of the file after the cut write: cuts off what was
\* appended since the length was taken, other processes' lines too, and fills with
\* zeros a file that is shorter by now.
Undone(f, cut, offset) ==
  LET written == Appended(f, cut)
  IN  IF offset = Len(f) THEN f
      ELSE IF offset <= Len(written) THEN SubSeq(written, 1, offset)
      ELSE Appended(written, <<Line(0, 1, "inside")>>)

\* Mutant of StateAfter: the deltas stay although their events are not logged.
StateKept(p) == rt[p].state

\* import_state(state_before).
StateAfter(p) == writing[p].before

\* The write raises.  It is undone, which hits what another process wrote since
\* the length was taken, or cannot be undone either.
Refused(p) ==
  /\ writing[p] # None
  /\ faults < MaxFaults /\ faults' = faults + 1
  /\ \E cut \in Cuts(writing[p].batch) :
       \/ /\ file' = Undone(file, cut, writing[p].offset)
          /\ spoilt' = (spoilt \/ Len(file) # writing[p].offset)
       \/ /\ cut # <<>>
          /\ file' = Appended(file, cut)
          /\ spoilt' = TRUE
  /\ refused' = refused \cup {writing[p].batch}
  /\ rt' = [rt EXCEPT ![p].state = StateAfter(p)]
  /\ writing' = [writing EXCEPT ![p] = None]
  /\ UNCHANGED <<snap, batches, deaths, acked>>

\* save_snapshot(), in place.
Save(p) ==
  /\ rt[p] # None /\ writing[p] = None
  /\ snap' = [kind |-> "whole", state |-> rt[p].state]
  /\ UNCHANGED <<file, rt, writing, bounds, answers>>

\* The process dies, maybe in the middle of an append or of a snapshot.
Dies(p) ==
  /\ rt[p] # None
  /\ deaths < MaxDeaths /\ deaths' = deaths + 1
  /\ rt' = [rt EXCEPT ![p] = None] /\ writing' = [writing EXCEPT ![p] = None]
  /\ IF writing[p] = None
     THEN /\ snap' \in {snap, [kind |-> "torn", state |-> {}]}
          /\ UNCHANGED <<file, spoilt>>
     ELSE /\ \E cut \in Cuts(writing[p].batch) :
               /\ file' = Appended(file, cut)
               /\ spoilt' = (spoilt \/ (cut # <<>> /\ OpenEnd(file)))
          /\ UNCHANGED snap
  /\ UNCHANGED <<batches, faults, acked, refused>>

FilesNext ==
  \E p \in Host :
    \/ Open(p) \/ CloseWorld(p) \/ Begin(p) \/ Written(p) \/ Refused(p) \/ Save(p) \/ Dies(p)

FilesSpec == FilesInit /\ [][FilesNext]_filesVars

-----------------------------------------------------------------------------
\* The batch is in the file from its first record to its last.
Whole(b) ==
  \E i \in DOMAIN file : i > 1 /\ file[i - 1] = Line(b, 1, "none") /\ file[i] = Line(b, 2, "none")

\* Where the batch ends in the file.
Ends(b) == {i \in DOMAIN file : file[i].batch = b /\ file[i].part = 2}

\* Whatever the processes write at the same time and wherever they die: a batch
\* that was acknowledged is in the log, whole and in the order of the answers,
\* none that was refused is in it, and every line but the last can be parsed.
\* (Not so once the log is spoilt: by a write glued to an open end, or by a failed
\* append that was not undone, or whose undoing hit another process's lines.)
LogKeepsItsWord ==
  ~spoilt =>
    /\ \A i \in DOMAIN file : file[i].cut = "inside" => i = Len(file)
    /\ \A b \in Range(acked) : Whole(b)
    /\ \A i, j \in DOMAIN acked : \A m \in Ends(acked[i]), n \in Ends(acked[j]) :
         i < j <=> m < n
    /\ Logged(file) \cap refused = {}

\* No runtime between two calls shows an effect that its own log does not have,
\* and neither a runtime nor the snapshot shows one that the file does not have,
\* although a restored state may be older than the log.  (Not so once the log is
\* spoilt: a restored state may then be newer than the log.)
StateIsLogged ==
  ~spoilt =>
    /\ snap.state \subseteq Logged(file)
    /\ \A p \in Host : rt[p] # None =>
         /\ rt[p].log \subseteq Logged(file)
         /\ writing[p] = None => rt[p].state \subseteq rt[p].log

-----------------------------------------------------------------------------
(* What makes the two inductive.                                           *)

FilesTypeOK ==
  /\ file \in Seq(LogRecord)
  /\ snap \in [kind : {"none", "whole", "torn"}, state : SUBSET Nat]
  /\ rt \in [Host -> Runtime \cup {None}]
  /\ writing \in [Host -> Writing \cup {None}]
  /\ \A p \in Host : writing[p] # None => rt[p] # None
  /\ batches \in Nat /\ deaths \in Nat /\ faults \in Nat
  /\ acked \in Seq(Nat) /\ refused \subseteq Nat /\ spoilt \in BOOLEAN

\* The batches of the files and of the answers were begun.
Begun == Logged(file) \cup Range(acked) \cup refused \subseteq 1 .. batches

\* A batch that is being written is in no file yet, has no answer yet, and is
\* written by one process.
Fresh ==
  \A p \in Host : writing[p] # None =>
    /\ writing[p].batch \in 1 .. batches
    /\ writing[p].batch \notin Logged(file) \cup Range(acked) \cup refused
    /\ \A q \in Host : writing[q] # None /\ writing[q].batch = writing[p].batch => q = p

\* Only the last line is cut short.
CutAtEnd == \A i \in DOMAIN file : file[i].cut # "none" => i = Len(file)

\* A runtime in the middle of a call has the effects of its log, and those of the
\* batch it writes.
WritingIsNext ==
  \A p \in Host : writing[p] # None =>
    /\ writing[p].before \subseteq rt[p].log
    /\ rt[p].state \subseteq rt[p].log \cup {writing[p].batch}

FilesInv ==
  /\ FilesTypeOK
  /\ ~spoilt => Begun /\ Fresh /\ CutAtEnd /\ WritingIsNext
  /\ LogKeepsItsWord /\ StateIsLogged

=============================================================================
