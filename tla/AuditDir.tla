------------------------------ MODULE AuditDir ------------------------------
(***************************************************************************)
(* The audit directory of tactiq-agent: how an envelope is published in     *)
(* four files, how the oldest ones are pruned, how the boot event log is    *)
(* kept, and what a power cut leaves (crates/prover/src/main.rs             *)
(* publish_envelope, remove_partials, prune_audit, save_boot_log).          *)
(*                                                                         *)
(* `run` loops over the directory, and an operator may call `attest` beside *)
(* it: either removes every .part file it finds, those the other is still   *)
(* writing too. Their counters differ, each process counting in an epoch of *)
(* its own; EpochCounter shows when they do.                                *)
(*                                                                         *)
(* Of the file system nothing is assumed but what fsync promises: a file's  *)
(* data survives once the file is synced, and a name's creation, renaming   *)
(* or removal survives once the directory is. Until then a power cut keeps  *)
(* any part of the names changed since, in any order.                      *)
(***************************************************************************)
EXTENDS Integers, FiniteSets, Sequences, Functions

CONSTANTS
  MaxStem,  \* last counter an envelope is named by
  Keep,     \* envelopes kept (TACTIQ_AUDIT_KEEP)
  Log,      \* the boot event log, which names its file
  NoLog,    \* a platform that publishes none
  Bounds    \* how much of each a behaviour has at most: counters, power cuts,
            \* ends of a process that is killed or fails, calls of `attest`;
            \* and the platform's log

ASSUME AuditAssumption ==
  /\ MaxStem \in Nat \ {0} /\ Keep \in Nat \ {0}
  /\ Bounds \subseteq [stems : 1..MaxStem, cuts : Nat, ends : Nat, calls : Nat,
                 log : {Log, NoLog}]

Agents == {"run", "attest"}
Stems  == 1..MaxStem
Exts   == {"msg", "attest", "sig", "tag"}

\* The file names: those of the envelopes, and the log's.
Names == (Stems \X Exts) \union {Log}
Of(s) == {s} \X Exts

ASSUME LogAssumption == Log \notin Stems \X Exts

\* What stands for a name: nothing, a .part file whose data is not or is
\* synced, or a file under the name itself, likewise.
FileStates == {"none", "new", "part", "unsafe", "final"}

VARIABLES
  dir,      \* the directory as a process sees it
  durable,  \* the directory at its last fsync
  pc,       \* where each agent stands; "cut": the device has lost power
  stem,     \* the last counter each took, 0 before the first
  todo,     \* the calls each has still to make at this stage
  taken,    \* history: counters taken
  done,     \* history: envelopes published to the end
  doomed,   \* history: envelopes the pruner has set out to remove
  late,     \* history: counters `attest` had in this cycle of `run`
  left      \* what is left of the bounds

history == <<taken, done, doomed, late, left>>
vars == <<dir, durable, pc, stem, todo, history>>

Labels == {"off", "cut", "log", "save", "begin", "clear", "take", "publish",
           "scan", "prune", "sleep"}

Put(names, state) == dir' = [n \in Names |-> IF n \in names THEN state ELSE dir[n]]

IsPart(n)    == dir[n] \in {"new", "part"}
IsFinal(state) == state \in {"unsafe", "final"}
Finals(d, s) == {e \in Exts : IsFinal(d[<<s, e>>])}
Published    == {s \in Stems : Finals(dir, s) # {}}

-----------------------------------------------------------------------------
(***************************************************************************)
(* The calls. write_synced is a Write and a Sync of the file it has open;   *)
(* sync_file opens the file by its name.                                   *)
(***************************************************************************)
Call(do, names) == [do |-> do, names |-> names]
Dos   == {"write", "sync", "open", "rename", "remove", "syncdir", "clear"}
Calls == [do : Dos, names : SUBSET Names]
Write(s, exts) == Call("write", {s} \X exts)
Sync(s, ext)   == Call("sync", {<<s, ext>>})
Open(s, ext)   == Call("open", {<<s, ext>>})
Rename(s, ext) == Call("rename", {<<s, ext>>})
SyncDir        == Call("syncdir", {})

Staging(s) ==
  <<Write(s, {"msg"}), Sync(s, "msg"), Write(s, {"attest", "sig"}),
    Open(s, "attest"), Open(s, "sig"), Write(s, {"tag"}), Sync(s, "tag")>>

\* Mutant: the files tpm2_quote wrote are not synced.
PlanQuoteUnsynced(s) ==
  <<Write(s, {"msg"}), Sync(s, "msg"), Write(s, {"attest", "sig"}),
    Write(s, {"tag"}), Sync(s, "tag"), Rename(s, "msg"), Rename(s, "attest"),
    Rename(s, "sig"), SyncDir, Rename(s, "tag"), SyncDir>>

\* Mutant: one directory sync, after all the renames.
PlanOneSyncDir(s) ==
  Staging(s) \o <<Rename(s, "msg"), Rename(s, "attest"), Rename(s, "sig"),
                  Rename(s, "tag"), SyncDir>>

\* Mutant: the directory is not synced after the last rename.
PlanNoLastSyncDir(s) ==
  Staging(s) \o <<Rename(s, "msg"), Rename(s, "attest"), Rename(s, "sig"),
                  SyncDir, Rename(s, "tag")>>

\* publish_envelope.
Plan(s) ==
  Staging(s) \o <<Rename(s, "msg"), Rename(s, "attest"), Rename(s, "sig"),
                  SyncDir, Rename(s, "tag"), SyncDir>>

\* Mutant: the log is not synced before it is renamed.
LogPlanUnsynced == <<Call("write", {Log}), Call("rename", {Log}), SyncDir>>

\* save_boot_log.
LogPlan ==
  <<Call("write", {Log}), Call("sync", {Log}), Call("rename", {Log}), SyncDir>>

Init ==
  /\ dir = [n \in Names |-> "none"]
  /\ durable = dir
  /\ pc = [p \in Agents |-> "off"]
  /\ stem = [p \in Agents |-> 0]
  /\ todo = [p \in Agents |-> <<>>]
  /\ taken = {} /\ done = {} /\ doomed = {} /\ late = {}
  /\ left \in Bounds

Spend(what) == left[what] > 0 /\ left' = [left EXCEPT ![what] = @ - 1]

Enter(p, label, calls) ==
  /\ pc' = [pc EXCEPT ![p] = label]
  /\ todo' = [todo EXCEPT ![p] = calls]

\* The process is gone; a new one counts afresh.
Exit(p) == Enter(p, "off", <<>>) /\ stem' = [stem EXCEPT ![p] = 0]

\* Mutant: a rename that fails is passed over.
MissingAtOpen(call) == call.do = "open" /\ \E n \in call.names : ~IsPart(n)

\* open and rename need their .part file.
Missing(call) == call.do \in {"open", "rename"} /\ \E n \in call.names : ~IsPart(n)

\* What a call makes of a file it names: a .part file that is gone stays gone,
\* and the removal of a file that is not there is passed over.
After(do, state) ==
  CASE do = "write"                                 -> "new"
    [] do \in {"sync", "open"} /\ state = "new"     -> "part"
    [] do = "rename" /\ state = "part"              -> "final"
    [] do = "rename" /\ state = "new"               -> "unsafe"
    [] do = "remove" /\ state \in {"unsafe", "final"} -> "none"
    [] OTHER                                        -> state

\* One call after the other.
MakeCall(p) ==
  /\ todo[p] # <<>> /\ pc[p] \in {"save", "publish", "prune"}
  /\ LET call == Head(todo[p])
     IN /\ ~Missing(call)
        /\ dir' = [n \in Names |->
                     IF n \in call.names THEN After(call.do, dir[n]) ELSE dir[n]]
        /\ durable' = IF call.do = "syncdir" THEN dir ELSE durable
  /\ todo' = [todo EXCEPT ![p] = Tail(@)]
  /\ UNCHANGED <<pc, stem, history>>

-----------------------------------------------------------------------------
(***************************************************************************)
(* cmd_run: the boot event log first, best effort. No other process touches *)
(* its files.                                                              *)
(***************************************************************************)
Start(p) ==
  /\ pc[p] \in {"off", "cut"}
  /\ \/ p = "run" /\ Enter(p, "log", <<>>) /\ UNCHANGED left
     \/ p = "attest" /\ Enter(p, "begin", <<>>) /\ Spend("calls")
  /\ UNCHANGED <<dir, durable, stem, taken, done, doomed, late>>

\* What a save cut short left goes. The log may be missing, unreadable, or
\* already saved under the name its content gives it.
SaveLog ==
  /\ pc["run"] = "log"
  /\ Put({n \in {Log} : IsPart(n)}, "none")
  /\ \/ left.log = Log /\ ~IsFinal(dir[Log]) /\ Enter("run", "save", LogPlan)
     \/ Enter("run", "save", <<>>)
  /\ UNCHANGED <<durable, stem, history>>

\* Saved or not, the agent goes on.
SaveEnds ==
  /\ pc["run"] = "save"
  /\ Enter("run", "begin", <<>>)
  /\ UNCHANGED <<dir, durable, stem, history>>

-----------------------------------------------------------------------------
(***************************************************************************)
(* cmd_attest.                                                             *)
(***************************************************************************)
Partials == {n \in Stems \X Exts : IsPart(n)}
Writing  == {stem["attest"]} \ {0}

\* Mutant: what an interrupted cycle left stays.
PartialsStay(p) ==
  /\ pc[p] = "begin"
  /\ Enter(p, "clear", <<Call("clear", {})>>)
  /\ late' = IF p = "run" THEN Writing ELSE late
  /\ UNCHANGED <<dir, durable, stem, taken, done, doomed, left>>

\* remove_partials lists the directory ...
ListPartials(p) ==
  /\ pc[p] = "begin"
  /\ Enter(p, "clear", <<Call("clear", Partials)>>)
  /\ late' = IF p = "run" THEN Writing ELSE late
  /\ UNCHANGED <<dir, durable, stem, taken, done, doomed, left>>

\* ... and removes what it found, in any order; it fails on a file that has
\* been renamed or removed meanwhile.
RemovePartial(p) ==
  /\ pc[p] = "clear"
  /\ \E n \in Head(todo[p]).names :
       IF IsPart(n)
       THEN /\ Put({n}, "none")
            /\ Enter(p, "clear", <<Call("clear", Head(todo[p]).names \ {n})>>)
            /\ UNCHANGED stem
       ELSE Exit(p) /\ UNCHANGED dir
  /\ UNCHANGED <<durable, history>>

\* The next counter: the first of a new epoch is above all that were taken,
\* and a process stays below the epochs that were begun after its own.
TakeCounter(p) ==
  /\ pc[p] = "clear" /\ Head(todo[p]).names = {}
  /\ \E s \in (1..left.stems) \ taken :
       /\ \/ \A t \in taken : t < s
          \/ stem[p] # 0 /\ stem[p] < s /\ \A t \in taken : t > stem[p] => s < t
       /\ stem' = [stem EXCEPT ![p] = s]
       /\ taken' = taken \union {s}
       /\ late' = IF p = "run" THEN late ELSE late \union {s}
       /\ Enter(p, "publish", Plan(s))
  /\ UNCHANGED <<dir, durable, done, doomed, left>>

Staged(call) == call.do \notin {"rename", "syncdir"}

Unstage(p) == Put({n \in Of(stem[p]) : IsPart(n)}, "none") /\ Exit(p)

\* A call fails while the files are staged: they are removed again.
StagingFails(p) ==
  /\ pc[p] = "publish" /\ todo[p] # <<>>
  /\ Staged(Head(todo[p]))
  /\ IF Missing(Head(todo[p])) THEN UNCHANGED left ELSE Spend("ends")
  /\ Unstage(p)
  /\ UNCHANGED <<durable, taken, done, doomed, late>>

\* A rename fails when the other agent has removed the .part file; what was
\* renamed before stays.
RenameFails(p) ==
  /\ pc[p] = "publish" /\ todo[p] # <<>>
  /\ Head(todo[p]).do = "rename" /\ Missing(Head(todo[p]))
  /\ Exit(p)
  /\ UNCHANGED <<dir, durable, history>>

PublishDone(p) ==
  /\ pc[p] = "publish" /\ todo[p] = <<>>
  /\ done' = done \union {stem[p]}
  /\ IF p = "run" THEN Enter(p, "scan", <<>>) /\ UNCHANGED stem ELSE Exit(p)
  /\ UNCHANGED <<dir, durable, taken, doomed, late, left>>

-----------------------------------------------------------------------------
(***************************************************************************)
(* prune_audit.                                                            *)
(***************************************************************************)
\* A set of counters as a sequence: the i-th has i - 1 below it.
Ascending(S) ==
  [i \in 1..Cardinality(S) |-> CHOOSE s \in S : Cardinality({t \in S : t < s}) = i - 1]

\* Mutant: one envelope too many stays.
ToPruneOffByOne ==
  LET stems == Ascending(Published)
  IN  SubSeq(stems, 1, Len(stems) - Keep - 1)

\* Mutant: the newest envelopes go.
ToPruneNewest ==
  LET stems == Ascending(Published)
  IN  SubSeq(stems, Keep + 1, Len(stems))

\* Mutant: what goes is counted down from the newest, not from what is there.
ToPruneByNumber ==
  LET stems == Ascending(Published)
  IN  IF stems = <<>> THEN <<>>
      ELSE [i \in 1..(stems[Len(stems)] - Keep) |-> i]

\* stems_to_prune: the oldest envelopes beyond Keep.
ToPrune ==
  LET stems == Ascending(Published)
  IN  SubSeq(stems, 1, Len(stems) - Keep)

\* The order in which the files of one envelope are removed.
RemovalOrder == <<"msg", "attest", "sig", "tag">>

Removals(stems) ==
  LET n == Len(RemovalOrder)
  IN  [k \in 1..(Len(stems) * n) |->
         Call("remove", {<<stems[((k - 1) \div n) + 1], RemovalOrder[((k - 1) % n) + 1]>>})]

Scan ==
  /\ pc["run"] = "scan"
  /\ Enter("run", "prune", Removals(ToPrune))
  /\ doomed' = doomed \union Range(ToPrune)
  /\ UNCHANGED <<dir, durable, stem, taken, done, late, left>>

PruneDone ==
  /\ pc["run"] = "prune" /\ todo["run"] = <<>>
  /\ Enter("run", "sleep", <<>>)
  /\ UNCHANGED <<dir, durable, stem, history>>

\* cmd_run: the interval has passed.
NextCycle ==
  /\ pc["run"] = "sleep"
  /\ Enter("run", "begin", <<>>)
  /\ UNCHANGED <<dir, durable, stem, history>>

-----------------------------------------------------------------------------
\* A process ends anywhere: it is killed, or a call fails that ends it. What
\* it has changed stays.
Stop(p) ==
  /\ pc[p] \notin {"off", "cut"}
  /\ Spend("ends")
  /\ Exit(p)
  /\ UNCHANGED <<dir, durable, taken, done, doomed, late>>

\* Power is lost: of the names changed since the last sync, some stay.
PowerCut ==
  /\ Spend("cuts")
  /\ \E kept \in SUBSET {n \in Names : dir[n] # durable[n]} :
       dir' = [n \in Names |-> IF n \in kept THEN dir[n] ELSE durable[n]]
  /\ durable' = dir'
  /\ pc' = [p \in Agents |-> "cut"]
  /\ stem' = [p \in Agents |-> 0]
  /\ todo' = [p \in Agents |-> <<>>]
  /\ UNCHANGED <<taken, done, doomed, late>>

Next ==
  \/ SaveLog \/ SaveEnds \/ Scan \/ PruneDone \/ NextCycle \/ PowerCut
  \/ \E p \in Agents :
       \/ Start(p) \/ ListPartials(p) \/ RemovePartial(p) \/ TakeCounter(p)
       \/ MakeCall(p) \/ StagingFails(p) \/ RenameFails(p) \/ PublishDone(p) \/ Stop(p)

Spec == Init /\ [][Next]_vars

-----------------------------------------------------------------------------
\* Type correctness of every variable; and the pruner sets out to remove only
\* envelopes whose counters were taken, whichever of those below the newest
\* were skipped, failed or are still to come (main.rs stems_to_prune).
TypeOK ==
  /\ dir \in [Names -> FileStates]
  /\ durable \in [Names -> FileStates]
  /\ pc \in [Agents -> Labels]
  /\ stem \in [Agents -> Stems \union {0}]
  /\ todo \in [Agents -> Seq(Calls)]
  /\ late \subseteq taken /\ doomed \subseteq taken /\ done \subseteq taken
  /\ taken \subseteq Stems
  /\ left \in [stems : Stems, cuts : Nat, ends : Nat, calls : Nat, log : {Log, NoLog}]

\* "A file under an envelope name is therefore always complete" (main.rs
\* publish_envelope), and so is a saved log (save_boot_log): whatever a power
\* cut keeps and whichever .part files the other agent removes, no file stands
\* under its name without its data.
FilesComplete == \A n \in Names : dir[n] # "unsafe" /\ durable[n] # "unsafe"

\* "An envelope with its .tag has all four" (main.rs publish_envelope), after
\* any power cut and although the other agent may remove any of them before
\* its rename, until the pruner sets out to remove the envelope: it removes
\* the tag last, so a cut while it runs may leave the tag alone.
TagMeansWhole ==
  \A s \in Stems \ doomed :
    "tag" \in Finals(dir, s) => Finals(dir, s) = Exts

\* Between two cycles of `run` the directory holds at most Keep envelopes and
\* nothing of an interrupted one, whatever earlier cycles left behind, but for
\* what `attest` had in hand during the cycle (main.rs prune_audit,
\* remove_partials; DDR-006 decision 3).
DirectoryBounded ==
  pc["run"] = "sleep" =>
    Cardinality({n \in (Stems \ late) \X Exts : dir[n] # "none"}) <= 4 * Keep

\* An envelope that was published to the end is whole in the directory, and
\* would survive a power cut whole, as long as fewer than Keep counters above
\* its own were taken: the pruner never takes it, nor does the other agent
\* (main.rs publish_envelope, stems_to_prune).
NewestSurvives ==
  \A s \in done :
    Cardinality({t \in taken : t > s}) < Keep =>
      Finals(dir, s) = Exts /\ Finals(durable, s) = Exts

\* The doc comment of publish_envelope, as it stands: "a power cut leaves
\* either the whole envelope or no file under the envelope's names", where an
\* envelope without its tag is "complete".
WholeOrNone ==
  pc["run"] = "cut" => \A s \in Stems \ doomed :
    \/ Finals(dir, s) = {}
    \/ Exts \ {"tag"} \subseteq Finals(dir, s)
=============================================================================
