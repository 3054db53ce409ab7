----------------------------- MODULE HookConfig -------------------------------
(* The configuration of the design hook: config.json, shared, and             *)
(* config.local.json, one developer's; the commands of hook-admin.mjs that    *)
(* change them; and what a hook makes of them (readConfig).                   *)
(*                                                                            *)
(* Detector filters belong in a file's `detector` section; older files hold   *)
(* them in `hook`, here `legacy`.  The keys of other programs are left out,   *)
(* so a reset deletes a file.  One command runs at a time; a file is          *)
(* truncated before it is written, and a hook may read it in between.         *)
EXTENDS Naturals, Sequences

CONSTANTS
  Files,       \* files of the project that hooks look at
  Rules,       \* what the detector can find in a file
  Budgets      \* bound: how much may happen, one of these

VARIABLES
  config,      \* config[where]: a configuration file
  admin,       \* the command that runs: what it still has to do
  left,        \* what may still happen: edits, commands, faults and asks
  confirmed    \* ghost: what the user was told is ignored

configvars == <<config, admin, left, confirmed>>

Ignorable == Rules \cup Files
Places    == {"shared", "local"}

ConfigFile == [is      : {"none", "torn", "json"},
               enabled : {"unset", "on", "off"},
               legacy  : SUBSET Ignorable,
               ignored : SUBSET Ignorable]

\* safeReadJson: a file that is not there, or not JSON, says nothing.
NoFile   == [is |-> "none", enabled |-> "unset", legacy |-> {}, ignored |-> {}]
TornFile == [NoFile EXCEPT !.is = "torn"]

\* readConfig: the local file has the last word on `enabled`, filters add up.
Enabled ==
  LET says == IF config["local"].enabled # "unset" THEN config["local"].enabled
              ELSE config["shared"].enabled
  IN  says # "off"

Ignored == UNION {config[w].legacy \cup config[w].ignored : w \in Places}

ASSUME BudgetAssumption == Budgets \subseteq [edits : Nat, commands : Nat, faults : Nat, asks : Nat]

Spent(kind) == [left EXCEPT ![kind] = @ - 1]

Task == [op : {"on", "off", "consent", "ignore", "remove", "forget"},
         where : Places, what : Ignorable \cup {"-"}]

Job(op, where, what) == [op |-> op, where |-> where, what |-> what]

Resting == [todo |-> <<>>, open |-> FALSE, next |-> NoFile]

\* A project that never had a configuration, or one of an older release.
ConfigInit ==
  /\ \E old \in {{}} \cup {{r} : r \in Rules} :
       /\ config = [w \in Places |->
            IF w = "shared" /\ old # {} THEN [NoFile EXCEPT !.is = "json", !.legacy = old]
            ELSE NoFile]
       /\ confirmed = old
  /\ admin = Resting
  /\ left \in Budgets

-----------------------------------------------------------------------------
\* mergeDetectorConfig(readRawDetectorConfig): the filters of both sections.
\* The mutant reads the new section alone.
NewFiltersOnly(file) == file.ignored
Filters(file)        == file.legacy \cup file.ignored

\* writeDetectorConfig and writeHookConfig: both take the filters out of `hook`,
\* and only the first has put them into `detector`.
Edited(task, file) ==
  CASE task.op = "ignore"  ->
         [file EXCEPT !.is = "json", !.legacy = {}, !.ignored = Filters(file) \cup {task.what}]
    [] task.op = "consent" -> [file EXCEPT !.is = "json", !.legacy = {}]
    [] OTHER -> [file EXCEPT !.is = "json", !.legacy = {}, !.enabled = task.op]

\* main of hook-admin.mjs: setEnabled, addIgnoreRule, addIgnoreFile,
\* addIgnoreValue (only values have --local) and reset.
Command ==
  /\ admin = Resting /\ left.commands > 0
  /\ \E todo \in {<<Job("on", "shared", "-"), Job("consent", "local", "-")>>,
                  <<Job("off", "shared", "-")>>,
                  <<Job("remove", "shared", "-"), Job("remove", "local", "-"),
                    Job("forget", "shared", "-")>>}
                 \cup {<<Job("ignore", "shared", x)>> : x \in Ignorable}
                 \cup {<<Job("ignore", "local", r)>> : r \in Rules} :
       /\ admin' = [admin EXCEPT !.todo = todo]
       /\ confirmed' = IF todo[1].op = "remove" THEN {} ELSE confirmed
  /\ left' = Spent("commands")
  /\ UNCHANGED config

Task1 == Head(admin.todo)

\* The file is read and opened for writing, which truncates it.
OpenConfig ==
  /\ admin.todo # <<>> /\ ~admin.open /\ Task1.op \notin {"remove", "forget"}
  /\ admin' = [admin EXCEPT !.open = TRUE, !.next = Edited(Task1, config[Task1.where])]
  /\ config' = [config EXCEPT ![Task1.where] = TornFile]
  \* on and off drop the filters of an older release
  /\ confirmed' = IF Task1.op = "ignore" THEN confirmed
                  ELSE confirmed \ (config[Task1.where].legacy \ UNION {config[w].ignored : w \in Places})
  /\ UNCHANGED left

WriteConfig ==
  /\ admin.open
  /\ config' = [config EXCEPT ![Task1.where] = admin.next]
  /\ admin' = [Resting EXCEPT !.todo = Tail(admin.todo)]
  /\ confirmed' = IF Task1.op = "ignore" THEN confirmed \cup {Task1.what} ELSE confirmed
  /\ UNCHANGED left

\* reset: the files, then (in DesignHook) the cache.
RemoveConfig ==
  /\ admin.todo # <<>> /\ Task1.op = "remove"
  /\ config' = [config EXCEPT ![Task1.where] = NoFile]
  /\ admin' = [admin EXCEPT !.todo = Tail(admin.todo)]
  /\ UNCHANGED <<left, confirmed>>

ConfigNext == Command \/ OpenConfig \/ WriteConfig \/ RemoveConfig

ConfigTypeOK ==
  /\ config \in [Places -> ConfigFile]
  /\ admin \in [todo : Seq(Task), open : BOOLEAN, next : ConfigFile]
  /\ left \in [edits : Nat, commands : Nat, faults : Nat, asks : Nat]
  /\ confirmed \subseteq Ignorable

\* What the user was told is ignored stays ignored until a reset, whatever
\* commands follow, in whichever section of whichever file it was recorded: a
\* hook that reads whole files does not report it again.  (The filters of an
\* older release are lost by `on` and `off`.)
IgnoresKept ==
  (\A w \in Places : config[w].is # "torn") => confirmed \subseteq Ignored
=============================================================================
