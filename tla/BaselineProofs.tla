--------------------------- MODULE BaselineProofs ---------------------------
(***************************************************************************)
(* What SessionStart recorded is kept, what a stop compares with, and that *)
(* it sees what was edited (Baseline), for any number of trees, hooks,     *)
(* steps and faults.                                                       *)
(***************************************************************************)
EXTENDS Baseline, SequenceTheorems, TLAPS

\* Where a process can be.
Places == {"idle", "find", "register", "doubt", "mkref", "read", "open", "put", "compare", "answer"}

LEMMA BlankIsRecord == Blank \in Records /\ Torn \in Records
BY DEF Blank, Torn, Records, NoHashes, Baselines

LEMMA ReadableIsRecord ==
  ASSUME cache \in Records
  PROVE  Readable \in Records
BY BlankIsRecord DEF Readable

LEMMA CommitsGrow ==
  ASSUME commits \in Seq(Contents), NEW x \in Contents, commits' = Append(commits, x)
  PROVE  /\ commits' \in Seq(Contents)
         /\ DOMAIN commits \subseteq DOMAIN commits'
         /\ Len(commits) + 1 \in DOMAIN commits'
<1>1. DOMAIN commits = 1 .. Len(commits) /\ DOMAIN commits' = 1 .. Len(commits) + 1
  OBVIOUS
<1>2. QED
  BY <1>1

LEMMA NoneIsBaseline == 0 \in Baselines
BY DEF Baselines

LEMMA SameRecords ==
  ASSUME UNCHANGED commits
  PROVE  Baselines' = Baselines /\ Records' = Records
<1>1. Baselines' = Baselines
  BY DEF Baselines
<1>2. QED
  BY <1>1 DEF Records

LEMMA MoreRecords ==
  ASSUME DOMAIN commits \subseteq DOMAIN commits'
  PROVE  Baselines \subseteq Baselines' /\ Records \subseteq Records'
<1>1. Baselines \subseteq Baselines'
  BY DEF Baselines
<1>2. QED
  BY <1>1 DEF Records

LEMMA InitType == Init => TypeOK
<1>1. SUFFICES ASSUME Init PROVE TypeOK
  OBVIOUS
<1>2. commits \in Seq(Contents) /\ DOMAIN commits = {1}
  BY <1>1, BaselineAssumption DEF Init, Contents
<1>3. now \in [Tree -> Contents] /\ moves \in 0 .. MaxMoves
  BY <1>1, BaselineAssumption DEF Init, Contents
<1>4. {ref, daemon} \subseteq [Tree -> Baselines]
  BY <1>1 DEF Init, Baselines
<1>5. sha \in [Proc -> Baselines]
  BY <1>1 DEF Init, Baselines
<1>6. cache \in Records /\ data \in [Proc -> Records]
  BY <1>1, BlankIsRecord DEF Init
<1>7. QED
  BY <1>1, <1>2, <1>3, <1>4, <1>5, <1>6 DEF Init, TypeOK, Proc

LEMMA EditType ==
  ASSUME TypeOK, NEW t \in Tree, Edit(t)
  PROVE  TypeOK'
<1>1. moves' \in 0 .. MaxMoves /\ moves + 2 \in Contents
  BY BaselineAssumption DEF TypeOK, Edit, Working, Moving, Contents
<1>2. now' \in [Tree -> Contents]
  BY <1>1 DEF Edit, TypeOK
<1>3. QED
  BY SameRecords, <1>1, <1>2 DEF Edit, Working, Moving, TypeOK, layers, net, process

LEMMA UndoType ==
  ASSUME TypeOK, NEW t \in Tree, Undo(t)
  PROVE  TypeOK'
<1>1. moves' \in 0 .. MaxMoves
  BY BaselineAssumption DEF TypeOK, Undo, Working, Moving
<1>2. commits[head[t]] \in Contents
  BY DEF TypeOK
<1>3. now' \in [Tree -> Contents]
  BY <1>2 DEF Undo, TypeOK
<1>4. QED
  BY SameRecords, <1>1, <1>3 DEF Undo, Working, Moving, TypeOK, layers, net, process

LEMMA CommitType ==
  ASSUME TypeOK, NEW t \in Tree, Commit(t)
  PROVE  TypeOK'
<1>1. moves' \in 0 .. MaxMoves
  BY BaselineAssumption DEF TypeOK, Commit, Working, Moving
<1>2. /\ commits' \in Seq(Contents)
      /\ DOMAIN commits \subseteq DOMAIN commits'
      /\ Len(commits) + 1 \in DOMAIN commits'
  BY CommitsGrow DEF TypeOK, Commit
<1>3. head' \in [Tree -> DOMAIN commits']
  BY <1>2 DEF Commit, TypeOK
<1>4. Baselines \subseteq Baselines' /\ Records \subseteq Records'
  BY <1>2, MoreRecords
<1>5. QED
  BY <1>1, <1>2, <1>3, <1>4 DEF Commit, Working, Moving, TypeOK, layers, net, process

LEMMA IndexType ==
  ASSUME TypeOK, NEW t \in Tree, Flag(t) \/ LoseGit(t)
  PROVE  TypeOK'
<1>1. moves' \in 0 .. MaxMoves
  BY BaselineAssumption DEF TypeOK, Flag, LoseGit, Working, Moving
<1>2. QED
  BY SameRecords, <1>1 DEF Flag, LoseGit, Working, Moving, TypeOK, layers, net, process

LEMMA StartRecordType ==
  ASSUME TypeOK, NEW old \in Records, NEW ws \in Tree \union {"above"}
  PROVE  StartRecord(old, ws) \in Records
<1>1. \A t \in Tree : Hash(t) \in {Unrecorded, Unlisted} \union Contents
  BY DEF Hash, TypeOK
<1>2. [t \in Tree |-> IF git[t] /\ ws \in {t, "above"} THEN Hash(t) ELSE Unrecorded]
        \in [Tree -> {Unrecorded, Unlisted} \union Contents]
  BY <1>1
<1>3. \A t \in Tree : head[t] \in Baselines
  BY DEF TypeOK, Baselines
<1>4. Default(old.sha, 0, IF ws \in Tree /\ git[ws] THEN head[ws] ELSE 0) \in Baselines
  BY <1>3 DEF Default, Records, Baselines
<1>5. Default(old.ws, "none", ws) \in Tree \union {"none", "above", "torn"}
  BY DEF Default, Records
<1>6. Default(old.dirty, "unknown", IF ws \in Tree /\ git[ws] THEN DirtyPath(ws) ELSE "clean")
        \in {"unknown", "clean", "dirty"}
  BY DEF Default, Records, DirtyPath
<1>7. QED
  BY <1>2, <1>4, <1>5, <1>6 DEF StartRecord, Records

LEMMA SessionStartType ==
  ASSUME TypeOK, NEW ws \in Tree \union {"above"}, SessionStart(ws)
  PROVE  TypeOK'
<1>1. cache' \in Records
  BY ReadableIsRecord, StartRecordType DEF SessionStart, TypeOK
<1>2. QED
  BY SameRecords, <1>1 DEF SessionStart, TypeOK, agent, net, process

LEMMA HookStartsType ==
  ASSUME TypeOK, NEW p \in Hook, NEW t \in Tree, HookStarts(p, t)
  PROVE  TypeOK'
<1>1. moves' \in 0 .. MaxMoves
  BY BaselineAssumption DEF TypeOK, HookStarts, Moving
<1>2. QED
  BY SameRecords, <1>1, BaselineAssumption DEF HookStarts, Moving, Goto, TypeOK, layers, net, Proc

\* The places, trees and baselines of the processes.
ProcessesOK ==
  /\ at \in [Proc -> Places]
  /\ on \in [Proc -> Tree \union {"none"}]
  /\ sha \in [Proc -> Baselines]
  /\ \A p \in Proc : at[p] # "idle" => on[p] \in Tree
  /\ at[Stop] # "idle" => \A p \in Hook : at[p] = "idle"

LEMMA GotoType ==
  ASSUME ProcessesOK, UNCHANGED <<on, commits>>, NEW p \in Proc, at[p] # "idle",
         NEW place \in Places, Goto(p, place),
         sha' = sha \/ \E n \in Baselines : sha' = [sha EXCEPT ![p] = n]
  PROVE  ProcessesOK'
BY SameRecords, BaselineAssumption DEF ProcessesOK, Goto, Proc

LEMMA ReturnType ==
  ASSUME ProcessesOK, UNCHANGED commits, NEW p \in Proc, at[p] # "idle",
         NEW n \in Baselines, Return(p, n)
  PROVE  ProcessesOK'
BY SameRecords, NoneIsBaseline, BaselineAssumption DEF ProcessesOK, Return, Goto, Proc, Places

LEMMA EndType ==
  ASSUME ProcessesOK, UNCHANGED commits, NEW p \in Proc, End(p)
  PROVE  ProcessesOK'
BY SameRecords, NoneIsBaseline, BaselineAssumption DEF ProcessesOK, End, Goto, Proc, Places

\* What a process writes, on top of where it is.
LEMMA TypeFrom ==
  ASSUME TypeOK, ProcessesOK', UNCHANGED <<now, moves, commits, head>>,
         cache' \in Records, data' \in [Proc -> Records],
         {ref', daemon'} \subseteq [Tree -> Baselines]
  PROVE  TypeOK'
BY SameRecords DEF TypeOK, ProcessesOK, Places

LEMMA TellType ==
  ASSUME TypeOK, NEW t \in Tree, NEW n \in Baselines,
         Keep(t, n) \/ UNCHANGED daemon
  PROVE  daemon' \in [Tree -> Baselines]
BY DEF TypeOK, Keep, Default

LEMMA FindType ==
  ASSUME TypeOK, NEW p \in Proc, Find(p)
  PROVE  TypeOK'
<1>1. ProcessesOK /\ UNCHANGED <<agent, cache, ref, data>> /\ at[p] = "find"
  BY DEF Find, TypeOK, ProcessesOK, Places
<1>2. UNCHANGED <<now, moves, commits, head>>
  BY <1>1 DEF agent
<1> DEFINE t == on[p]
<1>3. t \in Tree
  BY <1>1 DEF ProcessesOK
<1>4. ref[t] \in Baselines /\ head[t] \in Baselines /\ CacheSha(t) \in Baselines
  BY <1>3, ReadableIsRecord, NoneIsBaseline DEF TypeOK, Baselines, CacheSha, Records
<1>5. ProcessesOK' /\ daemon' \in [Tree -> Baselines]
  <2> HIDE DEF t
  <2>1. CASE ~git[t]
    <3>1. Return(p, 0) /\ UNCHANGED daemon
      BY <2>1 DEF Find, t
    <3>2. QED
      BY <1>1, <1>2, <3>1, ReturnType, NoneIsBaseline DEF TypeOK
  <2>2. CASE git[t]
    <3>1. PICK bad \in SUBSET Calls :
            IF RefAnswers(t, bad)
            THEN /\ Goto(p, "read") /\ sha' = [sha EXCEPT ![p] = ref[t]]
                 /\ Tell(t, ref[t], bad) /\ UNCHANGED <<on, missed>>
            ELSE IF CacheAnswers(t, bad)
            THEN Return(p, CacheSha(t)) /\ Tell(t, CacheSha(t), bad) /\ UNCHANGED missed
            ELSE FindHead(p, t, bad) /\ UNCHANGED <<online, daemon>>
      BY <2>2 DEF Find, t
    <3>2. CASE RefAnswers(t, bad)
      <4>1. /\ Goto(p, "read") /\ sha' = [sha EXCEPT ![p] = ref[t]] /\ UNCHANGED on
            /\ Tell(t, ref[t], bad)
        BY <3>1, <3>2
      <4>2. ProcessesOK'
        BY <1>1, <1>2, <1>4, <4>1, GotoType DEF Places
      <4>3. QED
        BY <1>3, <1>4, <4>1, <4>2, TellType DEF Tell
    <3>3. CASE ~ RefAnswers(t, bad) /\ CacheAnswers(t, bad)
      <4>1. Return(p, CacheSha(t)) /\ Tell(t, CacheSha(t), bad)
        BY <3>1, <3>3
      <4>2. ProcessesOK'
        BY <1>1, <1>2, <1>4, <4>1, ReturnType
      <4>3. QED
        BY <1>3, <1>4, <4>1, <4>2, TellType DEF Tell
    <3>4. CASE ~ RefAnswers(t, bad) /\ ~ CacheAnswers(t, bad)
      <4>1. FindHead(p, t, bad) /\ UNCHANGED daemon
        BY <3>1, <3>4
      <4>2. CASE "head" \in bad
        <5>1. Return(p, 0)
          BY <4>1, <4>2 DEF FindHead
        <5>2. QED
          BY <1>1, <1>2, <4>1, <5>1, ReturnType, NoneIsBaseline DEF TypeOK
      <4>3. CASE "head" \notin bad
        <5>1. PICK place \in {"register", "doubt"} : Goto(p, place)
          BY <4>1, <4>3 DEF FindHead
        <5>2. sha' = [sha EXCEPT ![p] = head[t]] /\ UNCHANGED on
          BY <4>1, <4>3 DEF FindHead
        <5>3. place \in Places
          BY DEF Places
        <5>4. ProcessesOK'
          BY <1>1, <1>2, <1>4, <5>1, <5>2, <5>3, GotoType
        <5>5. QED
          BY <4>1, <5>4 DEF TypeOK
      <4>4. QED
        BY <4>2, <4>3
    <3>5. QED
      BY <3>2, <3>3, <3>4
  <2>3. QED
    BY <2>1, <2>2
<1>6. QED
  BY <1>1, <1>2, <1>5, TypeFrom DEF TypeOK

\* The daemon's answer is what it has, or the lookup goes on with HEAD.
LEMMA RegisterAnswers ==
  ASSUME NEW p \in Proc, Register(p)
  PROVE  \/ /\ sha' = [sha EXCEPT ![p] = sha[p]]
            /\ at[p] = "doubt" => missed' = missed \union {on[p]}
         \/ /\ sha' = [sha EXCEPT ![p] = daemon[on[p]]]
            /\ daemon[on[p]] # 0 /\ Keep(on[p], sha[p])
BY DEF Register, Tell, Told, Unconfirmed

LEMMA RegisterType ==
  ASSUME TypeOK, NEW p \in Proc, Register(p)
  PROVE  TypeOK'
<1>1. /\ ProcessesOK /\ UNCHANGED <<agent, cache, ref, on, data>>
      /\ at[p] \in {"register", "doubt"} /\ Goto(p, "mkref")
  BY DEF Register, TypeOK, ProcessesOK, Places
<1>2. UNCHANGED <<now, moves, commits, head>>
  BY <1>1 DEF agent
<1>3. on[p] \in Tree /\ sha[p] \in Baselines
  BY <1>1 DEF ProcessesOK
<1>4. Keep(on[p], sha[p]) \/ UNCHANGED daemon
  BY DEF Register, Tell
<1>5. daemon' \in [Tree -> Baselines]
  BY <1>3, <1>4, TellType
<1>6. daemon[on[p]] \in Baselines
  BY <1>3 DEF TypeOK
<1>7. \E n \in Baselines : sha' = [sha EXCEPT ![p] = n]
  BY <1>3, <1>6, RegisterAnswers
<1>8. ProcessesOK'
  BY <1>1, <1>2, <1>7, GotoType DEF Places
<1>9. QED
  BY <1>1, <1>2, <1>5, <1>8, TypeFrom DEF TypeOK

LEMMA MakeRefType ==
  ASSUME TypeOK, NEW p \in Proc, MakeRef(p)
  PROVE  TypeOK'
<1>1. /\ ProcessesOK /\ UNCHANGED <<agent, cache, daemon, on, sha, data>> /\ at[p] = "mkref"
      /\ Goto(p, "read")
  BY DEF MakeRef, TypeOK, ProcessesOK, Places
<1>2. UNCHANGED <<now, moves, commits, head>>
  BY <1>1 DEF agent
<1>3. on[p] \in Tree /\ sha[p] \in Baselines
  BY <1>1 DEF ProcessesOK
<1>4. ref' \in [Tree -> Baselines]
  BY <1>3 DEF MakeRef, TypeOK, Default
<1>5. ProcessesOK'
  BY <1>1, <1>2, GotoType DEF Places
<1>6. QED
  BY <1>1, <1>2, <1>4, <1>5, TypeFrom DEF TypeOK

LEMMA ReadCacheType ==
  ASSUME TypeOK, NEW p \in Proc, ReadCache(p)
  PROVE  TypeOK'
<1>1. /\ ProcessesOK /\ UNCHANGED <<agent, layers, on, sha>> /\ at[p] = "read"
      /\ Goto(p, "open")
  BY DEF ReadCache, TypeOK, ProcessesOK, Places
<1>2. UNCHANGED <<now, moves, commits, head>> /\ UNCHANGED <<cache, ref, daemon>>
  BY <1>1 DEF agent, layers, net
<1>3. on[p] \in Tree /\ sha[p] \in Baselines
  BY <1>1 DEF ProcessesOK
<1> DEFINE d == Default(Readable.dirty, "unknown", DirtyPath(on[p]))
           r == [Readable EXCEPT !.sha = sha[p], !.ws = on[p], !.dirty = d]
<1>4. Readable \in Records
  BY ReadableIsRecord DEF TypeOK
<1>5. d \in {"unknown", "clean", "dirty"}
  BY <1>4 DEF Default, DirtyPath, Records
<1>6. r \in Records
  <2> HIDE DEF d
  <2>1. QED
    BY <1>3, <1>4, <1>5 DEF Records
<1>7. data' = [data EXCEPT ![p] = r]
  BY <1>4 DEF ReadCache, Records
<1>8. data' \in [Proc -> Records]
  BY <1>6, <1>7 DEF TypeOK
<1>9. ProcessesOK'
  BY <1>1, <1>2, GotoType DEF Places
<1>10. QED
  BY <1>2, <1>8, <1>9, TypeFrom DEF TypeOK

LEMMA OpenType ==
  ASSUME TypeOK, NEW p \in Proc, Open(p)
  PROVE  TypeOK'
<1>1. /\ ProcessesOK /\ UNCHANGED <<agent, ref, net, on, sha, data>> /\ at[p] = "open"
      /\ Goto(p, "put") /\ cache' = Torn
  BY DEF Open, TypeOK, ProcessesOK, Places
<1>2. UNCHANGED <<now, moves, commits, head>> /\ UNCHANGED daemon
  BY <1>1 DEF agent, net
<1>3. ProcessesOK'
  BY <1>1, <1>2, GotoType DEF Places
<1>4. QED
  BY <1>1, <1>2, <1>3, TypeFrom, BlankIsRecord DEF TypeOK

LEMMA PutType ==
  ASSUME TypeOK, NEW p \in Proc, Put(p)
  PROVE  TypeOK'
<1>1. /\ ProcessesOK /\ UNCHANGED <<agent, ref, net>> /\ at[p] = "put"
      /\ Return(p, sha[p]) /\ data' = [data EXCEPT ![p] = Blank]
      /\ cache' \in {data[p], Torn}
  BY DEF Put, TypeOK, ProcessesOK, Places
<1>2. UNCHANGED <<now, moves, commits, head>> /\ UNCHANGED daemon
  BY <1>1 DEF agent, net
<1>3. cache' \in Records /\ data' \in [Proc -> Records]
  BY <1>1, BlankIsRecord DEF TypeOK
<1>4. sha[p] \in Baselines
  BY <1>1 DEF ProcessesOK
<1>5. ProcessesOK'
  BY <1>1, <1>2, <1>4, ReturnType
<1>6. QED
  BY <1>1, <1>2, <1>3, <1>5, TypeFrom DEF TypeOK

LEMMA EndsType ==
  ASSUME TypeOK, NEW p \in Proc, End(p), UNCHANGED <<agent, cache, ref, daemon>>
  PROVE  TypeOK'
<1>1. ProcessesOK /\ data' = [data EXCEPT ![p] = Blank]
  BY DEF End, TypeOK, ProcessesOK, Places
<1>2. UNCHANGED <<now, moves, commits, head>>
  BY DEF agent
<1>3. data' \in [Proc -> Records]
  BY <1>1, BlankIsRecord DEF TypeOK
<1>4. ProcessesOK'
  BY <1>1, <1>2, EndType
<1>5. QED
  BY <1>2, <1>3, <1>4, TypeFrom DEF TypeOK

LEMMA StopType ==
  ASSUME TypeOK, (\E t \in Tree : StopBegins(t)) \/ Compare \/ StopFails \/ StopAnswers
  PROVE  TypeOK'
<1>1. Stop \in Proc /\ ProcessesOK
  BY DEF Proc, TypeOK, ProcessesOK, Places
<1>2. CASE \E t \in Tree : StopBegins(t)
  <2>1. PICK t \in Tree : StopBegins(t)
    BY <1>2
  <2>2. UNCHANGED <<now, moves, commits, head>> /\ UNCHANGED <<cache, ref, daemon, data>>
    BY <2>1 DEF StopBegins, agent, layers, net
  <2>3. \E place \in {"find", "compare"} : at' = [at EXCEPT ![Stop] = place]
    BY <2>1 DEF StopBegins, Goto
  <2>4. /\ on' = [on EXCEPT ![Stop] = t] /\ sha' = [sha EXCEPT ![Stop] = 0]
        /\ \A p \in Proc : at[p] = "idle"
    BY <2>1 DEF StopBegins
  <2>5. ProcessesOK'
    BY <1>1, <2>2, <2>3, <2>4, SameRecords, NoneIsBaseline, BaselineAssumption
       DEF ProcessesOK, Places, Proc
  <2>6. QED
    BY <2>2, <2>5, TypeFrom DEF TypeOK
<1>3. CASE Compare
  <2>1. UNCHANGED <<now, moves, commits, head>> /\ UNCHANGED <<cache, ref, daemon, data, on, sha>>
    BY <1>3 DEF Compare, agent, layers, net
  <2>2. at[Stop] = "compare" /\ Goto(Stop, "answer")
    BY <1>3 DEF Compare
  <2>3. ProcessesOK'
    BY <1>1, <2>1, <2>2, GotoType DEF Places
  <2>4. QED
    BY <2>1, <2>3, TypeFrom DEF TypeOK
<1>4. CASE StopFails \/ StopAnswers
  <2>1. End(Stop) /\ UNCHANGED <<agent, cache, ref, daemon>>
    BY <1>4 DEF StopFails, StopAnswers, layers, net
  <2>2. QED
    BY <1>1, <2>1, EndsType
<1>5. QED
  BY <1>2, <1>3, <1>4

LEMMA DieType ==
  ASSUME TypeOK, NEW p \in Proc, Die(p)
  PROVE  TypeOK'
BY EndsType DEF Die

LEMMA StutterType ==
  ASSUME TypeOK, UNCHANGED vars
  PROVE  TypeOK'
BY SameRecords DEF TypeOK, vars, agent, layers, net, process

LEMMA NextType ==
  ASSUME TypeOK, [Next]_vars
  PROVE  TypeOK'
<1>1. CASE \E t \in Tree : Edit(t) \/ Undo(t) \/ Commit(t) \/ Flag(t) \/ LoseGit(t)
  BY <1>1, EditType, UndoType, CommitType, IndexType
<1>2. CASE \E t \in Tree, p \in Hook : HookStarts(p, t)
  BY <1>2, HookStartsType
<1>3. CASE \E ws \in Tree \union {"above"} : SessionStart(ws)
  BY <1>3, SessionStartType
<1>4. CASE \E p \in Proc : Lookup(p)
  BY <1>4, FindType, RegisterType, MakeRefType, ReadCacheType, OpenType, PutType, DieType
     DEF Lookup
<1>5. CASE (\E t \in Tree : StopBegins(t)) \/ Compare \/ StopFails \/ StopAnswers
  BY <1>5, StopType
<1>6. CASE UNCHANGED vars
  BY <1>6, StutterType
<1>7. QED
  BY <1>1, <1>2, <1>3, <1>4, <1>5, <1>6 DEF Next

\* Each variable has its values, for any number of trees, hooks and commits.
THEOREM BaselineTypeCorrect == Spec => []TypeOK
<1>1. Init => TypeOK
  BY InitType
<1>2. TypeOK /\ [Next]_vars => TypeOK'
  BY NextType
<1>3. QED
  BY <1>1, <1>2, PTL DEF Spec
-----------------------------------------------------------------------------
Writing(p) == at[p] \in {"open", "put"}

\* A hook only runs after SessionStart.  As long as no two hooks crossed, one at
\* most is about to write the cache file, what it will write has the record,
\* and the file is only empty while it is at it.
RecordInv ==
  /\ first.ws = "none" => \A p \in Proc : at[p] = "idle"
  /\ ~crossed =>
       /\ \A p, q \in Proc : Writing(p) /\ Writing(q) => p = q
       /\ \A p \in Proc : Writing(p) => data[p].started /\ data[p].hashes = first.hashes
       /\ cache = Torn <=> \E p \in Proc : at[p] = "put"
       /\ RecordKept

LEMMA InitRecord == Init => RecordInv
BY DEF Init, RecordInv, RecordKept, Writing, Blank, Torn

\* A step that neither writes the cache file nor comes to be about to.
LEMMA QuietKeeps ==
  ASSUME RecordInv, UNCHANGED <<cache, first>>, crossed => crossed',
         first.ws = "none" => \A p \in Proc : at'[p] = "idle",
         ~crossed' => \A p \in Proc :
           /\ at'[p] = "put" <=> at[p] = "put"
           /\ Writing(p)' => Writing(p) /\ data'[p] = data[p]
  PROVE  RecordInv'
BY DEF RecordInv, RecordKept

LEMMA AgentKeeps ==
  ASSUME RecordInv, UNCHANGED <<layers, process, history>>
  PROVE  RecordInv'
<1>1. UNCHANGED <<cache, first, crossed, at, data>>
  BY DEF layers, process, history
<1>2. \A p \in Proc : Writing(p)' <=> Writing(p)
  BY <1>1 DEF Writing
<1>3. first.ws = "none" => \A p \in Proc : at'[p] = "idle"
  BY <1>1 DEF RecordInv
<1>4. QED
  BY <1>1, <1>2, <1>3, QuietKeeps

\* A process that moves without writing.
LEMMA MoveKeeps ==
  ASSUME TypeOK, RecordInv, UNCHANGED <<cache, first>>, crossed => crossed',
         NEW p \in Proc, NEW place, Goto(p, place), place \notin {"open", "put"},
         first.ws # "none" \/ at[p] # "idle",
         crossed' \/ at[p] # "put",
         data' = data \/ data' = [data EXCEPT ![p] = Blank]
  PROVE  RecordInv'
<1>1. first.ws # "none"
  BY DEF RecordInv
<1>2. ASSUME NEW q \in Proc, ~crossed'
      PROVE  /\ at'[q] = "put" <=> at[q] = "put"
             /\ Writing(q)' => Writing(q) /\ data'[q] = data[q]
  BY <1>2 DEF TypeOK, Goto, Writing
<1>3. QED
  BY <1>1, <1>2, QuietKeeps

LEMMA ReturnGoes ==
  ASSUME NEW p, NEW n, Return(p, n)
  PROVE  \E place \in {"compare", "idle"} : Goto(p, place)
BY DEF Return

LEMMA HookStartsKeeps ==
  ASSUME TypeOK, RecordInv, NEW p \in Hook, NEW t \in Tree, HookStarts(p, t)
  PROVE  RecordInv'
<1>1. /\ p \in Proc /\ UNCHANGED <<cache, first, crossed, data>> /\ at[p] = "idle"
      /\ Goto(p, "find") /\ first.ws # "none"
  BY DEF HookStarts, Moving, layers, history, Proc
<1>2. QED
  BY <1>1, MoveKeeps

LEMMA FindKeeps ==
  ASSUME TypeOK, RecordInv, NEW p \in Proc, Find(p)
  PROVE  RecordInv'
<1>1. /\ UNCHANGED <<cache, first, data>> /\ at[p] = "find" /\ (crossed => crossed')
  BY DEF Find
<1>2. \E place \in {"compare", "idle", "read", "register", "doubt"} : Goto(p, place)
  BY ReturnGoes DEF Find, FindHead
<1>3. QED
  BY <1>1, <1>2, MoveKeeps

LEMMA AskKeeps ==
  ASSUME TypeOK, RecordInv, NEW p \in Proc, Register(p) \/ MakeRef(p)
  PROVE  RecordInv'
<1>1. /\ UNCHANGED <<cache, first, crossed, data>>
      /\ at[p] \in {"register", "doubt", "mkref"}
      /\ \E place \in {"mkref", "read"} : Goto(p, place)
  BY DEF Register, MakeRef, history
<1>2. QED
  BY <1>1, MoveKeeps

LEMMA DieKeeps ==
  ASSUME TypeOK, RecordInv, NEW p \in Proc, Die(p)
  PROVE  RecordInv'
<1>1. /\ UNCHANGED <<cache, first>> /\ at[p] # "idle" /\ crossed' = (crossed \/ at[p] = "put")
      /\ Goto(p, "idle") /\ data' = [data EXCEPT ![p] = Blank]
  BY DEF Die, End
<1>2. QED
  BY <1>1, MoveKeeps

LEMMA StopKeeps ==
  ASSUME TypeOK, RecordInv,
         (\E t \in Tree : StopBegins(t)) \/ Compare \/ StopFails \/ StopAnswers
  PROVE  RecordInv'
<1>1. /\ UNCHANGED <<cache, first, crossed>> /\ Stop \in Proc
      /\ data' = data \/ data' = [data EXCEPT ![Stop] = Blank]
  BY DEF StopBegins, Compare, StopFails, StopAnswers, End, layers, history, Proc
<1>2. \E place \in {"find", "compare", "answer", "idle"} : Goto(Stop, place)
  BY DEF StopBegins, Compare, StopFails, StopAnswers, End
<1>3. (first.ws # "none" \/ at[Stop] # "idle") /\ at[Stop] # "put"
  BY <1>1 DEF StopBegins, Compare, StopFails, StopAnswers
<1>4. QED
  BY <1>1, <1>2, <1>3, MoveKeeps

\* It finds no record only if there is none, and then every hook is idle.
LEMMA SessionStartKeeps ==
  ASSUME TypeOK, RecordInv, NEW ws \in Tree \union {"above"}, SessionStart(ws)
  PROVE  RecordInv'
<1>1. /\ \A p \in Proc : at[p] = "idle"
      /\ UNCHANGED <<at, data, crossed>> /\ ~Readable.started
      /\ cache' = StartRecord(Readable, ws)
      /\ first' = IF first.ws # "none" THEN first ELSE [hashes |-> cache'.hashes, ws |-> ws]
  BY DEF SessionStart, process
<1>2. ws # "none" /\ first'.ws # "none"
  BY <1>1, BaselineAssumption
<1>3. cache'.started
  BY <1>1 DEF StartRecord
<1>4. cache' # Torn
  BY <1>3 DEF Torn, Blank
<1>5. CASE crossed
  BY <1>1, <1>2, <1>5 DEF RecordInv
<1>6. CASE ~crossed
  <2>1. cache # Torn /\ Readable = cache
    BY <1>1, <1>6 DEF RecordInv, Readable
  <2>2. first.ws = "none"
    BY <1>1, <1>6, <2>1 DEF RecordInv, RecordKept
  <2>3. first'.hashes = cache'.hashes
    BY <1>1, <2>2
  <2>4. \A p \in Proc : ~Writing(p)' /\ at'[p] # "put"
    BY <1>1 DEF Writing
  <2>5. QED
    BY <1>1, <1>2, <1>3, <1>4, <2>3, <2>4 DEF RecordInv, RecordKept
<1>7. QED
  BY <1>5, <1>6

\* With no other hook about to write, the file is whole and has the record.
LEMMA ReadCacheKeeps ==
  ASSUME TypeOK, RecordInv, NEW p \in Proc, ReadCache(p)
  PROVE  RecordInv'
<1>1. /\ UNCHANGED <<cache, first>> /\ at[p] = "read" /\ at' = [at EXCEPT ![p] = "open"]
      /\ crossed' = (crossed \/ Others(p))
  BY DEF ReadCache, layers, Goto
<1>2. first.ws # "none"
  BY <1>1 DEF RecordInv
<1>3. CASE crossed'
  BY <1>1, <1>2, <1>3 DEF RecordInv
<1>4. CASE ~crossed'
  <2>1. ~crossed /\ \A q \in Proc : ~Writing(q)
    BY <1>1, <1>4 DEF Others, Writing
  <2>2. cache # Torn
    BY <2>1 DEF RecordInv, Writing
  <2>3. Readable = cache /\ cache.started /\ cache.hashes = first.hashes
    BY <1>2, <2>1, <2>2 DEF RecordInv, RecordKept, Readable
  <2>4. data'[p].started = cache.started /\ data'[p].hashes = cache.hashes
    BY <2>3 DEF ReadCache, TypeOK, Records
  <2>5. \A q \in Proc : (Writing(q)' <=> q = p) /\ at'[q] # "put"
    BY <1>1, <2>1 DEF TypeOK, Writing
  <2>6. QED
    BY <1>1, <1>2, <2>2, <2>3, <2>4, <2>5 DEF RecordInv, RecordKept
<1>5. QED
  BY <1>3, <1>4

LEMMA OpenKeeps ==
  ASSUME TypeOK, RecordInv, NEW p \in Proc, Open(p)
  PROVE  RecordInv'
<1>1. /\ UNCHANGED <<data, first, crossed>> /\ at[p] = "open" /\ at' = [at EXCEPT ![p] = "put"]
      /\ cache' = Torn
  BY DEF Open, Goto
<1>2. first.ws # "none"
  BY <1>1 DEF RecordInv
<1>3. at'[p] = "put" /\ \A q \in Proc : Writing(q)' <=> Writing(q)
  BY <1>1 DEF TypeOK, Writing
<1>4. QED
  BY <1>1, <1>2, <1>3 DEF RecordInv, RecordKept

LEMMA PutKeeps ==
  ASSUME TypeOK, RecordInv, NEW p \in Proc, Put(p)
  PROVE  RecordInv'
<1>1. /\ UNCHANGED <<first, crossed>> /\ at[p] = "put"
      /\ cache' \in {data[p]} \union (IF cache = Torn THEN {} ELSE {Torn})
  BY DEF Put, history
<1>2. \E place \in {"compare", "idle"} : at' = [at EXCEPT ![p] = place]
  BY ReturnGoes DEF Put, Goto
<1>3. first.ws # "none"
  BY <1>1 DEF RecordInv
<1>4. CASE crossed
  BY <1>1, <1>3, <1>4 DEF RecordInv
<1>5. CASE ~crossed
  <2>1. \A q \in Proc : Writing(q) => q = p
    BY <1>1, <1>5 DEF RecordInv, Writing
  <2>2. cache' = data[p] /\ data[p].started /\ data[p].hashes = first.hashes
    BY <1>1, <1>5 DEF RecordInv, Writing
  <2>3. cache' # Torn
    BY <2>2 DEF Torn, Blank
  <2>4. \A q \in Proc : ~Writing(q)' /\ at'[q] # "put"
    BY <1>2, <2>1 DEF TypeOK, Writing
  <2>5. QED
    BY <1>1, <1>3, <2>2, <2>3, <2>4 DEF RecordInv, RecordKept
<1>6. QED
  BY <1>4, <1>5

LEMMA NextRecord ==
  ASSUME TypeOK, RecordInv, [Next]_vars
  PROVE  RecordInv'
<1>1. CASE \E t \in Tree : Edit(t) \/ Undo(t) \/ Commit(t) \/ Flag(t) \/ LoseGit(t)
  <2>1. UNCHANGED <<layers, process, history>>
    BY <1>1 DEF Edit, Undo, Commit, Flag, LoseGit, Working, Moving
  <2>2. QED
    BY <2>1, AgentKeeps
<1>2. CASE \E t \in Tree, p \in Hook : HookStarts(p, t)
  BY <1>2, HookStartsKeeps
<1>3. CASE \E ws \in Tree \union {"above"} : SessionStart(ws)
  BY <1>3, SessionStartKeeps
<1>4. CASE \E p \in Proc : Lookup(p)
  BY <1>4, FindKeeps, AskKeeps, ReadCacheKeeps, OpenKeeps, PutKeeps, DieKeeps DEF Lookup
<1>5. CASE (\E t \in Tree : StopBegins(t)) \/ Compare \/ StopFails \/ StopAnswers
  BY <1>5, StopKeeps
<1>6. CASE UNCHANGED vars
  BY <1>6, AgentKeeps DEF vars
<1>7. QED
  BY <1>1, <1>2, <1>3, <1>4, <1>5, <1>6 DEF Next

\* What SessionStart recorded stays recorded, through resumed sessions and hooks
\* in every tree, as long as no hook reads the cache file while another is about
\* to write it or dies in between.
THEOREM RecordIsKept == Spec => []RecordKept
<1>1. Init => TypeOK /\ RecordInv
  BY InitType, InitRecord
<1>2. TypeOK /\ RecordInv /\ [Next]_vars => (TypeOK /\ RecordInv)'
  BY NextType, NextRecord
<1>3. TypeOK /\ RecordInv => RecordKept
  BY DEF RecordInv, RecordKept
<1>4. QED
  BY <1>1, <1>2, <1>3, PTL DEF Spec
-----------------------------------------------------------------------------
(* What a stop knows of the start of the session *)

Looking == {"find", "register", "doubt", "mkref", "read", "open", "put"}

\* Before SessionStart nothing has happened.
AtFirst ==
  first.ws = "none" =>
    /\ cache = Blank
    /\ ref = [t \in Tree |-> 0] /\ daemon = [t \in Tree |-> 0]
    /\ commits = <<0>> /\ git = [t \in Tree |-> TRUE]
    /\ now = start

\* It records what the trees had at the start.
HashesOfStart == \A t \in Tree : first.hashes[t] \in {Unrecorded, Unlisted, start[t]}

\* Every layer that has a baseline of t has the first commit.
LayersAt(t) ==
  /\ cache # Torn => cache.ws = t /\ cache.sha = 1
  /\ ref[t] \in {0, 1} /\ daemon[t] \in {0, 1}

\* Only a process in t writes the cache file; one that has got past HEAD, or is
\* told by the daemon, has the first commit.
OnCourse(p, t) ==
  /\ at[p] = "put" => on[p] = t
  /\ on[p] = t =>
       /\ at[p] # "register"
       /\ at[p] \in {"mkref", "read", "open", "put"} => sha[p] = 1
       /\ Writing(p) => data[p].ws = t /\ data[p].sha = 1
       /\ p = Stop /\ at[p] \in {"compare", "answer"} /\ git[t] => sha[p] = 1

\* Until a hook of another tree takes the cache file over, or git and the daemon
\* both fail a lookup, the tree of the session has the first commit for its
\* baseline, in every layer and every lookup.
OwnTree ==
  first.ws \in Tree /\ ~crossed /\ first.ws \notin moved \union missed =>
    LayersAt(first.ws) /\ \A p \in Proc : OnCourse(p, first.ws)

Unseen(t) == ~seen /\ now[t] # start[t] /\ ~crossed /\ first.hashes[t] # Unrecorded

\* What git status shows of an edited file the stop has counted at once.
DirtySeen ==
  at[Stop] \in Looking \union {"compare"} /\ Unseen(on[Stop]) => ~Dirty(on[Stop])

StartInv == AtFirst /\ HashesOfStart /\ OwnTree

StopInv == DirtySeen /\ EditSeen

LEMMA InitSession == Init => StartInv /\ StopInv
<1> SUFFICES ASSUME Init PROVE StartInv /\ StopInv
  OBVIOUS
<1>1. first.ws = "none" /\ first.hashes = NoHashes /\ at[Stop] = "idle" /\ "none" \notin Tree
  BY BaselineAssumption DEF Init, Proc
<1>2. AtFirst
  BY DEF Init, AtFirst
<1>3. HashesOfStart
  BY <1>1 DEF HashesOfStart, NoHashes
<1>4. OwnTree
  BY <1>1 DEF OwnTree
<1>5. StopInv
  BY <1>1 DEF StopInv, DirtySeen, EditSeen, Looking
<1>6. QED
  BY <1>2, <1>3, <1>4, <1>5 DEF StartInv

\* While no two hooks have crossed and nobody writes, the file has the record.
LEMMA CacheHasRecord ==
  ASSUME RecordInv, first.ws # "none", ~crossed, \A p \in Proc : at[p] # "put"
  PROVE  Readable = cache /\ cache.started /\ cache.hashes = first.hashes
BY DEF RecordInv, RecordKept, Readable

\* Only the stop's own steps leave it where it could be wrong.
LEMMA StopElsewhere ==
  ASSUME at'[Stop] = "idle"
  PROVE  StopInv'
BY DEF StopInv, DirtySeen, EditSeen, Looking

\* A session that has started stays started, and its record of the start stays.
LEMMA StartedKeeps ==
  ASSUME first.ws # "none", HashesOfStart, UNCHANGED <<first, start>>
  PROVE  AtFirst' /\ HashesOfStart'
BY DEF AtFirst, HashesOfStart

\* A step that keeps the first commit in the layers and lookups of the tree of
\* the session, unless it is one of the exceptions.
LEMMA OwnKeeps ==
  ASSUME OwnTree, UNCHANGED first, crossed => crossed',
         moved \subseteq moved', missed \subseteq missed',
         ASSUME first.ws \in Tree, ~crossed, ~crossed',
                first.ws \notin moved' \union missed',
                LayersAt(first.ws), \A p \in Proc : OnCourse(p, first.ws)
         PROVE  LayersAt(first.ws)' /\ \A p \in Proc : OnCourse(p, first.ws)'
  PROVE  OwnTree'
BY DEF OwnTree

\* What a step of another process leaves of one.
LEMMA StaysOnCourse ==
  ASSUME NEW p \in Proc, NEW t \in Tree, OnCourse(p, t), git'[t] => git[t],
         at'[p] = at[p], on'[p] = on[p], sha'[p] = sha[p], data'[p] = data[p]
  PROVE  OnCourse(p, t)'
BY DEF OnCourse, Writing

LEMMA AgentSession ==
  ASSUME TypeOK, StartInv, NEW t \in Tree,
         Edit(t) \/ Undo(t) \/ Commit(t) \/ Flag(t) \/ LoseGit(t)
  PROVE  StartInv' /\ StopInv'
<1>1. /\ first.ws # "none" /\ at[Stop] = "idle"
      /\ UNCHANGED <<cache, ref, daemon, at, on, sha, data, first, moved, missed, crossed, start>>
  BY DEF Edit, Undo, Commit, Flag, LoseGit, Working, Moving, layers, net, process, history, TypeOK
<1>2. OwnTree'
  <2>1. ASSUME first.ws \in Tree, LayersAt(first.ws), \A p \in Proc : OnCourse(p, first.ws)
        PROVE  LayersAt(first.ws)' /\ \A p \in Proc : OnCourse(p, first.ws)'
    BY <1>1, <2>1 DEF LayersAt, OnCourse, Writing
  <2>2. QED
    BY <1>1, <2>1, OwnKeeps DEF StartInv
<1>3. QED
  BY <1>1, <1>2, StartedKeeps, StopElsewhere DEF StartInv

LEMMA SessionStartSession ==
  ASSUME TypeOK, RecordInv, StartInv, NEW ws \in Tree \union {"above"}, SessionStart(ws)
  PROVE  StartInv' /\ StopInv'
<1>1. /\ \A p \in Proc : at[p] = "idle"
      /\ UNCHANGED <<now, commits, head, git, flagged, start, at, on, sha, ref, daemon, moved,
                     missed, crossed>>
      /\ ~Readable.started
      /\ cache' = StartRecord(Readable, ws)
      /\ first' = IF first.ws # "none" THEN first ELSE [hashes |-> cache'.hashes, ws |-> ws]
  BY DEF SessionStart, agent, process, net
<1>2. Stop \in Proc /\ ws # "none" /\ "none" \notin Tree
  BY BaselineAssumption DEF Proc
<1>3. StopInv'
  BY <1>1, <1>2, StopElsewhere
<1>4. CASE first.ws # "none"
  <2>1. crossed
    BY <1>1, <1>4, CacheHasRecord
  <2>2. OwnTree'
    BY <1>1, <2>1 DEF OwnTree
  <2>3. QED
    BY <1>1, <1>3, <1>4, <2>2, StartedKeeps DEF StartInv
<1>5. CASE first.ws = "none"
  <2>1. /\ cache = Blank /\ DOMAIN commits = {1}
        /\ ref = [t \in Tree |-> 0] /\ daemon = [t \in Tree |-> 0]
        /\ git = [t \in Tree |-> TRUE] /\ now = start
    BY <1>5 DEF StartInv, AtFirst
  <2>2. Readable = Blank
    BY <2>1 DEF Readable
  <2>3. first' = [hashes |-> cache'.hashes, ws |-> ws]
    BY <1>1, <1>5
  <2>4. AtFirst'
    BY <1>2, <2>3 DEF AtFirst
  <2>5. HashesOfStart'
    BY <1>1, <2>1, <2>3 DEF HashesOfStart, StartRecord, Hash
  <2>6. OwnTree'
    <3> SUFFICES ASSUME ws \in Tree
                 PROVE  LayersAt(ws)'
      BY <1>1, <1>2, <2>3 DEF OwnTree, OnCourse, Writing
    <3>1. head[ws] = 1 /\ git[ws]
      BY <2>1 DEF TypeOK
    <3>2. cache'.started /\ cache'.ws = ws /\ cache'.sha = 1
      BY <1>1, <2>2, <3>1 DEF StartRecord, Default, Blank
    <3>3. cache' # Torn
      BY <3>2 DEF Torn, Blank
    <3>4. QED
      BY <1>1, <2>1, <3>2, <3>3 DEF LayersAt
  <2>7. QED
    BY <1>3, <2>4, <2>5, <2>6 DEF StartInv
<1>6. QED
  BY <1>4, <1>5

LEMMA HookStartsSession ==
  ASSUME TypeOK, StartInv, NEW p \in Hook, NEW t \in Tree, HookStarts(p, t)
  PROVE  StartInv' /\ StopInv'
<1>1. /\ first.ws # "none" /\ at[Stop] = "idle" /\ p # Stop /\ p \in Proc /\ Stop \in Proc
      /\ UNCHANGED <<cache, ref, daemon, git, sha, data, first, moved, missed, crossed, start>>
      /\ at' = [at EXCEPT ![p] = "find"] /\ on' = [on EXCEPT ![p] = t]
  BY BaselineAssumption DEF HookStarts, Moving, Goto, layers, net, history, Proc
<1>2. at'[Stop] = "idle"
  BY <1>1 DEF TypeOK
<1>3. OwnTree'
  <2>1. ASSUME first.ws \in Tree, LayersAt(first.ws), \A q \in Proc : OnCourse(q, first.ws)
        PROVE  LayersAt(first.ws)' /\ \A q \in Proc : OnCourse(q, first.ws)'
    <3>1. OnCourse(p, first.ws)'
      BY <1>1 DEF OnCourse, Writing, TypeOK
    <3>2. ASSUME NEW q \in Proc, q # p
          PROVE  OnCourse(q, first.ws)'
      <4>1. at'[q] = at[q] /\ on'[q] = on[q]
        BY <1>1, <3>2 DEF TypeOK
      <4>2. QED
        BY <1>1, <2>1, <4>1, StaysOnCourse
    <3>3. LayersAt(first.ws)'
      BY <1>1, <2>1 DEF LayersAt
    <3>4. QED
      BY <3>1, <3>2, <3>3
  <2>2. QED
    BY <1>1, <2>1, OwnKeeps DEF StartInv
<1>4. QED
  BY <1>1, <1>2, <1>3, StartedKeeps, StopElsewhere DEF StartInv

\* A hook runs only while no stop does.
LEMMA StopOrHook ==
  ASSUME TypeOK, NEW p \in Proc, at[p] # "idle"
  PROVE  p = Stop \/ (p # Stop /\ at[Stop] = "idle")
BY DEF TypeOK, Proc

\* The steps of a lookup leave alone what the agent has, and the first record.
LEMMA LookupFrame ==
  ASSUME NEW p \in Proc, Lookup(p)
  PROVE  /\ at[p] # "idle" /\ UNCHANGED <<now, commits, head, git, flagged, start, first>>
         /\ UNCHANGED seen
         /\ crossed => crossed'
         /\ moved \subseteq moved' /\ missed \subseteq missed'
<1> USE DEF agent, history, Unconfirmed
<1>1. CASE Find(p)
  BY <1>1 DEF Find, FindHead
<1>2. CASE Register(p) \/ MakeRef(p)
  BY <1>2 DEF Register, MakeRef
<1>3. CASE ReadCache(p)
  BY <1>3 DEF ReadCache
<1>4. CASE Open(p)
  BY <1>4 DEF Open
<1>5. CASE Put(p)
  BY <1>5 DEF Put
<1>6. CASE Die(p)
  BY <1>6 DEF Die
<1>7. QED
  BY <1>1, <1>2, <1>3, <1>4, <1>5, <1>6 DEF Lookup

\* Where a lookup takes a process; it stays in its tree until it is over.
LEMMA LookupMoves ==
  ASSUME TypeOK, NEW p \in Proc, Lookup(p)
  PROVE  /\ \A q \in Proc \ {p} : /\ at'[q] = at[q] /\ on'[q] = on[q]
                                   /\ sha'[q] = sha[q] /\ data'[q] = data[q]
         /\ on'[p] = on[p] \/ (p # Stop /\ at'[p] = "idle")
         /\ at'[p] # "answer"
<1>0. \A q \in Proc \ {p} : data'[q] = data[q]
  BY DEF Lookup, Find, Register, MakeRef, ReadCache, Open, Put, Die, End, TypeOK
<1>1. ASSUME NEW place \in Places \ {"answer"}, Goto(p, place), UNCHANGED on,
             sha' = sha \/ \E n : sha' = [sha EXCEPT ![p] = n]
      PROVE  /\ \A q \in Proc \ {p} : at'[q] = at[q] /\ on'[q] = on[q] /\ sha'[q] = sha[q]
             /\ on'[p] = on[p]
             /\ at'[p] # "answer"
  BY <1>1 DEF TypeOK, Goto
<1>2. ASSUME NEW n, Return(p, n)
      PROVE  /\ \A q \in Proc \ {p} : at'[q] = at[q] /\ on'[q] = on[q] /\ sha'[q] = sha[q]
             /\ on'[p] = on[p] \/ (p # Stop /\ at'[p] = "idle")
             /\ at'[p] # "answer"
  BY <1>2 DEF TypeOK, Return, Goto
<1>3. CASE Find(p)
  <2>1. ASSUME NEW bad, NEW t, FindHead(p, t, bad), "head" \notin bad
        PROVE  /\ \E place \in {"register", "doubt"} : Goto(p, place)
               /\ UNCHANGED on /\ sha' = [sha EXCEPT ![p] = head[t]]
    BY <2>1 DEF FindHead
  <2>2. ASSUME NEW bad, NEW t, FindHead(p, t, bad), "head" \in bad
        PROVE  Return(p, 0)
    BY <2>2 DEF FindHead
  <2>3. \/ \E n : Return(p, n)
        \/ /\ \E place \in Places \ {"answer"} : Goto(p, place)
           /\ UNCHANGED on /\ \E n : sha' = [sha EXCEPT ![p] = n]
    BY <1>3, <2>1, <2>2 DEF Find, Places
  <2>4. QED
    BY <1>0, <1>1, <1>2, <2>3
<1>4. CASE Register(p) \/ MakeRef(p) \/ ReadCache(p) \/ Open(p)
  <2>1. /\ \E place \in Places \ {"answer"} : Goto(p, place)
        /\ UNCHANGED on
        /\ sha' = sha \/ \E n : sha' = [sha EXCEPT ![p] = n]
    BY <1>4, RegisterAnswers DEF Register, MakeRef, ReadCache, Open, Places
  <2>2. QED
    BY <1>0, <1>1, <2>1
<1>5. CASE Put(p)
  BY <1>0, <1>2, <1>5 DEF Put
<1>6. CASE Die(p)
  BY <1>0, <1>6, BaselineAssumption DEF Die, End, Goto, TypeOK
<1>7. QED
  BY <1>3, <1>4, <1>5, <1>6 DEF Lookup

\* A step of a lookup keeps the tree of the session on course if it keeps the
\* layers and its own process so.
LEMMA LookupOwn ==
  ASSUME TypeOK, OwnTree, NEW p \in Proc, Lookup(p),
         ASSUME first.ws \in Tree, ~crossed, ~crossed',
                first.ws \notin moved' \union missed',
                LayersAt(first.ws), OnCourse(p, first.ws)
         PROVE  LayersAt(first.ws)' /\ OnCourse(p, first.ws)'
  PROVE  OwnTree'
<1>1. /\ UNCHANGED <<git, first>> /\ (crossed => crossed')
      /\ moved \subseteq moved' /\ missed \subseteq missed'
  BY LookupFrame
<1>2. ASSUME first.ws \in Tree, ~crossed, ~crossed',
             first.ws \notin moved' \union missed',
             LayersAt(first.ws), \A q \in Proc : OnCourse(q, first.ws)
      PROVE  LayersAt(first.ws)' /\ \A q \in Proc : OnCourse(q, first.ws)'
  <2>1. LayersAt(first.ws)' /\ OnCourse(p, first.ws)'
    BY <1>2
  <2>2. ASSUME NEW q \in Proc, q # p
        PROVE  OnCourse(q, first.ws)'
    <3>1. /\ at'[q] = at[q] /\ on'[q] = on[q]
          /\ sha'[q] = sha[q] /\ data'[q] = data[q]
      BY <2>2, LookupMoves
    <3>2. QED
      BY <1>1, <1>2, <3>1, StaysOnCourse
  <2>3. QED
    BY <2>1, <2>2
<1>3. QED
  BY <1>1, <1>2, OwnKeeps

\* The daemon keeps the first baseline it is told.
LEMMA KeepsFirst ==
  ASSUME TypeOK, NEW t \in Tree, NEW u \in Tree, NEW n,
         Keep(u, n) \/ UNCHANGED daemon, daemon[t] \in {0, 1}, u = t => n = 1
  PROVE  daemon'[t] \in {0, 1}
BY DEF TypeOK, Keep, Default

LEMMA ReturnsTo ==
  ASSUME TypeOK, NEW p \in Proc, NEW n, Return(p, n)
  PROVE  /\ at'[p] \in {"compare", "idle"}
         /\ p = Stop => sha'[p] = n
         /\ on'[p] = on[p] \/ on'[p] = "none"
BY DEF TypeOK, Return, Goto

LEMMA FindOwn ==
  ASSUME TypeOK, RecordInv, OwnTree, NEW p \in Proc, Find(p)
  PROVE  OwnTree'
<1> DEFINE t == first.ws
<1>1. /\ UNCHANGED <<git, first, cache, ref, data>> /\ at[p] = "find"
      /\ crossed' = (crossed \/ Others(p)) /\ on[p] \in Tree
  BY LookupFrame DEF Lookup, Find, TypeOK
<1>2. SUFFICES ASSUME t \in Tree, ~crossed, ~crossed', t \notin moved' \union missed',
                      LayersAt(t), OnCourse(p, t)
               PROVE  LayersAt(t)' /\ OnCourse(p, t)'
  BY LookupOwn DEF Lookup
<1> HIDE DEF t
<1>3. cache # Torn
  BY <1>1, <1>2 DEF RecordInv, Others
<1>4. /\ CacheSha(t) = 1 /\ ref[t] \in {0, 1} /\ daemon[t] \in {0, 1}
  BY <1>2, <1>3 DEF LayersAt, CacheSha, Readable
<1>5. CASE ~ git[on[p]]
  <2>1. Return(p, 0) /\ UNCHANGED daemon
    BY <1>5 DEF Find
  <2>2. at'[p] \in {"compare", "idle"} /\ (on'[p] = on[p] \/ on'[p] = "none")
    BY <2>1, ReturnsTo
  <2>3. OnCourse(p, t)'
    BY <1>1, <1>2, <1>5, <2>2, BaselineAssumption DEF OnCourse, Writing, t
  <2>4. QED
    BY <1>1, <1>2, <2>1, <2>3 DEF LayersAt, t
<1>6. CASE git[on[p]]
  <2> DEFINE u == on[p]
  <2>0. u \in Tree
    BY <1>1
  <2>1. PICK bad \in SUBSET Calls :
            IF RefAnswers(u, bad)
            THEN /\ Goto(p, "read") /\ sha' = [sha EXCEPT ![p] = ref[u]]
                 /\ Tell(u, ref[u], bad) /\ UNCHANGED <<on, missed>>
            ELSE IF CacheAnswers(u, bad)
            THEN Return(p, CacheSha(u)) /\ Tell(u, CacheSha(u), bad) /\ UNCHANGED missed
            ELSE FindHead(p, u, bad) /\ UNCHANGED <<online, daemon>>
    BY <1>6 DEF Find
  <2> HIDE DEF u
  <2>2. CASE RefAnswers(u, bad)
    <3>1. /\ Goto(p, "read") /\ sha' = [sha EXCEPT ![p] = ref[u]]
          /\ Tell(u, ref[u], bad) /\ UNCHANGED on
      BY <2>1, <2>2
    <3>2. at'[p] = "read" /\ sha'[p] = ref[u]
      BY <3>1 DEF Goto, TypeOK
    <3>3. u = t => ref[u] = 1
      BY <1>4, <2>2 DEF RefAnswers
    <3>4. daemon'[t] \in {0, 1}
      BY <1>2, <1>4, <2>0, <3>1, <3>3, KeepsFirst DEF Tell
    <3>5. OnCourse(p, t)'
      BY <1>1, <1>2, <3>1, <3>2, <3>3 DEF OnCourse, Writing, t, u
    <3>6. QED
      BY <1>1, <1>2, <3>4, <3>5 DEF LayersAt, t
  <2>3. CASE ~ RefAnswers(u, bad) /\ CacheAnswers(u, bad)
    <3>1. Return(p, CacheSha(u)) /\ Tell(u, CacheSha(u), bad)
      BY <2>1, <2>3
    <3>2. /\ at'[p] \in {"compare", "idle"} /\ (p = Stop => sha'[p] = CacheSha(u))
          /\ on'[p] = on[p] \/ on'[p] = "none"
      BY <3>1, ReturnsTo
    <3>3. u = t => CacheSha(u) = 1
      BY <1>4
    <3>4. daemon'[t] \in {0, 1}
      BY <1>2, <1>4, <2>0, <3>1, <3>3, KeepsFirst DEF Tell
    <3>5. OnCourse(p, t)'
      BY <1>1, <1>2, <3>2, <3>3, BaselineAssumption DEF OnCourse, Writing, t, u
    <3>6. QED
      BY <1>1, <1>2, <3>4, <3>5 DEF LayersAt, t
  <2>4. CASE ~ RefAnswers(u, bad) /\ ~ CacheAnswers(u, bad)
    <3>1. FindHead(p, u, bad) /\ UNCHANGED daemon
      BY <2>1, <2>4
    <3>2. LayersAt(t)'
      BY <1>1, <1>2, <3>1 DEF LayersAt, t
    <3>3. CASE "head" \in bad
      <4>1. /\ Return(p, 0)
            /\ IF CacheSha(u) = 0 THEN UNCHANGED missed ELSE Unconfirmed(u)
        BY <3>1, <3>3 DEF FindHead
      <4>2. at'[p] \in {"compare", "idle"} /\ (on'[p] = on[p] \/ on'[p] = "none")
        BY <4>1, ReturnsTo
      <4>3. u # t
        BY <1>2, <1>4, <4>1 DEF Unconfirmed
      <4>4. QED
        BY <1>1, <1>2, <4>2, <4>3, <3>2, BaselineAssumption DEF OnCourse, Writing, t, u
    <3>4. CASE "head" \notin bad
      <4>1. Goto(p, IF CacheSha(u) = 0 THEN "register" ELSE "doubt") /\ UNCHANGED on
        BY <3>1, <3>4 DEF FindHead
      <4>2. at'[p] = IF CacheSha(u) = 0 THEN "register" ELSE "doubt"
        BY <4>1 DEF Goto, TypeOK
      <4>3. u = t => at'[p] = "doubt"
        BY <1>4, <4>2
      <4>4. QED
        BY <1>1, <1>2, <3>2, <4>1, <4>2, <4>3 DEF OnCourse, Writing, t, u
    <3>5. QED
      BY <3>3, <3>4
  <2>5. QED
    BY <2>2, <2>3, <2>4
<1>7. QED
  BY <1>5, <1>6

LEMMA RegisterOwn ==
  ASSUME TypeOK, OwnTree, NEW p \in Proc, Register(p)
  PROVE  OwnTree'
<1> DEFINE t == first.ws
<1>1. /\ UNCHANGED <<git, first, cache, ref, data, on>> /\ at[p] \in {"register", "doubt"}
      /\ at'[p] = "mkref" /\ on[p] \in Tree
      /\ Keep(on[p], sha[p]) \/ UNCHANGED daemon
  BY LookupFrame DEF Lookup, Register, Goto, TypeOK, Tell
<1>2. SUFFICES ASSUME t \in Tree, ~crossed, ~crossed', t \notin moved' \union missed',
                      LayersAt(t), OnCourse(p, t)
               PROVE  LayersAt(t)' /\ OnCourse(p, t)'
  BY LookupOwn DEF Lookup
<1> HIDE DEF t
<1>3. CASE on[p] # t
  <2>1. daemon'[t] \in {0, 1}
    BY <1>1, <1>2, <1>3, KeepsFirst DEF LayersAt
  <2>2. QED
    BY <1>1, <1>2, <1>3, <2>1 DEF LayersAt, OnCourse, Writing, t
<1>4. CASE on[p] = t
  <2>1. at[p] = "doubt"
    BY <1>1, <1>2, <1>4 DEF OnCourse
  <2>2. /\ sha' = [sha EXCEPT ![p] = daemon[on[p]]]
        /\ daemon[on[p]] # 0 /\ Keep(on[p], sha[p])
    BY <1>2, <1>4, <2>1, RegisterAnswers
  <2>3. daemon[t] = 1
    BY <1>2, <1>4, <2>2 DEF LayersAt
  <2>4. sha'[p] = 1 /\ daemon'[t] = 1
    BY <1>2, <1>4, <2>2, <2>3 DEF Keep, Default, TypeOK
  <2>5. QED
    BY <1>1, <1>2, <2>4 DEF LayersAt, OnCourse, Writing, t
<1>5. QED
  BY <1>3, <1>4

LEMMA MakeRefOwn ==
  ASSUME TypeOK, OwnTree, NEW p \in Proc, MakeRef(p)
  PROVE  OwnTree'
<1> DEFINE t == first.ws
<1>1. /\ UNCHANGED <<git, first, cache, daemon, data, on, sha>> /\ at[p] = "mkref"
      /\ at'[p] = "read" /\ on[p] \in Tree
      /\ ref' = [ref EXCEPT ![on[p]] = Default(@, 0, sha[p])] \/ UNCHANGED ref
  BY LookupFrame DEF Lookup, MakeRef, Goto, TypeOK
<1>2. SUFFICES ASSUME t \in Tree, ~crossed, ~crossed', t \notin moved' \union missed',
                      LayersAt(t), OnCourse(p, t)
               PROVE  LayersAt(t)' /\ OnCourse(p, t)'
  BY LookupOwn DEF Lookup
<1> HIDE DEF t
<1>3. on[p] = t => sha[p] = 1
  BY <1>1, <1>2 DEF OnCourse
<1>4. ref'[t] \in {0, 1}
  BY <1>1, <1>2, <1>3 DEF LayersAt, Default, TypeOK
<1>5. OnCourse(p, t)'
  BY <1>1, <1>2, <1>3 DEF OnCourse, Writing, t
<1>6. QED
  BY <1>1, <1>2, <1>4, <1>5 DEF LayersAt, t

LEMMA ReadCacheOwn ==
  ASSUME TypeOK, OwnTree, NEW p \in Proc, ReadCache(p)
  PROVE  OwnTree'
<1> DEFINE t == first.ws
<1>1. /\ UNCHANGED <<git, first, cache, ref, daemon, on, sha>> /\ at[p] = "read"
      /\ at'[p] = "open" /\ on[p] \in Tree
  BY LookupFrame DEF Lookup, ReadCache, Goto, TypeOK, layers, net
<1>2. SUFFICES ASSUME t \in Tree, ~crossed, ~crossed', t \notin moved' \union missed',
                      LayersAt(t), OnCourse(p, t)
               PROVE  LayersAt(t)' /\ OnCourse(p, t)'
  BY LookupOwn DEF Lookup
<1>3. data'[p].ws = on[p] /\ data'[p].sha = sha[p]
  <2>1. Readable \in Records
    BY ReadableIsRecord DEF TypeOK
  <2>2. QED
    BY <2>1 DEF ReadCache, Records, TypeOK
<1> HIDE DEF t
<1>4. QED
  BY <1>1, <1>2, <1>3 DEF LayersAt, OnCourse, Writing, t

\* A hook of another tree that opens the file moves it from the session's.
LEMMA OpenOwn ==
  ASSUME TypeOK, RecordInv, OwnTree, NEW p \in Proc, Open(p)
  PROVE  OwnTree'
<1> DEFINE t == first.ws
<1>1. /\ UNCHANGED <<git, first, crossed, ref, daemon, data, on, sha>> /\ at[p] = "open"
      /\ at'[p] = "put" /\ cache' = Torn
      /\ moved' = moved \union ({Readable.ws} \ {"none", on[p]})
  BY LookupFrame DEF Lookup, Open, Goto, TypeOK, net
<1>2. SUFFICES ASSUME t \in Tree, ~crossed, ~crossed', t \notin moved' \union missed',
                      LayersAt(t), OnCourse(p, t)
               PROVE  LayersAt(t)' /\ OnCourse(p, t)'
  BY LookupOwn DEF Lookup
<1> HIDE DEF t
<1>3. cache # Torn
  BY <1>1, <1>2 DEF RecordInv, Writing
<1>4. Readable.ws = t /\ t # "none"
  BY <1>2, <1>3, BaselineAssumption DEF LayersAt, Readable
<1>5. on[p] = t
  BY <1>1, <1>2, <1>4
<1>6. QED
  BY <1>1, <1>2, <1>5 DEF LayersAt, OnCourse, Writing, t

\* What is written is of the tree of the session, and its first commit.
LEMMA PutOwn ==
  ASSUME TypeOK, RecordInv, OwnTree, NEW p \in Proc, Put(p)
  PROVE  OwnTree'
<1> DEFINE t == first.ws
<1>1. /\ UNCHANGED <<git, first, crossed, ref, daemon>> /\ at[p] = "put"
      /\ cache' \in {data[p]} \union (IF cache = Torn THEN {} ELSE {Torn})
      /\ Return(p, sha[p])
  BY LookupFrame DEF Lookup, Put, net, history
<1>2. SUFFICES ASSUME t \in Tree, ~crossed, ~crossed', t \notin moved' \union missed',
                      LayersAt(t), OnCourse(p, t)
               PROVE  LayersAt(t)' /\ OnCourse(p, t)'
  BY LookupOwn DEF Lookup
<1> HIDE DEF t
<1>3. on[p] = t /\ sha[p] = 1 /\ data[p].ws = t /\ data[p].sha = 1
  BY <1>1, <1>2 DEF OnCourse, Writing
<1>4. cache' = data[p]
  BY <1>1, <1>2 DEF RecordInv
<1>5. at'[p] \in {"compare", "idle"} /\ (p = Stop => sha'[p] = 1)
  BY <1>1, <1>3, ReturnsTo
<1>6. QED
  BY <1>1, <1>2, <1>3, <1>4, <1>5 DEF LayersAt, OnCourse, Writing, t

\* A hook that dies while it looks for the baseline.
LEMMA DieOwn ==
  ASSUME TypeOK, OwnTree, NEW p \in Proc, Die(p)
  PROVE  OwnTree'
<1> DEFINE t == first.ws
<1>1. /\ UNCHANGED <<git, first, cache, ref, daemon>> /\ at'[p] = "idle" /\ on'[p] = "none"
  BY LookupFrame DEF Lookup, Die, End, Goto, TypeOK
<1>2. SUFFICES ASSUME t \in Tree, LayersAt(t)
               PROVE  LayersAt(t)' /\ OnCourse(p, t)'
  BY LookupOwn DEF Lookup
<1> HIDE DEF t
<1>3. QED
  BY <1>1, <1>2, BaselineAssumption DEF LayersAt, OnCourse, Writing, t

\* The stop's own lookup, up to where it compares.
LEMMA LookupStop ==
  ASSUME TypeOK, StopInv, Lookup(Stop)
  PROVE  StopInv'
<1>1. Stop \in Proc
  BY DEF Proc
<1>2. /\ at[Stop] \in Looking
      /\ UNCHANGED <<now, commits, head, git, flagged, start, first, seen>>
      /\ crossed => crossed'
      /\ on'[Stop] = on[Stop] /\ at'[Stop] # "answer"
  <2>1. at[Stop] \in Looking
    BY BaselineAssumption
       DEF Lookup, Find, Register, MakeRef, ReadCache, Open, Put, Die, Looking
  <2>2. QED
    BY <1>1, <2>1, LookupFrame, LookupMoves
<1>3. DirtySeen'
  BY <1>2 DEF StopInv, DirtySeen, Unseen, Dirty, Clean
<1>4. EditSeen'
  BY <1>2 DEF EditSeen
<1>5. QED
  BY <1>3, <1>4 DEF StopInv

LEMMA LookupSession ==
  ASSUME TypeOK, RecordInv, StartInv, StopInv, NEW p \in Proc, Lookup(p)
  PROVE  StartInv' /\ StopInv'
<1>1. at[p] # "idle" /\ first.ws # "none" /\ UNCHANGED <<first, start>>
  BY LookupFrame DEF RecordInv
<1>2. OwnTree'
  BY FindOwn, RegisterOwn, MakeRefOwn, ReadCacheOwn, OpenOwn, PutOwn, DieOwn
     DEF Lookup, StartInv
<1>3. StopInv'
  <2>1. CASE p = Stop
    BY <2>1, LookupStop
  <2>2. CASE p # Stop
    <3>1. at[Stop] = "idle" /\ Stop \in Proc \ {p}
      BY <1>1, <2>2, StopOrHook DEF Proc
    <3>2. at'[Stop] = "idle"
      BY <3>1, LookupMoves
    <3>3. QED
      BY <3>2, StopElsewhere
  <2>3. QED
    BY <2>1, <2>2
<1>4. QED
  BY <1>1, <1>2, <1>3, StartedKeeps DEF StartInv

LEMMA StopBeginsSession ==
  ASSUME TypeOK, RecordInv, StartInv, NEW t \in Tree, StopBegins(t)
  PROVE  StartInv' /\ StopInv'
<1>1. /\ first.ws # "none" /\ \A p \in Proc : at[p] = "idle"
      /\ UNCHANGED <<now, commits, head, git, flagged, start, cache, ref, daemon, data, first, moved,
                     missed, crossed>>
      /\ at' = [at EXCEPT ![Stop] = IF git[t] THEN "find" ELSE "compare"]
      /\ on' = [on EXCEPT ![Stop] = t] /\ sha' = [sha EXCEPT ![Stop] = 0]
      /\ seen' = (Dirty(t) /\ ~Excluded(t))
  BY DEF StopBegins, Goto, agent, layers, net, history
<1>2. Stop \in Proc
  BY DEF Proc
<1>3. at'[Stop] = (IF git[t] THEN "find" ELSE "compare") /\ on'[Stop] = t
  BY <1>1, <1>2 DEF TypeOK
<1>4. ASSUME NEW u \in Tree, LayersAt(u), \A p \in Proc : OnCourse(p, u)
      PROVE  LayersAt(u)' /\ \A p \in Proc : OnCourse(p, u)'
  <2>1. OnCourse(Stop, u)'
    BY <1>1, <1>3 DEF OnCourse, Writing
  <2>2. ASSUME NEW p \in Proc, p # Stop
        PROVE  OnCourse(p, u)'
    <3>1. at'[p] = at[p] /\ on'[p] = on[p] /\ sha'[p] = sha[p]
      BY <1>1, <2>2 DEF TypeOK
    <3>2. QED
      BY <1>1, <1>4, <3>1, StaysOnCourse
  <2>3. QED
    BY <1>1, <1>4, <2>1, <2>2 DEF LayersAt
<1>5. OwnTree'
  BY <1>1, <1>4, OwnKeeps DEF StartInv
<1>7. DirtySeen'
  <2> SUFFICES ASSUME Unseen(t)', Dirty(t)
               PROVE  FALSE
    BY <1>1, <1>3 DEF DirtySeen, Dirty, Clean
  <2>1. Excluded(t) /\ now[t] # start[t] /\ ~crossed /\ first.hashes[t] # Unrecorded
    BY <1>1 DEF Unseen
  <2>2. Readable.hashes[t] = first.hashes[t]
    BY <1>1, <2>1, CacheHasRecord
  <2>3. first.hashes[t] = now[t]
    BY <2>1, <2>2 DEF Excluded
  <2>4. first.hashes[t] = Unlisted
    BY <2>1, <2>3 DEF StartInv, HashesOfStart
  <2>5. now[t] \in Int /\ now[t] >= 0
    BY BaselineAssumption DEF TypeOK, Contents
  <2>6. QED
    BY <2>3, <2>4, <2>5 DEF Unlisted
<1>8. EditSeen'
  BY <1>3 DEF EditSeen
<1>9. QED
  BY <1>1, <1>5, <1>7, <1>8, StartedKeeps DEF StartInv, StopInv

\* What the stop has not seen has the content of the baseline.
LEMMA CompareSession ==
  ASSUME TypeOK, RecordInv, StartInv, StopInv, Compare
  PROVE  StartInv' /\ StopInv'
<1> DEFINE t == on[Stop]
           n == sha[Stop]
<1>1. /\ at[Stop] = "compare" /\ at' = [at EXCEPT ![Stop] = "answer"]
      /\ UNCHANGED <<now, commits, head, git, flagged, start, cache, ref, daemon, data, first, moved,
                     missed, crossed, on, sha>>
  BY DEF Compare, Goto, agent, layers, net, history
<1>2. seen' = (seen \/ (n # 0 /\ commits[n] # commits[head[t]]) \/ FlagSees(t) \/ WalkSees(t))
  BY DEF Compare
<1>3. Stop \in Proc /\ t \in Tree
  BY <1>1 DEF Proc, TypeOK
<1>4. at'[Stop] = "answer"
  BY <1>1, <1>3 DEF TypeOK
<1>5. first.ws # "none"
  BY <1>1, <1>3 DEF RecordInv
<1>6. OwnTree'
  <2>1. ASSUME NEW u \in Tree, LayersAt(u), \A p \in Proc : OnCourse(p, u)
        PROVE  LayersAt(u)' /\ \A p \in Proc : OnCourse(p, u)'
    <3>1. OnCourse(Stop, u)'
      BY <1>1, <1>3, <1>4, <2>1 DEF OnCourse, Writing
    <3>2. ASSUME NEW p \in Proc, p # Stop
          PROVE  OnCourse(p, u)'
      <4>1. at'[p] = at[p]
        BY <1>1, <3>2 DEF TypeOK
      <4>2. QED
        BY <1>1, <2>1, <4>1, StaysOnCourse
    <3>3. QED
      BY <1>1, <2>1, <3>1, <3>2 DEF LayersAt
  <2>2. QED
    BY <1>1, <2>1, OwnKeeps DEF StartInv
<1>8. DirtySeen'
  BY <1>4 DEF DirtySeen, Looking
<1>9. EditSeen'
  <2> SUFFICES ASSUME ~seen', now[t] # start[t], ~crossed, first.hashes[t] # Unrecorded,
                      ~(git[t] /\ n # 1)
               PROVE  now[t] = commits[1]
    BY <1>1 DEF EditSeen
  <2>1. Unseen(t) /\ ~FlagSees(t) /\ ~WalkSees(t) /\ (n # 0 => commits[n] = commits[head[t]])
    BY <1>2 DEF Unseen
  <2>2. git[t]
    <3> SUFFICES ASSUME ~git[t] PROVE FALSE
      OBVIOUS
    <3>1. \A p \in Proc : at[p] # "put"
      BY <1>1 DEF TypeOK, Proc
    <3>2. Readable.hashes[t] = first.hashes[t]
      BY <1>5, <3>1, CacheHasRecord
    <3>3. QED
      BY <2>1, <3>2 DEF WalkSees
  <2>3. ~Dirty(t) /\ n = 1
    BY <1>1, <2>1, <2>2 DEF StopInv, DirtySeen
  <2>4. Clean(t)
    BY <2>1, <2>2, <2>3 DEF Dirty, FlagSees
  <2>5. QED
    BY <2>1, <2>3, <2>4 DEF Clean
<1>10. QED
  BY <1>1, <1>5, <1>6, <1>8, <1>9, StartedKeeps DEF StartInv, StopInv

LEMMA StopEndsSession ==
  ASSUME TypeOK, RecordInv, StartInv, StopFails \/ StopAnswers
  PROVE  StartInv' /\ StopInv'
<1>1. /\ at[Stop] # "idle" /\ at' = [at EXCEPT ![Stop] = "idle"]
      /\ on' = [on EXCEPT ![Stop] = "none"] /\ sha' = [sha EXCEPT ![Stop] = 0]
      /\ data' = [data EXCEPT ![Stop] = Blank]
      /\ UNCHANGED <<now, commits, head, git, flagged, start, cache, ref, daemon, first, moved,
                     missed, crossed>>
  BY DEF StopFails, StopAnswers, End, Goto, agent, layers, net, history
<1>2. Stop \in Proc /\ at'[Stop] = "idle" /\ first.ws # "none"
  BY <1>1 DEF Proc, TypeOK, RecordInv
<1>3. ASSUME NEW u \in Tree, LayersAt(u), \A p \in Proc : OnCourse(p, u)
      PROVE  LayersAt(u)' /\ \A p \in Proc : OnCourse(p, u)'
  <2>1. OnCourse(Stop, u)'
    BY <1>2 DEF OnCourse, Writing
  <2>2. ASSUME NEW p \in Proc, p # Stop
        PROVE  OnCourse(p, u)'
    <3>1. at'[p] = at[p] /\ on'[p] = on[p] /\ sha'[p] = sha[p] /\ data'[p] = data[p]
      BY <1>1, <2>2 DEF TypeOK
    <3>2. QED
      BY <1>1, <1>3, <3>1, StaysOnCourse
  <2>3. QED
    BY <1>1, <1>3, <2>1, <2>2 DEF LayersAt
<1>4. OwnTree'
  BY <1>1, <1>3, OwnKeeps DEF StartInv
<1>5. QED
  BY <1>1, <1>2, <1>4, StartedKeeps, StopElsewhere DEF StartInv

LEMMA StutterSession ==
  ASSUME StartInv, StopInv, UNCHANGED vars
  PROVE  StartInv' /\ StopInv'
<1>1. UNCHANGED <<now, commits, head, git, flagged, start, cache, ref, daemon, at, on, sha, data,
                  seen, first, moved, missed, crossed>>
  BY DEF vars, agent, layers, net, process, history
<1>2. OwnTree'
  <2>1. ASSUME NEW u \in Tree, LayersAt(u), \A p \in Proc : OnCourse(p, u)
        PROVE  LayersAt(u)' /\ \A p \in Proc : OnCourse(p, u)'
    BY <1>1, <2>1, StaysOnCourse DEF LayersAt
  <2>2. QED
    BY <1>1, <2>1, OwnKeeps DEF StartInv
<1>3. StartInv'
  BY <1>1, <1>2 DEF StartInv, AtFirst, HashesOfStart
<1>4. EditSeen'
  BY <1>1 DEF StopInv, EditSeen
<1>5. DirtySeen'
  BY <1>1 DEF StopInv, DirtySeen, Unseen, Dirty, Clean
<1>6. QED
  BY <1>3, <1>4, <1>5 DEF StopInv

LEMMA NextSession ==
  ASSUME TypeOK, RecordInv, StartInv, StopInv, [Next]_vars
  PROVE  StartInv' /\ StopInv'
<1>1. CASE UNCHANGED vars
  BY <1>1, StutterSession
<1>2. ASSUME NEW t \in Tree, Edit(t) \/ Undo(t) \/ Commit(t) \/ Flag(t) \/ LoseGit(t)
      PROVE  StartInv' /\ StopInv'
  BY <1>2, AgentSession
<1>3. ASSUME NEW t \in Tree, StopBegins(t)
      PROVE  StartInv' /\ StopInv'
  BY <1>3, StopBeginsSession
<1>4. ASSUME NEW t \in Tree, NEW p \in Hook, HookStarts(p, t)
      PROVE  StartInv' /\ StopInv'
  BY <1>4, HookStartsSession
<1>5. ASSUME NEW ws \in Tree \union {"above"}, SessionStart(ws)
      PROVE  StartInv' /\ StopInv'
  BY <1>5, SessionStartSession
<1>6. ASSUME NEW p \in Proc, Lookup(p)
      PROVE  StartInv' /\ StopInv'
  BY <1>6, LookupSession
<1>7. CASE Compare
  BY <1>7, CompareSession
<1>8. CASE StopFails \/ StopAnswers
  BY <1>8, StopEndsSession
<1>9. QED
  BY <1>1, <1>2, <1>3, <1>4, <1>5, <1>6, <1>7, <1>8 DEF Next

\* Whatever the agent commits, the stop in the tree where the session began
\* compares with the commit it began at: get_or_set_session_baseline finds what
\* SessionStart wrote, or after a failing git what the daemon was told of it, while
\* no hook of another tree has taken the file over.
THEOREM StopsCompareWithStart == Spec => []BaselineAtStart
<1>1. Init => TypeOK /\ RecordInv /\ StartInv /\ StopInv
  BY InitType, InitRecord, InitSession
<1>2. TypeOK /\ RecordInv /\ StartInv /\ StopInv /\ [Next]_vars
        => (TypeOK /\ RecordInv /\ StartInv /\ StopInv)'
  BY NextType, NextRecord, NextSession
<1>3. TypeOK /\ RecordInv /\ StartInv /\ StopInv => BaselineAtStart
  BY DEF TypeOK, StartInv, OwnTree, OnCourse, BaselineAtStart, Proc
<1>4. QED
  BY <1>1, <1>2, <1>3, PTL DEF Spec

\* An edit of a tree that SessionStart recorded is seen by the stop, through
\* commits, index flags and a missing .git: the union of what git status,
\* git diff, the flagged files and the walk of the tree show leaves nothing out
\* but a file that is again as in the baseline.
THEOREM EditsAreSeen == Spec => []EditSeen
<1>1. Init => TypeOK /\ RecordInv /\ StartInv /\ StopInv
  BY InitType, InitRecord, InitSession
<1>2. TypeOK /\ RecordInv /\ StartInv /\ StopInv /\ [Next]_vars
        => (TypeOK /\ RecordInv /\ StartInv /\ StopInv)'
  BY NextType, NextRecord, NextSession
<1>3. TypeOK /\ RecordInv /\ StartInv /\ StopInv => EditSeen
  BY DEF StopInv
<1>4. QED
  BY <1>1, <1>2, <1>3, PTL DEF Spec
=============================================================================
