------------------------------ MODULE Baseline ------------------------------
(***************************************************************************)
(* What the stop gate takes for changed in a session                       *)
(* (client/hardtruth_hook.py): SessionStart records the content of the     *)
(* files that are already modified; the hook after a tool fixes the        *)
(* baseline commit of its working tree, in a git ref, a cache file of the  *)
(* conversation and the daemon; the stop compares the tree with both.      *)
(* Hooks of parallel tools run in parallel, may be in different trees, and *)
(* read, empty and write the cache file without a lock.                    *)
(*                                                                         *)
(* A tree stands for one source file of it, with the same relative path in *)
(* every tree; its content is a number.  Trees are linked worktrees of one *)
(* repository, which share its commits and refs.                           *)
(***************************************************************************)
EXTENDS Integers, Sequences

CONSTANTS
  Tree,        \* working trees
  Hook,        \* processes of hooks that run after a tool
  MaxMoves,    \* bound on the agent's steps and hooks
  MaxFaults    \* bound on calls that fail and processes that die

Stop == "stop"
Proc == Hook \union {Stop}

ASSUME BaselineAssumption ==
  /\ Stop \notin Hook /\ "none" \notin Tree
  /\ MaxMoves \in Nat /\ MaxFaults \in Nat

VARIABLES
  moves,       \* steps of the agent, and hooks started
  now,         \* now[t]: content of t
  commits,     \* the content of each commit
  head,        \* head[t]: the commit checked out in t
  git,         \* git[t]: is .git there?
  flagged,     \* flagged[t]: assume-unchanged or skip-worktree
  cache,       \* cache file of the conversation, Torn while it is not JSON
  ref,         \* ref[t]: git ref of the conversation and tree, 0 for none
  daemon,      \* daemon[t]: the baseline the daemon has recorded, 0 for none
  online,      \* is there a daemon?
  faults,      \* calls that failed and processes that died
  at, on,      \* at[p]: where a hook or the stop is; on[p]: its tree
  sha, data,   \* sha[p]: the baseline it has found; data[p]: what it will write
  seen,        \* has the stop found a change?
  start,       \* history: content of each tree when the session began
  first,       \* history: what SessionStart recorded first, and its directory
  moved,       \* history: trees the cache was of, before it was of another
  missed,      \* history: trees of which git did not confirm the cache's baseline,
               \* when the daemon could not say what it was either
  crossed      \* history: did a hook read the cache while another was to write it?

agent == <<moves, now, commits, head, git, flagged, start>>
net == <<online, daemon, faults>>
layers == <<cache, ref, net>>
process == <<at, on, sha, data>>
history == <<first, moved, missed, crossed>>
vars == <<agent, layers, process, seen, history>>

\* In place of a content: the tree is not recorded; the file is not listed.
Unrecorded == -2
Unlisted == -1

NoHashes == [t \in Tree |-> Unrecorded]
Blank == [started |-> FALSE, hashes |-> NoHashes, sha |-> 0, ws |-> "none", dirty |-> "unknown"]
Torn == [Blank EXCEPT !.ws = "torn"]

Readable == IF cache = Torn THEN Blank ELSE cache

Init ==
  /\ now \in [Tree -> {0, 1}] /\ moves = 0
  /\ commits = <<0>> /\ head = [t \in Tree |-> 1]
  /\ git = [t \in Tree |-> TRUE] /\ flagged = [t \in Tree |-> FALSE]
  /\ cache = Blank
  /\ ref = [t \in Tree |-> 0] /\ daemon = [t \in Tree |-> 0]
  /\ online \in BOOLEAN /\ faults = 0
  /\ at = [p \in Proc |-> "idle"] /\ on = [p \in Proc |-> "none"]
  /\ sha = [p \in Proc |-> 0] /\ data = [p \in Proc |-> Blank]
  /\ seen = FALSE
  /\ start = now
  /\ first = [hashes |-> NoHashes, ws |-> "none"] /\ moved = {} /\ missed = {} /\ crossed = FALSE
-----------------------------------------------------------------------------
(* The agent *)

Clean(t) == now[t] = commits[head[t]]

Moving ==
  /\ first.ws # "none" /\ at[Stop] = "idle" /\ moves < MaxMoves
  /\ moves' = moves + 1
  /\ UNCHANGED <<start, seen, history>>

Working == Moving /\ UNCHANGED process

Edit(t) ==
  /\ Working
  /\ now' = [now EXCEPT ![t] = moves + 2]
  /\ UNCHANGED <<commits, head, git, flagged, layers>>

Undo(t) ==
  /\ Working /\ git[t] /\ ~flagged[t]
  /\ now' = [now EXCEPT ![t] = commits[head[t]]]
  /\ UNCHANGED <<commits, head, git, flagged, layers>>

Commit(t) ==
  /\ Working /\ git[t] /\ ~flagged[t] /\ ~Clean(t)
  /\ commits' = Append(commits, now[t])
  /\ head' = [head EXCEPT ![t] = Len(commits) + 1]
  /\ UNCHANGED <<now, git, flagged, layers>>

Flag(t) ==
  /\ Working /\ git[t]
  /\ flagged' = [flagged EXCEPT ![t] = TRUE]
  /\ UNCHANGED <<now, commits, head, git, layers>>

LoseGit(t) ==
  /\ Working /\ git[t]
  /\ git' = [git EXCEPT ![t] = FALSE]
  /\ UNCHANGED <<now, commits, head, flagged, layers>>
-----------------------------------------------------------------------------
(* SessionStart *)

\* get_dirty_files: git status does not look at a flagged file.
Dirty(t) == git[t] /\ ~Clean(t) /\ ~flagged[t]

\* Mutant: null is written when nothing is modified.
DirtyPathNull(t) == IF Dirty(t) THEN "dirty" ELSE "null"

DirtyPath(t) == IF Dirty(t) THEN "dirty" ELSE "clean"

\* The content of a modified file; a clean one is not listed.
Hash(t) == IF Dirty(t) THEN now[t] ELSE Unlisted

\* Keeps what there is, as setdefault does.
Default(old, none, new) == IF old = none THEN new ELSE old

\* It covers the directory of the session, or the trees directly under it.
StartRecord(old, ws) ==
  LET own == ws \in Tree /\ git[ws]
  IN  [started |-> TRUE,
       hashes  |-> [t \in Tree |-> IF git[t] /\ ws \in {t, "above"} THEN Hash(t) ELSE Unrecorded],
       ws      |-> Default(old.ws, "none", ws),
       sha     |-> Default(old.sha, 0, IF own THEN head[ws] ELSE 0),
       dirty   |-> Default(old.dirty, "unknown", IF own THEN DirtyPath(ws) ELSE "clean")]

\* Mutant: a resumed session is recorded again.
SessionStartAgain(ws) ==
  /\ \A p \in Proc : at[p] = "idle"
  /\ cache' = StartRecord(Readable, ws)
  /\ first' = IF first.ws # "none" THEN first ELSE [hashes |-> cache'.hashes, ws |-> ws]
  /\ UNCHANGED <<agent, ref, net, process, seen, moved, missed, crossed>>

\* The harness runs it before anything else and waits for it, and runs it again
\* when the session is resumed or compacted.
SessionStart(ws) ==
  /\ \A p \in Proc : at[p] = "idle"
  /\ ~Readable.started
  /\ cache' = StartRecord(Readable, ws)
  /\ first' = IF first.ws # "none" THEN first ELSE [hashes |-> cache'.hashes, ws |-> ws]
  /\ UNCHANGED <<agent, ref, net, process, seen, moved, missed, crossed>>
-----------------------------------------------------------------------------
(* get_or_set_session_baseline, of a hook and of the stop *)

Goto(p, place) == at' = [at EXCEPT ![p] = place]

\* A hook does not use what it finds.
Return(p, n) ==
  /\ Goto(p, IF p = Stop THEN "compare" ELSE "idle")
  /\ sha' = [sha EXCEPT ![p] = IF p = Stop THEN n ELSE 0]
  /\ on' = [on EXCEPT ![p] = IF p = Stop THEN @ ELSE "none"]

End(p) ==
  /\ Goto(p, "idle")
  /\ sha' = [sha EXCEPT ![p] = 0]
  /\ on' = [on EXCEPT ![p] = "none"]
  /\ data' = [data EXCEPT ![p] = Blank]

Others(p) == \E q \in Proc \ {p} : at[q] \in {"open", "put"}

HookStarts(p, t) ==
  /\ Moving /\ at[p] = "idle" /\ git[t]
  /\ Goto(p, "find")
  /\ on' = [on EXCEPT ![p] = t]
  /\ UNCHANGED <<now, commits, head, git, flagged, layers, sha, data>>

Fault == faults < MaxFaults /\ faults' = faults + 1

\* The daemon keeps the first one.
Keep(t, n) == daemon' = [daemon EXCEPT ![t] = Default(@, 0, n)]

\* A slow or failing moment: each call has one or two seconds, and several of
\* one lookup may run into it.
Failing(bad) == IF bad = {} THEN UNCHANGED faults ELSE Fault

Calls == {"ref", "cache", "head", "daemon"}

Told(bad) == online /\ "daemon" \notin bad

Tell(t, n, bad) ==
  /\ UNCHANGED online
  /\ IF Told(bad) THEN Keep(t, n) ELSE UNCHANGED daemon

\* Mutant: the cache file is not looked at.
CacheShaUnread(t) == 0

\* The cache file counts for the tree it is of.
CacheSha(t) == IF Readable.ws = t THEN Readable.sha ELSE 0

\* rev-parse of the ref, and cat-file of the commit it names.
RefAnswers(t, bad) == ref[t] # 0 /\ "ref" \notin bad

\* cat-file of the commit the cache file names.
CacheAnswers(t, bad) == CacheSha(t) # 0 /\ "cache" \notin bad

Unconfirmed(t) == missed' = missed \union {t}

\* The fourth layer: no baseline without HEAD.
FindHead(p, t, bad) ==
  IF "head" \in bad
  THEN /\ Return(p, 0)
       /\ IF CacheSha(t) = 0 THEN UNCHANGED missed ELSE Unconfirmed(t)
  ELSE /\ Goto(p, IF CacheSha(t) = 0 THEN "register" ELSE "doubt")
       /\ sha' = [sha EXCEPT ![p] = head[t]]
       /\ UNCHANGED <<on, missed>>

\* Layer by layer: the daemon is asked with a body that it refuses, then the
\* ref, the cache file, and HEAD; a layer whose git call fails is passed over.
Find(p) ==
  /\ at[p] = "find"
  /\ \E bad \in SUBSET Calls :
       /\ Failing(bad)
       /\ LET t == on[p]
          IN  IF ~git[t] THEN Return(p, 0) /\ UNCHANGED <<online, daemon, missed>>
              ELSE IF RefAnswers(t, bad)
              THEN /\ Goto(p, "read") /\ sha' = [sha EXCEPT ![p] = ref[t]]
                   /\ Tell(t, ref[t], bad) /\ UNCHANGED <<on, missed>>
              ELSE IF CacheAnswers(t, bad)
              THEN Return(p, CacheSha(t)) /\ Tell(t, CacheSha(t), bad) /\ UNCHANGED missed
              ELSE FindHead(p, t, bad) /\ UNCHANGED <<online, daemon>>
  /\ crossed' = (crossed \/ Others(p))
  /\ UNCHANGED <<agent, cache, ref, data, seen, first, moved>>

\* The daemon answers with what it has; the call may fail, or the answer be late.
Register(p) ==
  /\ at[p] \in {"register", "doubt"}
  /\ \E bad \in SUBSET {"daemon", "answer"} :
       LET known == IF Told(bad) /\ "answer" \notin bad THEN daemon[on[p]] ELSE 0
       IN  /\ Failing(bad)
           /\ Tell(on[p], sha[p], bad)
           /\ sha' = [sha EXCEPT ![p] = IF known = 0 THEN @ ELSE known]
           /\ IF at[p] = "doubt" /\ known = 0 THEN Unconfirmed(on[p]) ELSE UNCHANGED missed
  /\ Goto(p, "mkref")
  /\ UNCHANGED <<agent, cache, ref, on, data, seen, first, moved, crossed>>

\* update-ref only creates, and may fail.
MakeRef(p) ==
  /\ at[p] = "mkref"
  /\ \/ git[on[p]] /\ ref' = [ref EXCEPT ![on[p]] = Default(@, 0, sha[p])] /\ UNCHANGED faults
     \/ ~git[on[p]] /\ UNCHANGED <<ref, faults>>
     \/ git[on[p]] /\ UNCHANGED ref /\ Fault
  /\ Goto(p, "read")
  /\ UNCHANGED <<agent, cache, online, daemon, on, sha, data, seen, history>>

\* What is not JSON counts as empty.
ReadCache(p) ==
  /\ at[p] = "read"
  /\ data' = [data EXCEPT ![p] =
       [Readable EXCEPT !.sha = sha[p], !.ws = on[p],
                        !.dirty = Default(@, "unknown", DirtyPath(on[p]))]]
  /\ crossed' = (crossed \/ Others(p))
  /\ Goto(p, "open")
  /\ UNCHANGED <<agent, layers, on, sha, seen, first, moved, missed>>

\* Opening for writing empties the file.
Open(p) ==
  /\ at[p] = "open"
  /\ cache' = Torn
  /\ Goto(p, "put")
  /\ moved' = moved \union ({Readable.ws} \ {"none", on[p]})
  /\ UNCHANGED <<agent, ref, net, on, sha, data, seen, first, missed, crossed>>

\* Over what another process wrote meanwhile, a shorter text leaves its end.
Put(p) ==
  /\ at[p] = "put"
  /\ cache' \in {data[p]} \union (IF cache = Torn THEN {} ELSE {Torn})
  /\ data' = [data EXCEPT ![p] = Blank]
  /\ Return(p, sha[p])
  /\ UNCHANGED <<agent, ref, net, seen, history>>

\* A hook is killed; opening a file may also fail.
Die(p) ==
  /\ p \in Hook /\ at[p] # "idle"
  /\ End(p) /\ Fault
  /\ crossed' = (crossed \/ at[p] = "put")
  /\ UNCHANGED <<agent, cache, ref, online, daemon, seen, first, moved, missed>>
-----------------------------------------------------------------------------
(* The stop: get_git_modified_source_files *)

\* Mutant: a path that was modified before the session is never counted.
ExcludedByPath(t) ==
  LET h == Readable.hashes[t]
  IN  IF h # Unrecorded THEN h # Unlisted ELSE Readable.dirty = "dirty"

\* A modified file is left out when it was modified at SessionStart with the
\* same content; without a record of its tree, when its path was modified when
\* the cache file was first written, in whatever tree that was.
Excluded(t) ==
  LET h == Readable.hashes[t]
  IN  IF h # Unrecorded THEN h = now[t] ELSE Readable.dirty = "dirty"

StopBegins(t) ==
  /\ first.ws # "none" /\ \A p \in Proc : at[p] = "idle"
  /\ on' = [on EXCEPT ![Stop] = t]
  /\ sha' = [sha EXCEPT ![Stop] = 0]
  /\ seen' = (Dirty(t) /\ ~Excluded(t))
  /\ Goto(Stop, IF git[t] THEN "find" ELSE "compare")
  /\ UNCHANGED <<agent, layers, data, history>>

\* A flagged file is hashed; the index has it as the last commit has.
FlagSees(t) == git[t] /\ flagged[t] /\ ~Clean(t)

\* Without .git every file counts, or, where there was none when the session
\* started, every file that was changed since.
WalkSees(t) ==
  /\ ~git[t]
  /\ \/ ~Readable.started \/ Readable.hashes[t] # Unrecorded \/ Readable.sha # 0
     \/ now[t] # start[t]

\* Edits that the transcript shows count as well, whatever git says; here every
\* edit is one that it does not show, made from a shell.
Compare ==
  /\ at[Stop] = "compare"
  /\ LET t == on[Stop]
         n == sha[Stop]
     IN  seen' = \/ seen
                 \/ n # 0 /\ commits[n] # commits[head[t]]
                 \/ FlagSees(t)
                 \/ WalkSees(t)
  /\ Goto(Stop, "answer")
  /\ UNCHANGED <<agent, layers, on, sha, data, history>>

\* Any git command that fails or takes too long halts the stop.
StopFails == at[Stop] = "compare" /\ End(Stop) /\ seen' = FALSE
             /\ UNCHANGED <<agent, layers, history>>

StopAnswers == at[Stop] = "answer" /\ End(Stop) /\ seen' = FALSE
               /\ UNCHANGED <<agent, layers, history>>

Lookup(p) ==
  \/ Find(p) \/ Register(p) \/ MakeRef(p)
  \/ ReadCache(p) \/ Open(p) \/ Put(p) \/ Die(p)

Next ==
  \/ \E t \in Tree :
       \/ Edit(t) \/ Undo(t) \/ Commit(t) \/ Flag(t) \/ LoseGit(t)
       \/ StopBegins(t)
       \/ \E p \in Hook : HookStarts(p, t)
  \/ \E ws \in Tree \union {"above"} : SessionStart(ws)
  \/ \E p \in Proc : Lookup(p)
  \/ Compare \/ StopFails \/ StopAnswers

Spec == Init /\ [][Next]_vars
-----------------------------------------------------------------------------
(* Properties *)

Contents == 0 .. MaxMoves + 1

\* What counts as a baseline: none, or a commit.
Baselines == {0} \union DOMAIN commits

Records == [started : BOOLEAN, hashes : [Tree -> {Unrecorded, Unlisted} \union Contents], sha : Baselines,
            ws : Tree \union {"none", "above", "torn"}, dirty : {"unknown", "clean", "dirty"}]

\* Each variable has its values, baselines are commits, and the stop only runs
\* alone.
TypeOK ==
  /\ now \in [Tree -> Contents] /\ moves \in 0 .. MaxMoves
  /\ commits \in Seq(Contents) /\ head \in [Tree -> DOMAIN commits]
  /\ cache \in Records /\ data \in [Proc -> Records]
  /\ {ref, daemon} \subseteq [Tree -> Baselines]
  /\ at \in [Proc -> {"idle", "find", "register", "doubt", "mkref", "read", "open",
                      "put", "compare", "answer"}]
  /\ on \in [Proc -> Tree \union {"none"}]
  /\ sha \in [Proc -> Baselines]
  /\ \A p \in Proc : at[p] # "idle" => on[p] \in Tree
  /\ at[Stop] # "idle" => \A p \in Hook : at[p] = "idle"

\* What SessionStart recorded stays recorded through resumed sessions and hooks
\* in every tree, as long as no hook reads the cache file while another is about
\* to write it or dies in between.
RecordKept ==
  first.ws # "none" /\ ~crossed /\ cache # Torn =>
    cache.started /\ cache.hashes = first.hashes

\* Every stop in the tree where the session began compares with the commit it
\* began at, whatever is committed before the first hook of the tree: until a
\* hook in another tree takes the cache file over, or a lookup in which git fails
\* on the cached baseline does not get it from the daemon either.
BaselineAtStart ==
  at[Stop] = "answer" /\ git[on[Stop]] /\ first.ws = on[Stop] /\ ~crossed =>
    on[Stop] \in moved \union missed \/ sha[Stop] = 1

\* A file whose content changed since the session began is seen by the stop if
\* SessionStart recorded its tree, through commits, index flags and a missing
\* .git, and whatever the file was before: unless the content is the first
\* commit's again, or the stop has a later commit, or none, for the baseline.
EditSeen ==
  LET t == on[Stop]
  IN  at[Stop] = "answer" /\ ~seen /\ now[t] # start[t] /\ ~crossed =>
        \/ first.hashes[t] = Unrecorded
        \/ now[t] = commits[1]
        \/ git[t] /\ sha[Stop] # 1
=============================================================================
