----------------------------- MODULE Environments -----------------------------
(***************************************************************************)
(* Queries of a receiver's environment (env.hpp, queries.hpp), through the *)
(* receivers that the adaptors put between the outermost receiver and the  *)
(* leaf of a pipeline.  A pipeline is connected from the outside in, each  *)
(* adaptor giving its child a receiver with an environment of its own.     *)
(*                                                                         *)
(* There are two of every environment: the one that the child's completion *)
(* signatures are computed with (declared), and the one that the child's   *)
(* receiver has (actual).  They are written apart, and the adaptors do not *)
(* say that they agree.                                                    *)
(*                                                                         *)
(* An environment is a function from queries to answers.  An answer says   *)
(* who gave it: the adaptor, by its place in the pipeline (0 for the       *)
(* outermost receiver), and the part of the environment it put there.  A   *)
(* query that no overload accepts has no answer.  One whose function is    *)
(* accepted but does not compile is IllFormed: no program that asks it     *)
(* exists, and no step here asks it.  A receiver whose get_env does not    *)
(* compile itself is opaque.                                               *)
(*                                                                         *)
(* Left out: programs whose signatures nobody computes (start_detached of  *)
(* a let whose second sender reads the environment).                       *)
(***************************************************************************)
EXTENDS Integers, Sequences, FiniteSets

CONSTANTS
  MaxDepth,   \* bound: the number of adaptors in a pipeline
  Written     \* the environments that a program writes: sequences of sets of queries

Queries == {"get_allocator", "get_stop_token", "get_scheduler", "get_start_scheduler"}

ASSUME MaxDepthAssumption == MaxDepth \in Nat
ASSUME WrittenAssumption == Written \subseteq Seq(SUBSET Queries)

\* The let's stand here for what they give their predecessor.
Forwarding == {"then", "let_value", "sequence", "conditional"}

By(place, part) == [at |-> place, part |-> part]
NoAnswer  == By(-1, 0)
Default   == By(-1, 1)
IllFormed == By(-1, 2)

VARIABLES
  pipeline,   \* the adaptors, the outermost first
  declared,   \* what the signatures of the next sender are computed with
  actual,     \* the environment of the receiver it is connected to
  opaque,     \* whether that receiver's get_env does not compile
  callbacks,  \* callbacks[k]: the answer that when_all at place k got for its stop callback
  leaf,       \* the leaf, its query, what it gets, and what its signatures say
  stopped     \* the stop sources that were asked to stop

vars == <<pipeline, declared, actual, opaque, callbacks, leaf, stopped>>

NoLeaf == [sndr |-> "none", query |-> "none", gets |-> NoAnswer, says |-> NoAnswer]
Depth  == Len(pipeline)
Place  == Depth + 1

-----------------------------------------------------------------------------
(* Environments                                                             *)

\* prop, or any class with query functions for qs.
Prop(qs, answer) == [q \in Queries |-> IF q \in qs THEN answer ELSE NoAnswer]

\* env<>, the environment of a receiver that has none.
NoEnv == Prop({}, NoAnswer)

\* Signatures that are computed with no environment, not even env<>: nothing that
\* asks one has any.
Ungiven == Prop(Queries, IllFormed)

\* _find_pos, from 1; 0 for _npos.
FindPos(flags) ==
  IF \E i \in DOMAIN flags : flags[i]
    THEN CHOOSE i \in DOMAIN flags : flags[i] /\ \A j \in 1..(i - 1) : ~flags[j]
    ELSE 0

\* env<Envs...>: the first that can be queried.
EnvOfAll(envs) ==
  [q \in Queries |->
     LET idx == FindPos([i \in DOMAIN envs |-> envs[i][q] # NoAnswer])
     IN  IF idx = 0 THEN NoAnswer ELSE envs[idx][q]]

\* env<Env0, Env1>, the specialization.
EnvOfTwo(env0, env1) ==
  [q \in Queries |-> IF env0[q] # NoAnswer THEN env0[q] ELSE env1[q]]

\* The environment e of the program, put in at a place.
Parts(e, place) == [i \in DOMAIN e |-> Prop(e[i], By(place, i))]
WrittenEnv(e, place) ==
  IF Len(e) = 2 THEN EnvOfTwo(Parts(e, place)[1], Parts(e, place)[2])
                ELSE EnvOfAll(Parts(e, place))

\* What calling the query object with an environment gives: get_allocator and
\* get_stop_token (never_stop_token) have a default, the others are not callable.
Ask(env, q) ==
  IF env[q] = NoAnswer /\ q \in {"get_allocator", "get_stop_token"} THEN Default ELSE env[q]

-----------------------------------------------------------------------------
(* What the adaptors do to the environment of their receiver                *)

\* _rcvr_with_env_t: whoever would answer, its query returns the environment
\* that would and not that environment's answer.
WithEnv_own(rcvrEnv, e) ==
  [q \in Queries |-> IF e[q] = NoAnswer THEN NoAnswer ELSE IllFormed]
WithEnv(rcvrEnv, e) ==
  [q \in Queries |-> IF EnvOfTwo(e, rcvrEnv)[q] = NoAnswer THEN NoAnswer ELSE IllFormed]

\* The environment of the children of when_all: its own stop token.  For any
\* other query the result is looked for with the environment and the query
\* swapped, and not found.
WhenAllEnv(rcvrEnv) == Prop({"get_stop_token"}, By(Place, 0))

\* The environment of the scheduler in starts_on.
SchEnv == Prop({"get_start_scheduler"}, By(Place, 0))

\* The child's signatures are computed with env<e, Env>..., for every Env there is.
Given(e) == IF declared = Ungiven THEN Ungiven ELSE EnvOfTwo(e, declared)

\* get_env of the receivers that hand on their receiver's.
ForwardedEnv_missing(rcvrEnv) == NoEnv
ForwardedEnv(rcvrEnv) == rcvrEnv

-----------------------------------------------------------------------------
(* Connecting                                                               *)

\* The outermost receiver: sync_wait's has its loop's scheduler, start_detached's
\* has no environment, and a program's own has any.
SyncWaitEnv == Prop({"get_scheduler", "get_start_scheduler"}, By(0, 0))

Init ==
  /\ pipeline = <<>>
  /\ actual \in {SyncWaitEnv, NoEnv} \cup {WrittenEnv(e, 0) : e \in Written}
  /\ declared = actual
  /\ opaque = FALSE
  /\ callbacks = <<>>
  /\ leaf = NoLeaf
  /\ stopped = {}

Connect(adaptor, childDeclared, childActual, callback) ==
  /\ leaf = NoLeaf
  /\ Depth < MaxDepth
  /\ pipeline' = Append(pipeline, adaptor)
  /\ declared' = childDeclared
  /\ actual' = childActual
  /\ callbacks' = Append(callbacks, callback)
  /\ UNCHANGED <<leaf, stopped>>

\* then, the predecessor of let_value and its like, sequence, conditional.
Forward(adaptor) ==
  /\ Connect(adaptor, declared, ForwardedEnv(actual), NoAnswer)
  /\ opaque' = opaque

\* The sender that a let's function returns.
LetSecond ==
  /\ Connect("let_second", Ungiven, ForwardedEnv(actual), NoAnswer)
  /\ opaque' = opaque

\* get_env of its receiver has the type of the receiver's environment, but names a
\* member that does not exist.
ContinuesOn ==
  /\ Connect("continues_on", declared, ForwardedEnv(actual), NoAnswer)
  /\ opaque' = TRUE

\* Only the queries of _rcvr_with_env_t call get_env of its receiver.
WriteEnv(e) ==
  /\ Connect("write_env", Given(WrittenEnv(e, Place)),
             WithEnv(actual, WrittenEnv(e, Place)), NoAnswer)
  /\ opaque' = FALSE

StartsOn ==
  /\ Connect("starts_on", Given(SchEnv), WithEnv(actual, SchEnv), NoAnswer)
  /\ opaque' = FALSE

\* start() registers the stop callback with the receiver's token.
WhenAll ==
  /\ ~opaque
  /\ Ask(actual, "get_stop_token") # IllFormed
  /\ Connect("when_all", Given(Prop({"get_stop_token"}, By(Place, 0))),
             WhenAllEnv(actual), Ask(actual, "get_stop_token"))
  /\ opaque' = FALSE

-----------------------------------------------------------------------------
(* The leaf                                                                 *)

Compiles(answer) == answer \notin {NoAnswer, IllFormed}

Asks(sndr, q) ==
  /\ leaf = NoLeaf
  /\ ~opaque
  /\ Compiles(Ask(actual, q))
  /\ leaf' = [sndr |-> sndr, query |-> q, gets |-> Ask(actual, q), says |-> Ask(declared, q)]
  /\ UNCHANGED <<pipeline, declared, actual, opaque, callbacks, stopped>>

\* read_env: without an answer its completion signatures are invalid, and without an
\* environment it has none.
ReadEnv(q) == Compiles(Ask(declared, q)) /\ Asks("read_env", q)

\* A scheduler's operation, that of continues_on or starts_on at this place as
\* well, looks at the stop token before it completes.  Its signatures do not depend
\* on the environment.
Schedule == Asks("schedule", "get_stop_token")

-----------------------------------------------------------------------------
(* Stop requests                                                            *)

Sources == {k \in 1..Depth : pipeline[k] = "when_all"}
             \cup (IF \E a \in {callbacks[k] : k \in 1..Depth} \cup {leaf.gets} : a.at = 0
                     THEN {0} ELSE {})

\* Whom a request at source s stops: the callback of a when_all that has its token
\* asks that when_all's own source.
Reached(s) ==
  LET reached[k \in 0..Depth] ==
        \/ k = s
        \/ k # 0 /\ pipeline[k] = "when_all" /\ callbacks[k].at >= 0 /\ reached[callbacks[k].at]
  IN  {k \in 0..Depth : reached[k]}

RequestStop(s) ==
  /\ leaf # NoLeaf
  /\ stopped' = stopped \cup Reached(s)
  /\ UNCHANGED <<pipeline, declared, actual, opaque, callbacks, leaf>>

Next ==
  \/ \E adaptor \in Forwarding : Forward(adaptor)
  \/ \E e \in Written : WriteEnv(e)
  \/ LetSecond \/ ContinuesOn \/ StartsOn \/ WhenAll
  \/ \E q \in Queries : ReadEnv(q)
  \/ Schedule
  \/ \E s \in Sources : RequestStop(s)

Spec == Init /\ [][Next]_vars

-----------------------------------------------------------------------------
(* Properties *)

\* A request to stop, to the outermost receiver's source or to that of any
\* when_all on the way, is seen by a leaf that looks at its stop token: the
\* callbacks make a chain from each to the source the leaf looks at.
RequestReachesLeaf ==
  leaf.query = "get_stop_token" /\ stopped # {} => leaf.gets.at \in stopped

\* At every place of a pipeline the two environments agree, on the stop token
\* always and where no when_all is above on every query: an answer that the
\* signatures were computed with is the one that the receiver gives, or asking does
\* not compile; and what is unanswered in one is unanswered in the other, so that
\* no default stands in for an answer.  The second sender of a let has no
\* environment to agree with.
NoWhenAll == \A k \in 1..Depth : pipeline[k] # "when_all"
EnvironmentsAgree ==
  declared # Ungiven =>
    \A q \in Queries : q = "get_stop_token" \/ NoWhenAll =>
      /\ actual[q] \in {declared[q], IllFormed}
      /\ actual[q] = NoAnswer <=> declared[q] = NoAnswer

\* "All other queries are forwarded to the outer receiver's environment." (_env_t
\* of when_all): below when_all too, read_env gets what its signatures say.
QueriesForwarded == leaf.sndr = "read_env" => leaf.gets = leaf.says

=============================================================================
