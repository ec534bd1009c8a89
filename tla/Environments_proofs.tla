------------------------- MODULE Environments_proofs -------------------------
(***************************************************************************)
(* EnvironmentsAgree and RequestReachesLeaf for pipelines of any length    *)
(* and any environments that programs write.                               *)
(*                                                                         *)
(* EnvironmentsAgree is inductive with the type of the pipeline: each      *)
(* adaptor builds both environments of its child from the two it got       *)
(* (ConnectInv).                                                           *)
(*                                                                         *)
(* Chain: the stop token at a place comes from the nearest when_all above  *)
(* it, or without one from the outermost receiver, or from nobody.         *)
(***************************************************************************)
EXTENDS Environments, SequenceTheorems, WellFoundedInduction, TLAPS

AnyAdaptor ==
  Forwarding \cup {"let_second", "continues_on", "write_env", "starts_on", "when_all"}

\* Two answers to the same query, one of which may not compile.
Agree(real, said) ==
  /\ real \in {said, IllFormed}
  /\ real = NoAnswer <=> said = NoAnswer

AgreeOn(q) == Agree(actual[q], declared[q])

Inv ==
  /\ pipeline \in Seq(AnyAdaptor)
  /\ declared # Ungiven =>
       /\ AgreeOn("get_stop_token")
       /\ NoWhenAll => \A q \in Queries : AgreeOn(q)

-----------------------------------------------------------------------------

\* The three that are no answers of an environment differ.
LEMMA Outcomes == NoAnswer # IllFormed /\ NoAnswer # Default /\ Default # IllFormed
<1>1. NoAnswer.part = 0 /\ Default.part = 1 /\ IllFormed.part = 2
  BY DEF NoAnswer, Default, IllFormed, By
<1> QED
  BY <1>1

\* Putting the same environment in front of both keeps them in agreement.
LEMMA WithEnvAgrees ==
  ASSUME NEW real, NEW said, NEW e, NEW q \in Queries, Agree(real[q], said[q])
  PROVE  Agree(WithEnv(real, e)[q], EnvOfTwo(e, said)[q])
<1>1. EnvOfTwo(e, said)[q] = IF e[q] # NoAnswer THEN e[q] ELSE said[q]
  BY DEF EnvOfTwo
<1>2. WithEnv(real, e)[q] = IF (IF e[q] # NoAnswer THEN e[q] ELSE real[q]) = NoAnswer
                              THEN NoAnswer ELSE IllFormed
  BY DEF WithEnv, EnvOfTwo
<1> QED
  BY <1>1, <1>2, Outcomes DEF Agree

\* An adaptor is added at the end of the pipeline.
LEMMA Longer ==
  ASSUME pipeline \in Seq(AnyAdaptor), NEW a \in AnyAdaptor, pipeline' = Append(pipeline, a)
  PROVE  /\ pipeline' \in Seq(AnyAdaptor)
         /\ NoWhenAll' => NoWhenAll /\ a # "when_all"
<1>1. Len(pipeline) \in Nat /\ Len(Append(pipeline, a)) = Len(pipeline) + 1
  OBVIOUS
<1>2. \A k \in 1..Len(pipeline) : Append(pipeline, a)[k] = pipeline[k]
  OBVIOUS
<1>3. Append(pipeline, a)[Len(pipeline) + 1] = a
  OBVIOUS
<1>4. pipeline' \in Seq(AnyAdaptor)
  OBVIOUS
<1> QED
  BY <1>1, <1>2, <1>3, <1>4 DEF NoWhenAll, Depth

\* Connecting: it is enough that the child's two environments agree.
LEMMA ConnectInv ==
  ASSUME Inv, NEW a \in AnyAdaptor, NEW said, NEW real, NEW answer,
         Connect(a, said, real, answer),
         said # Ungiven => Agree(real["get_stop_token"], said["get_stop_token"]),
         said # Ungiven /\ NoWhenAll /\ a # "when_all"
           => \A q \in Queries : Agree(real[q], said[q])
  PROVE  Inv'
<1>1. /\ pipeline' \in Seq(AnyAdaptor)
      /\ NoWhenAll' => NoWhenAll /\ a # "when_all"
  BY Longer DEF Inv, Connect
<1>2. declared' = said /\ actual' = real
  BY DEF Connect
<1>3. Ungiven' = Ungiven
  BY DEF Ungiven, Prop
<1> QED
  BY <1>1, <1>2, <1>3 DEF Inv, AgreeOn

\* Where the child's signatures have an environment, the parent's had one.
LEMMA GivenIs ==
  ASSUME NEW e, Given(e) # Ungiven
  PROVE  declared # Ungiven /\ Given(e) = EnvOfTwo(e, declared)
BY DEF Given

LEMMA NextInv == Inv /\ [Next]_vars => Inv'
<1> SUFFICES ASSUME Inv, [Next]_vars PROVE Inv'
  OBVIOUS
<1> /\ "get_stop_token" \in Queries
    /\ "write_env" \in AnyAdaptor /\ "starts_on" \in AnyAdaptor /\ "when_all" \in AnyAdaptor
    /\ "let_second" \in AnyAdaptor /\ "continues_on" \in AnyAdaptor
  BY DEF Queries, AnyAdaptor
<1>a. ASSUME UNCHANGED <<pipeline, declared, actual>> PROVE Inv'
  BY <1>a DEF Inv, AgreeOn, NoWhenAll, Depth, Ungiven, Prop
<1>1. CASE UNCHANGED vars
  BY <1>1, <1>a DEF vars
<1>2. ASSUME NEW a \in Forwarding, Forward(a) PROVE Inv'
  <2>1. a \in AnyAdaptor /\ Connect(a, declared, actual, NoAnswer)
    BY <1>2 DEF AnyAdaptor, Forward, ForwardedEnv
  <2> QED
    BY <2>1, ConnectInv DEF Inv, AgreeOn
<1>3. CASE ContinuesOn
  <2>1. Connect("continues_on", declared, actual, NoAnswer)
    BY <1>3 DEF ContinuesOn, ForwardedEnv
  <2> QED
    BY <2>1, ConnectInv DEF Inv, AgreeOn
<1>4. CASE LetSecond
  <2>1. Connect("let_second", Ungiven, actual, NoAnswer)
    BY <1>4 DEF LetSecond, ForwardedEnv
  <2> QED
    BY <2>1, ConnectInv
<1>5. ASSUME NEW e \in Written, WriteEnv(e) PROVE Inv'
  <2> DEFINE w == WrittenEnv(e, Place)
  <2>1. Connect("write_env", Given(w), WithEnv(actual, w), NoAnswer)
    BY <1>5 DEF WriteEnv
  <2> HIDE DEF w
  <2>2. \A q \in Queries : AgreeOn(q) => Agree(WithEnv(actual, w)[q], EnvOfTwo(w, declared)[q])
    BY WithEnvAgrees DEF AgreeOn
  <2> QED
    BY <2>1, <2>2, ConnectInv, GivenIs DEF Inv
<1>6. CASE StartsOn
  <2>1. Connect("starts_on", Given(SchEnv), WithEnv(actual, SchEnv), NoAnswer)
    BY <1>6 DEF StartsOn
  <2>2. \A q \in Queries :
          AgreeOn(q) => Agree(WithEnv(actual, SchEnv)[q], EnvOfTwo(SchEnv, declared)[q])
    BY WithEnvAgrees DEF AgreeOn
  <2> QED
    BY <2>1, <2>2, ConnectInv, GivenIs DEF Inv
<1>7. CASE WhenAll
  <2> DEFINE own == Prop({"get_stop_token"}, By(Place, 0))
  <2>1. Connect("when_all", Given(own), own, Ask(actual, "get_stop_token"))
    BY <1>7 DEF WhenAll, WhenAllEnv
  <2>2. own["get_stop_token"] = By(Place, 0)
    BY DEF Prop
  <2>3. By(Place, 0) # NoAnswer
    <3>1. Place # -1
      BY DEF Inv, Place, Depth
    <3> QED
      BY <3>1 DEF By, NoAnswer
  <2>4. EnvOfTwo(own, declared)["get_stop_token"] = By(Place, 0)
    BY <2>2, <2>3 DEF EnvOfTwo
  <2> HIDE DEF own
  <2>5. Given(own) # Ungiven => Agree(own["get_stop_token"], Given(own)["get_stop_token"])
    BY <2>2, <2>3, <2>4, GivenIs DEF Agree
  <2> QED
    BY <2>1, <2>5, ConnectInv
<1>8. ASSUME NEW s, NEW q, Asks(s, q) PROVE Inv'
  BY <1>8, <1>a DEF Asks
<1>9. ASSUME NEW s, RequestStop(s) PROVE Inv'
  BY <1>9, <1>a DEF RequestStop
<1> QED
  BY <1>1, <1>2, <1>3, <1>4, <1>5, <1>6, <1>7, <1>8, <1>9 DEF Next, ReadEnv, Schedule

\* At every place of a pipeline, the environment that the signatures are computed
\* with and the one of the receiver agree, on the stop token always and where no
\* when_all is above on every query: no answer is replaced, and none by a default.
THEOREM AgreeEverywhere == Spec => []EnvironmentsAgree
<1>1. Init => Inv
  <2> SUFFICES ASSUME Init PROVE Inv
    OBVIOUS
  <2>1. pipeline \in Seq(AnyAdaptor)
    BY DEF Init
  <2>2. \A q \in Queries : AgreeOn(q)
    BY DEF Init, AgreeOn, Agree
  <2> QED
    BY <2>1, <2>2 DEF Inv, Queries
<1>2. Inv => EnvironmentsAgree
  BY DEF Inv, EnvironmentsAgree, AgreeOn, Agree
<1> QED
  BY <1>1, <1>2, NextInv, PTL DEF Spec

-----------------------------------------------------------------------------
(* RequestReachesLeaf, for pipelines with any number of when_alls.  Who     *)
(* gives the stop token at a place is the nearest when_all above it, or     *)
(* without one the outermost receiver, or nobody; so the stop callbacks     *)
(* make a chain, and a request anywhere in it reaches its end.              *)

\* Whether a stop token at place k of the pipeline p could come from answer a.
NoneAbove(p, k)  == \A i \in 1..(k - 1) : p[i] # "when_all"
Nearest(p, k, j) ==
  j \in 1..(k - 1) /\ p[j] = "when_all" /\ \A i \in (j + 1)..(k - 1) : p[i] # "when_all"
TokenAt(p, k, a) ==
  /\ NoneAbove(p, k) => a.at \in {-1, 0}
  /\ \A j \in 1..(k - 1) : Nearest(p, k, j) => a.at = j

Token == actual["get_stop_token"]

CallbackAt(k) ==
  IF pipeline[k] = "when_all" THEN TokenAt(pipeline, k, callbacks[k]) ELSE callbacks[k].at = -1

Chain ==
  /\ pipeline \in Seq(AnyAdaptor)
  /\ DOMAIN callbacks = 1..Depth
  /\ Token = IllFormed \/ TokenAt(pipeline, Place, Token)
  /\ \A k \in 1..Depth : CallbackAt(k)
  /\ leaf.query = "get_stop_token" => TokenAt(pipeline, Place, leaf.gets)
  /\ leaf = NoLeaf => stopped = {}
  /\ RequestReachesLeaf

-----------------------------------------------------------------------------
(* Places                                                                   *)

LEMMA LeastNumber ==
  ASSUME NEW T, T \subseteq Nat, T # {}
  PROVE  \E m \in T : \A k \in T : ~(k < m)
<1> DEFINE R == {ss \in Nat \X Nat : ss[1] < ss[2]}
<1>1. IsWellFoundedOn(R, Nat)
  BY NatLessThanWellFounded DEF OpToRel
<1>2. PICK m \in T : \A k \in T : ~(<<k, m>> \in R)
  <2> HIDE DEF R
  <2> QED
    BY <1>1, WFMin
<1> QED
  BY <1>2

\* Above a place there is no when_all, or one is the nearest.
LEMMA NearestExists ==
  ASSUME NEW p, NEW k \in Nat
  PROVE  NoneAbove(p, k) \/ \E j \in 1..(k - 1) : Nearest(p, k, j)
<1> SUFFICES ASSUME ~NoneAbove(p, k) PROVE \E j \in 1..(k - 1) : Nearest(p, k, j)
  OBVIOUS
<1> DEFINE T == {d \in 1..(k - 1) : p[k - d] = "when_all"}
<1>1. PICK i \in 1..(k - 1) : p[i] = "when_all"
  BY DEF NoneAbove
<1>2. k - i \in T
  <2>1. k - i \in 1..(k - 1) /\ k - (k - i) = i
    OBVIOUS
  <2> QED
    BY <1>1, <2>1
<1>3. T \subseteq Nat /\ T # {}
  <2>1. T \subseteq Nat
    OBVIOUS
  <2> HIDE DEF T
  <2> QED
    BY <1>2, <2>1
<1>4. PICK m \in T : \A d \in T : ~(d < m)
  <2> HIDE DEF T
  <2> QED
    BY <1>3, LeastNumber
<1>5. ASSUME NEW n \in (k - m + 1)..(k - 1) PROVE p[n] # "when_all"
  <2>1. k - n \in 1..(k - 1) /\ k - (k - n) = n /\ k - n < m
    OBVIOUS
  <2> QED
    BY <1>4, <2>1
<1>6. k - m \in 1..(k - 1) /\ p[k - m] = "when_all"
  OBVIOUS
<1> QED
  BY <1>5, <1>6 DEF Nearest

\* Tokens are given by a place above.
LEMMA TokenAbove ==
  ASSUME NEW p, NEW k \in Nat, NEW a, TokenAt(p, k, a)
  PROVE  \/ NoneAbove(p, k) /\ a.at \in {-1, 0}
         \/ a.at \in 1..(k - 1) /\ Nearest(p, k, a.at)
BY NearestExists DEF TokenAt

\* What is above a place does not change by adding an adaptor below.
LEMMA SameAbove ==
  ASSUME NEW S, NEW p \in Seq(S), NEW x \in S, NEW k \in 1..(Len(p) + 1), NEW a
  PROVE  TokenAt(Append(p, x), k, a) <=> TokenAt(p, k, a)
<1>1. \A i \in 1..(k - 1) : Append(p, x)[i] = p[i]
  OBVIOUS
<1>2. NoneAbove(Append(p, x), k) <=> NoneAbove(p, k)
  BY <1>1 DEF NoneAbove
<1>3. \A j \in 1..(k - 1) : Nearest(Append(p, x), k, j) <=> Nearest(p, k, j)
  <2> SUFFICES ASSUME NEW j \in 1..(k - 1)
               PROVE  Nearest(Append(p, x), k, j) <=> Nearest(p, k, j)
    OBVIOUS
  <2>1. (j + 1)..(k - 1) \subseteq 1..(k - 1)
    OBVIOUS
  <2> QED
    BY <1>1, <2>1 DEF Nearest
<1> QED
  BY <1>2, <1>3 DEF TokenAt

\* Below an adaptor that is no when_all the token is that above it.
LEMMA Through ==
  ASSUME NEW S, NEW p \in Seq(S), NEW x \in S, x # "when_all", NEW a,
         TokenAt(p, Len(p) + 1, a)
  PROVE  TokenAt(Append(p, x), Len(p) + 2, a)
<1>1. Len(p) \in Nat
  OBVIOUS
<1>2. \A i \in 1..(Len(p) + 1) : Append(p, x)[i] = IF i = Len(p) + 1 THEN x ELSE p[i]
  OBVIOUS
<1>3. NoneAbove(Append(p, x), Len(p) + 2) => NoneAbove(p, Len(p) + 1)
  BY <1>1, <1>2 DEF NoneAbove
<1>4. ASSUME NEW j \in 1..(Len(p) + 1), Nearest(Append(p, x), Len(p) + 2, j)
      PROVE  j \in 1..Len(p) /\ Nearest(p, Len(p) + 1, j)
  <2>1. j # Len(p) + 1
    BY <1>2, <1>4 DEF Nearest
  <2>2. \A i \in (j + 1)..Len(p) : i \in (j + 1)..(Len(p) + 1) /\ i # Len(p) + 1
    BY <1>1
  <2> QED
    BY <1>1, <1>2, <1>4, <2>1, <2>2 DEF Nearest
<1>5. Len(p) + 2 - 1 = Len(p) + 1 /\ Len(p) + 1 - 1 = Len(p)
  BY <1>1
<1> QED
  BY <1>3, <1>4, <1>5 DEF TokenAt

\* Below when_all it is when_all's own.
LEMMA Own ==
  ASSUME NEW S, NEW p \in Seq(S), "when_all" \in S, NEW a, a.at = Len(p) + 1
  PROVE  TokenAt(Append(p, "when_all"), Len(p) + 2, a)
<1>1. Len(p) \in Nat
  OBVIOUS
<1>2. Append(p, "when_all")[Len(p) + 1] = "when_all"
  OBVIOUS
<1>3. ~NoneAbove(Append(p, "when_all"), Len(p) + 2)
  BY <1>1, <1>2 DEF NoneAbove
<1>4. ASSUME NEW j \in 1..(Len(p) + 1), Nearest(Append(p, "when_all"), Len(p) + 2, j)
      PROVE  j = Len(p) + 1
  BY <1>1, <1>2, <1>4 DEF Nearest
<1>5. Len(p) + 2 - 1 = Len(p) + 1
  BY <1>1
<1> QED
  BY <1>3, <1>4, <1>5 DEF TokenAt

-----------------------------------------------------------------------------
(* Connecting and asking                                                    *)

\* The outcomes that are no answers come from nowhere.
LEMMA Nowhere == NoAnswer.at = -1 /\ Default.at = -1 /\ IllFormed.at = -1
BY DEF NoAnswer, Default, IllFormed, By

\* One more adaptor, whose child's token could come from where it should.
LEMMA ConnectChain ==
  ASSUME Chain, NEW x \in AnyAdaptor, NEW said, NEW real, NEW answer,
         Connect(x, said, real, answer),
         \/ real["get_stop_token"] = IllFormed
         \/ TokenAt(Append(pipeline, x), Depth + 2, real["get_stop_token"]),
         IF x = "when_all" THEN TokenAt(pipeline, Place, answer) ELSE answer.at = -1
  PROVE  Chain'
<1>1. /\ leaf = NoLeaf /\ leaf' = leaf /\ stopped' = stopped
      /\ pipeline' = Append(pipeline, x) /\ actual' = real
      /\ callbacks' = Append(callbacks, answer)
  BY DEF Connect
<1>2. pipeline \in Seq(AnyAdaptor) /\ Depth \in Nat /\ Place = Depth + 1
  BY DEF Chain, Depth, Place
<1>3. pipeline' \in Seq(AnyAdaptor) /\ Depth' = Depth + 1 /\ Place' = Depth + 2
  BY <1>1, <1>2 DEF Depth, Place
<1>4. \A k \in 1..(Depth + 1) : pipeline'[k] = IF k = Depth + 1 THEN x ELSE pipeline[k]
  BY <1>1, <1>2 DEF Depth
<1>5. /\ DOMAIN callbacks' = 1..(Depth + 1)
      /\ \A k \in 1..(Depth + 1) : callbacks'[k] = IF k = Depth + 1 THEN answer ELSE callbacks[k]
  <2>1. Len(callbacks) = Depth
    BY <1>2 DEF Chain
  <2> QED
    BY <1>1, <1>2, <2>1
<1>6. ASSUME NEW k \in 1..(Depth + 1) PROVE CallbackAt(k)'
  <2>1. \A a : TokenAt(pipeline', k, a) <=> TokenAt(pipeline, k, a)
    BY <1>1, <1>2, SameAbove DEF Depth
  <2>2. CASE k = Depth + 1
    BY <1>2, <1>4, <1>5, <2>1, <2>2 DEF CallbackAt
  <2>3. CASE k # Depth + 1
    <3>1. k \in 1..Depth
      BY <1>2, <2>3
    <3>2. CallbackAt(k)
      BY <3>1 DEF Chain
    <3> QED
      BY <1>4, <1>5, <2>1, <2>3, <3>2 DEF CallbackAt
  <2> QED
    BY <2>2, <2>3
<1>7. (Token = IllFormed \/ TokenAt(pipeline, Place, Token))'
  BY <1>1, <1>3 DEF Token
<1>8. leaf'.query # "get_stop_token" /\ stopped' = {}
  BY <1>1 DEF Chain, NoLeaf
<1>9. RequestReachesLeaf'
  BY <1>8 DEF RequestReachesLeaf
<1> QED
  BY <1>3, <1>5, <1>6, <1>7, <1>8, <1>9 DEF Chain

\* Adaptors other than when_all hand the token on, or make it ill-formed.
LEMMA ThroughChain ==
  ASSUME Chain, NEW x \in AnyAdaptor, x # "when_all", NEW said, NEW real,
         Connect(x, said, real, NoAnswer),
         real["get_stop_token"] \in {IllFormed, Token}
  PROVE  Chain'
<1>1. pipeline \in Seq(AnyAdaptor) /\ Place = Len(pipeline) + 1 /\ Depth + 2 = Len(pipeline) + 2
  BY DEF Chain, Depth, Place
<1>2. Token # IllFormed => TokenAt(Append(pipeline, x), Depth + 2, Token)
  BY <1>1, Through DEF Chain
<1> QED
  BY <1>2, ConnectChain, Nowhere

\* An environment in front: where neither answers, neither does the receiver's.
LEMMA WithEnvToken ==
  ASSUME NEW real, NEW e
  PROVE  WithEnv(real, e)["get_stop_token"] \in {IllFormed, real["get_stop_token"]}
BY DEF WithEnv, EnvOfTwo, Queries

LEMMA AsksChain ==
  ASSUME Chain, NEW sndr, NEW q \in Queries, Asks(sndr, q)
  PROVE  Chain'
<1>1. /\ leaf = NoLeaf
      /\ UNCHANGED <<pipeline, actual, callbacks, stopped>>
      /\ leaf'.query = q /\ leaf'.gets = Ask(actual, q)
      /\ Compiles(Ask(actual, q))
  BY DEF Asks
<1>2. stopped' = {}
  BY <1>1 DEF Chain
<1>3. ASSUME q = "get_stop_token" PROVE TokenAt(pipeline, Place, leaf'.gets)
  <2>1. leaf'.gets = IF Token = NoAnswer THEN Default ELSE Token
    BY <1>1, <1>3 DEF Ask, Token
  <2>2. leaf'.gets # IllFormed
    BY <1>1 DEF Compiles
  <2>3. TokenAt(pipeline, Place, Token) /\ leaf'.gets.at = Token.at
    BY <2>1, <2>2, Outcomes, Nowhere DEF Chain
  <2> QED
    BY <2>3 DEF TokenAt
<1> QED
  BY <1>1, <1>2, <1>3 DEF Chain, Token, Place, Depth, CallbackAt, RequestReachesLeaf

-----------------------------------------------------------------------------
(* Requests                                                                 *)

\* Whether r says for the first n places of the pipeline p, with the answers c,
\* whom a request at s reaches.
Says(r, p, c, s, n) ==
  r = [k \in 0..n |-> \/ k = s
                      \/ k # 0 /\ p[k] = "when_all" /\ c[k].at >= 0 /\ r[c[k].at]]

\* Answers come from above.
FromAbove(p, c, n) ==
  \A k \in 1..n : p[k] = "when_all" /\ c[k].at >= 0 => c[k].at \in 0..(k - 1)

\* Such a function exists: there is no least n without one.
LEMMA SaysExists ==
  ASSUME NEW p, NEW c, NEW s, NEW d \in Nat, FromAbove(p, c, d)
  PROVE  \E r : Says(r, p, c, s, d)
<1> DEFINE T == {n \in 0..d : ~\E r : Says(r, p, c, s, n)}
<1>1. SUFFICES ASSUME T # {} PROVE FALSE
  BY <1>1
<1>2. T \subseteq Nat
  OBVIOUS
<1>3. PICK m \in T : \A n \in T : ~(n < m)
  <2> HIDE DEF T
  <2> QED
    BY <1>1, <1>2, LeastNumber
<1>4. m # 0
  <2> DEFINE f == [k \in 0..0 |-> k = s]
  <2>1. f = [k \in 0..0 |-> f[k]]
    OBVIOUS
  <2>2. \A k \in 0..0 : k = 0 /\ f[k] = (k = s)
    OBVIOUS
  <2> HIDE DEF f
  <2>3. \A k \in 0..0 :
          f[k] = (k = s \/ (k # 0 /\ p[k] = "when_all" /\ c[k].at >= 0 /\ f[c[k].at]))
    BY <2>2
  <2>4. Says(f, p, c, s, 0)
    BY <2>1, <2>3 DEF Says
  <2> QED
    BY <2>4
<1>5. m - 1 \in 0..d /\ m - 1 < m /\ m \in 1..d
  BY <1>4
<1>6. PICK f : Says(f, p, c, s, m - 1)
  BY <1>3, <1>5
<1> DEFINE last == m = s \/ (m # 0 /\ p[m] = "when_all" /\ c[m].at >= 0 /\ f[c[m].at])
           g == [k \in 0..m |-> IF k = m THEN last ELSE f[k]]
<1>7. ASSUME NEW k \in 0..m
      PROVE  g[k] = (\/ k = s
                     \/ k # 0 /\ p[k] = "when_all" /\ c[k].at >= 0 /\ g[c[k].at])
  <2>1. p[k] = "when_all" /\ c[k].at >= 0 /\ k # 0 =>
          c[k].at \in 0..m /\ c[k].at # m /\ c[k].at \in 0..(m - 1)
    <3>1. SUFFICES ASSUME p[k] = "when_all", c[k].at >= 0, k # 0
                   PROVE  c[k].at \in 0..m /\ c[k].at # m /\ c[k].at \in 0..(m - 1)
      OBVIOUS
    <3>2. k \in 1..d
      BY <1>5, <3>1
    <3>3. c[k].at \in 0..(k - 1)
      BY <3>1, <3>2 DEF FromAbove
    <3> QED
      BY <3>3, <1>5
  <2>2. p[k] = "when_all" /\ c[k].at >= 0 /\ k # 0 => g[c[k].at] = f[c[k].at]
    BY <2>1
  <2>3. CASE k = m
    <3>1. g[k] = last
      BY <2>3
    <3> HIDE DEF g
    <3> QED
      BY <2>2, <2>3, <3>1
  <2>4. CASE k # m
    <3>1. k \in 0..(m - 1) /\ g[k] = f[k]
      BY <1>5, <2>4
    <3>2. f[k] = (\/ k = s
                  \/ k # 0 /\ p[k] = "when_all" /\ c[k].at >= 0 /\ f[c[k].at])
      BY <1>6, <3>1 DEF Says
    <3> HIDE DEF g
    <3> QED
      BY <2>2, <3>1, <3>2
  <2> QED
    BY <2>3, <2>4
<1>8. g = [k \in 0..m |-> g[k]]
  OBVIOUS
<1>9. Says(g, p, c, s, m)
  <2> HIDE DEF g
  <2> QED
    BY <1>7, <1>8 DEF Says
<1> QED
  BY <1>3, <1>9

\* A request stops its own source, and every when_all whose token's source it stops.
LEMMA ReachedFollows ==
  ASSUME Depth \in Nat, FromAbove(pipeline, callbacks, Depth), NEW s \in 0..Depth
  PROVE  /\ s \in Reached(s)
         /\ \A k \in 1..Depth : pipeline[k] = "when_all" /\ callbacks[k].at \in Reached(s)
                                  => k \in Reached(s)
<1> DEFINE r == CHOOSE f : Says(f, pipeline, callbacks, s, Depth)
<1>1. Reached(s) = {k \in 0..Depth : r[k]}
  BY DEF Reached, Says
<1>2. Says(r, pipeline, callbacks, s, Depth)
  BY SaysExists
<1> HIDE DEF r
<1>3. \A k \in 0..Depth :
        r[k] = (\/ k = s
                \/ k # 0 /\ pipeline[k] = "when_all" /\ callbacks[k].at >= 0 /\ r[callbacks[k].at])
  BY <1>2 DEF Says
<1>4. s \in Reached(s)
  BY <1>1, <1>3
<1>5. ASSUME NEW k \in 1..Depth, pipeline[k] = "when_all", callbacks[k].at \in Reached(s)
      PROVE  k \in Reached(s)
  <2>1. callbacks[k].at \in 0..Depth /\ r[callbacks[k].at]
    BY <1>1, <1>5
  <2>2. callbacks[k].at >= 0 /\ k \in 0..Depth /\ k # 0
    BY <2>1
  <2>3. r[k]
    BY <1>3, <1>5, <2>1, <2>2
  <2> QED
    BY <1>1, <2>2, <2>3
<1> QED
  BY <1>4, <1>5

\* From a source, through every when_all below it, to the one the leaf looks at.
LEMMA Reaches ==
  ASSUME Chain, leaf.query = "get_stop_token", NEW s \in Sources
  PROVE  leaf.gets.at \in Reached(s)
<1>1. Depth \in Nat /\ Place = Depth + 1 /\ Place - 1 = Depth
  BY DEF Chain, Depth, Place
<1>2. ASSUME NEW k \in 1..Depth, pipeline[k] = "when_all"
      PROVE  \/ NoneAbove(pipeline, k) /\ callbacks[k].at \in {-1, 0}
             \/ callbacks[k].at \in 1..(k - 1) /\ Nearest(pipeline, k, callbacks[k].at)
  BY <1>1, <1>2, TokenAbove DEF Chain, CallbackAt
<1>3. FromAbove(pipeline, callbacks, Depth)
  BY <1>2 DEF FromAbove
<1>4. \/ NoneAbove(pipeline, Place) /\ leaf.gets.at \in {-1, 0}
      \/ leaf.gets.at \in 1..Depth /\ Nearest(pipeline, Place, leaf.gets.at)
  <2>1. TokenAt(pipeline, Place, leaf.gets) /\ Place \in Nat
    BY <1>1 DEF Chain
  <2> QED
    BY <1>1, <2>1, TokenAbove
<1>5. \/ s \in 1..Depth /\ pipeline[s] = "when_all"
      \/ s = 0 /\ \E a \in {callbacks[k] : k \in 1..Depth} \cup {leaf.gets} : a.at = 0
  BY DEF Sources
<1>6. s \in 0..Depth
  BY <1>1, <1>5
<1>7. /\ s \in Reached(s)
      /\ \A k \in 1..Depth : pipeline[k] = "when_all" /\ callbacks[k].at \in Reached(s)
                               => k \in Reached(s)
  BY <1>1, <1>3, <1>6, ReachedFollows
<1>8. ASSUME NEW k \in 1..Depth, pipeline[k] = "when_all", NoneAbove(pipeline, k), s = 0
      PROVE  callbacks[k].at = 0
  <2>1. PICK a \in {callbacks[i] : i \in 1..Depth} \cup {leaf.gets} : a.at = 0
    BY <1>5, <1>8
  <2>2. leaf.gets.at # 0
    <3>1. ~NoneAbove(pipeline, Place)
      BY <1>1, <1>8 DEF NoneAbove
    <3> QED
      BY <1>4, <3>1
  <2>3. PICK i \in 1..Depth : callbacks[i].at = 0
    BY <2>1, <2>2
  <2>4. pipeline[i] = "when_all"
    BY <2>3 DEF Chain, CallbackAt
  <2>5. NoneAbove(pipeline, i)
    BY <1>2, <2>3, <2>4
  <2>6. ~(i < k) /\ ~(k < i)
    BY <1>8, <2>4, <2>5 DEF NoneAbove
  <2> QED
    BY <2>3, <2>6
<1> DEFINE T == {k \in 1..Depth : pipeline[k] = "when_all" /\ k >= s /\ k \notin Reached(s)}
<1>9. T = {}
  <2>1. SUFFICES ASSUME T # {} PROVE FALSE
    BY <2>1
  <2>2. T \subseteq Nat
    OBVIOUS
  <2>3. PICK m \in T : \A k \in T : ~(k < m)
    <3> HIDE DEF T
    <3> QED
      BY <2>1, <2>2, LeastNumber
  <2>4. /\ m \in 1..Depth /\ pipeline[m] = "when_all" /\ m >= s /\ m \notin Reached(s)
        /\ m # s
    BY <1>7
  <2>5. CASE NoneAbove(pipeline, m)
    <3>1. s = 0
      BY <1>5, <2>4, <2>5 DEF NoneAbove
    <3> QED
      BY <1>7, <1>8, <2>4, <2>5, <3>1
  <2>6. CASE ~NoneAbove(pipeline, m)
    <3>1. PICK j \in 1..(m - 1) : j = callbacks[m].at /\ Nearest(pipeline, m, j)
      BY <1>2, <2>4, <2>6
    <3>2. j \in 1..Depth /\ pipeline[j] = "when_all" /\ j < m
      BY <1>1, <2>4, <3>1 DEF Nearest
    <3>3. j >= s
      <4>1. SUFFICES ASSUME j < s PROVE FALSE
        BY <1>6, <3>2
      <4>2. s \in (j + 1)..(m - 1) /\ pipeline[s] = "when_all"
        BY <1>5, <1>6, <2>4, <3>2, <4>1
      <4> QED
        BY <3>1, <4>2 DEF Nearest
    <3>4. j \in Reached(s)
      BY <2>3, <3>2, <3>3
    <3> QED
      BY <1>7, <2>4, <3>1, <3>4
  <2> QED
    BY <2>5, <2>6
<1>10. CASE NoneAbove(pipeline, Place)
  <2>1. \A k \in 1..Depth : callbacks[k].at = -1
    BY <1>1, <1>10 DEF Chain, CallbackAt, NoneAbove
  <2>2. s = 0
    BY <1>1, <1>5, <1>10 DEF NoneAbove
  <2>3. leaf.gets.at = 0
    BY <1>5, <2>1, <2>2
  <2> QED
    BY <1>7, <2>2, <2>3
<1>11. CASE ~NoneAbove(pipeline, Place)
  <2>1. PICK j \in 1..Depth : j = leaf.gets.at /\ Nearest(pipeline, Place, j)
    BY <1>4, <1>11
  <2>2. pipeline[j] = "when_all"
    BY <2>1 DEF Nearest
  <2>3. j >= s
    <3>1. SUFFICES ASSUME j < s PROVE FALSE
      BY <1>6
    <3>2. s \in (j + 1)..(Place - 1) /\ pipeline[s] = "when_all"
      BY <1>1, <1>5, <1>6, <3>1
    <3> QED
      BY <2>1, <3>2 DEF Nearest
  <2> QED
    BY <1>9, <2>1, <2>2, <2>3
<1> QED
  BY <1>10, <1>11

LEMMA RequestChain ==
  ASSUME Chain, NEW s \in Sources, RequestStop(s)
  PROVE  Chain'
<1>1. /\ leaf # NoLeaf /\ stopped' = stopped \cup Reached(s)
      /\ UNCHANGED <<pipeline, actual, callbacks, leaf>>
  BY DEF RequestStop
<1>2. RequestReachesLeaf'
  BY <1>1, Reaches DEF RequestReachesLeaf
<1> QED
  BY <1>1, <1>2 DEF Chain, Token, Place, Depth, CallbackAt

\* What a program writes, it answers for.
LEMMA Outermost ==
  ASSUME NEW e \in Written
  PROVE  WrittenEnv(e, 0)["get_stop_token"].at \in {-1, 0}
<1>1. e \in Seq(SUBSET Queries)
  BY WrittenAssumption
<1>2. ASSUME NEW i \in DOMAIN e PROVE Parts(e, 0)[i]["get_stop_token"].at \in {-1, 0}
  BY <1>2 DEF Parts, Prop, NoAnswer, By, Queries
<1>3. CASE Len(e) = 2
  <2>1. 1 \in DOMAIN e /\ 2 \in DOMAIN e
    BY <1>1, <1>3
  <2> QED
    BY <1>2, <1>3, <2>1 DEF WrittenEnv, EnvOfTwo, Queries
<1>4. CASE Len(e) # 2
  <2> DEFINE flags == [i \in DOMAIN Parts(e, 0) |-> Parts(e, 0)[i]["get_stop_token"] # NoAnswer]
             idx == FindPos(flags)
  <2>1. WrittenEnv(e, 0)["get_stop_token"] =
          IF idx = 0 THEN NoAnswer ELSE Parts(e, 0)[idx]["get_stop_token"]
    BY <1>4 DEF WrittenEnv, EnvOfAll, Queries
  <2>2. CASE idx = 0
    BY <2>1, <2>2, Nowhere
  <2>3. CASE idx # 0
    <3>1. PICK i \in DOMAIN flags : flags[i]
      BY <2>3 DEF FindPos
    <3>2. DOMAIN flags = DOMAIN e /\ DOMAIN e = 1..Len(e) /\ Len(e) \in Nat
      BY <1>1 DEF Parts
    <3>3. idx \in DOMAIN e
      <4> DEFINE T == {j \in DOMAIN flags : flags[j]}
      <4>1. T \subseteq Nat /\ T # {}
        BY <3>1, <3>2
      <4>2. PICK m \in T : \A k \in T : ~(k < m)
        <5> HIDE DEF T
        <5> QED
          BY <4>1, LeastNumber
      <4>3. m \in DOMAIN flags /\ flags[m] /\ \A j \in 1..(m - 1) : ~flags[j]
        <5>1. \A j \in 1..(m - 1) : j \in DOMAIN flags /\ j < m
          BY <3>2
        <5> QED
          BY <4>2, <5>1
      <4> HIDE DEF flags
      <4>4. idx = CHOOSE j \in DOMAIN flags : flags[j] /\ \A k \in 1..(j - 1) : ~flags[k]
        BY <3>1 DEF FindPos
      <4> QED
        BY <3>2, <4>3, <4>4
    <3> QED
      BY <1>2, <2>1, <2>3, <3>3
  <2> QED
    BY <2>2, <2>3
<1> QED
  BY <1>3, <1>4

LEMMA InitChain == Init => Chain
<1> SUFFICES ASSUME Init PROVE Chain
  OBVIOUS
<1>1. /\ pipeline = <<>> /\ callbacks = <<>> /\ leaf = NoLeaf /\ stopped = {}
      /\ actual \in {SyncWaitEnv, NoEnv} \cup {WrittenEnv(e, 0) : e \in Written}
  BY DEF Init
<1>2. Depth = 0 /\ Place = 1 /\ DOMAIN callbacks = {} /\ 1..Depth = {}
  BY <1>1 DEF Depth, Place
<1>3. Token.at \in {-1, 0}
  BY <1>1, Outermost, Nowhere DEF Token, SyncWaitEnv, NoEnv, Prop, Queries
<1>4. TokenAt(pipeline, Place, Token)
  BY <1>2, <1>3 DEF TokenAt
<1>5. leaf.query # "get_stop_token"
  BY <1>1 DEF NoLeaf
<1> QED
  BY <1>1, <1>2, <1>4, <1>5 DEF Chain, RequestReachesLeaf

LEMMA NextChain == Chain /\ [Next]_vars => Chain'
<1> SUFFICES ASSUME Chain, [Next]_vars PROVE Chain'
  OBVIOUS
<1> /\ "get_stop_token" \in Queries
    /\ "write_env" \in AnyAdaptor /\ "starts_on" \in AnyAdaptor /\ "when_all" \in AnyAdaptor
    /\ "let_second" \in AnyAdaptor /\ "continues_on" \in AnyAdaptor
  BY DEF Queries, AnyAdaptor
<1>1. CASE UNCHANGED vars
  BY <1>1 DEF vars, Chain, Token, Place, Depth, CallbackAt, RequestReachesLeaf
<1>2. ASSUME NEW x \in Forwarding, Forward(x) PROVE Chain'
  <2>1. x \in AnyAdaptor /\ x # "when_all"
    BY DEF AnyAdaptor, Forwarding
  <2>2. Connect(x, declared, actual, NoAnswer)
    BY <1>2 DEF Forward, ForwardedEnv
  <2> QED
    BY <2>1, <2>2, ThroughChain DEF Token
<1>3. ASSUME NEW e \in Written, WriteEnv(e) PROVE Chain'
  BY <1>3, ThroughChain, WithEnvToken DEF WriteEnv, Token
<1>4. CASE StartsOn
  BY <1>4, ThroughChain, WithEnvToken DEF StartsOn, Token
<1>5. CASE WhenAll
  <2>1. /\ Ask(actual, "get_stop_token") # IllFormed
        /\ Connect("when_all", Given(Prop({"get_stop_token"}, By(Place, 0))),
                   WhenAllEnv(actual), Ask(actual, "get_stop_token"))
    BY <1>5 DEF WhenAll
  <2>2. TokenAt(pipeline, Place, Ask(actual, "get_stop_token"))
    <3>1. Ask(actual, "get_stop_token") = IF Token = NoAnswer THEN Default ELSE Token
      BY DEF Ask, Token
    <3>2. TokenAt(pipeline, Place, Token) /\ Ask(actual, "get_stop_token").at = Token.at
      BY <2>1, <3>1, Outcomes, Nowhere DEF Chain
    <3> QED
      BY <3>2 DEF TokenAt
  <2>3. WhenAllEnv(actual)["get_stop_token"].at = Place
    BY DEF WhenAllEnv, Prop, By
  <2>4. pipeline \in Seq(AnyAdaptor) /\ Place = Len(pipeline) + 1 /\ Depth + 2 = Len(pipeline) + 2
    BY DEF Chain, Depth, Place
  <2>5. TokenAt(Append(pipeline, "when_all"), Depth + 2, WhenAllEnv(actual)["get_stop_token"])
    BY <2>3, <2>4, Own
  <2> QED
    BY <2>1, <2>2, <2>5, ConnectChain
<1>6. ASSUME NEW q \in Queries, ReadEnv(q) PROVE Chain'
  BY <1>6, AsksChain DEF ReadEnv
<1>7. CASE Schedule
  BY <1>7, AsksChain DEF Schedule
<1>9. CASE LetSecond \/ ContinuesOn
  BY <1>9, ThroughChain DEF LetSecond, ContinuesOn, ForwardedEnv, Token
<1>8. ASSUME NEW s \in Sources, RequestStop(s) PROVE Chain'
  BY <1>8, RequestChain
<1> QED
  BY <1>1, <1>2, <1>3, <1>4, <1>5, <1>6, <1>7, <1>8, <1>9 DEF Next

\* A request to stop, at the outermost receiver's source or at that of any when_all
\* of any pipeline, is seen by a leaf that looks at its stop token.
THEOREM RequestArrives == Spec => []RequestReachesLeaf
<1>1. Chain => RequestReachesLeaf
  BY DEF Chain
<1> QED
  BY <1>1, InitChain, NextChain, PTL DEF Spec

=============================================================================
