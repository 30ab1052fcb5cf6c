--------------------------------- MODULE Memo ---------------------------------
(***************************************************************************)
(* The static request of a model that is sent once and remembered:         *)
(* ShoppingCart.create_account, review_order and signup_tenant,            *)
(* CreditCard.promise_form.  The four are written alike: unless an answer  *)
(* is cached the request is posted; every answer overwrites the cache and  *)
(* resolves one static Deferred, which keeps the first.  There is no fail  *)
(* handler: a request that fails is one that is never answered.            *)
(*                                                                         *)
(* A memo is a record:                                                     *)
(*   posts    the requests posted, in order, with what they carry          *)
(*   open     the indices of the requests not answered                     *)
(*   memo     the index whose answer is cached, 0 for none                 *)
(*   settled  the index whose answer the Deferred has, 0 while pending     *)
(***************************************************************************)
EXTENDS Naturals, Sequences

Fresh == [posts |-> <<>>, open |-> {}, memo |-> 0, settled |-> 0]

\* The method is called with the request p.
Call(m, p) ==
  IF m.memo # 0 THEN m
  ELSE [posts   |-> Append(m.posts, p),
        open    |-> m.open \cup {Len(m.posts) + 1},
        memo    |-> m.memo,
        settled |-> m.settled]

\* Mutants of Answered: the Deferred is forgotten; the Deferred is made anew for
\* every request.
AnsweredUnresolved(m, i) ==
  [posts |-> m.posts, open |-> m.open \ {i}, memo |-> i, settled |-> m.settled]
AnsweredLatest(m, i) ==
  [posts |-> m.posts, open |-> m.open \ {i}, memo |-> i, settled |-> i]

\* The answer to request i: cached, and given to the Deferred.
Answered(m, i) ==
  [posts   |-> m.posts,
   open    |-> m.open \ {i},
   memo    |-> i,
   settled |-> IF m.settled = 0 THEN i ELSE m.settled]

Settled(m) == m.settled # 0

\* A call posts at most the bound's number of requests.
MayCall(m, bound) == m.memo # 0 \/ Len(m.posts) < bound

MemoType(Requests, bound) ==
  [posts : Seq(Requests), open : SUBSET (1..bound), memo : 0..bound, settled : 0..bound]

\* What holds of every memo: only requests that were posted are open or
\* answered, none is both, and the Deferred is pending exactly while nothing
\* is cached.
Coherent(m) ==
  /\ m.open \cup ({m.memo, m.settled} \ {0}) \subseteq 1..Len(m.posts)
  /\ m.open \cap {m.memo, m.settled} = {}
  /\ m.memo = 0 <=> m.settled = 0
===============================================================================
