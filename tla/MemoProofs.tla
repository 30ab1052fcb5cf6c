------------------------------ MODULE MemoProofs ------------------------------
(***************************************************************************)
(* What the operations on a memo return, for any requests and bound.       *)
(***************************************************************************)
EXTENDS Memo, TLAPS

\* A memo nobody has called.
LEMMA FreshMemo ==
  ASSUME NEW Requests, NEW bound \in Nat
  PROVE  Fresh \in MemoType(Requests, bound) /\ Coherent(Fresh)
  BY DEF Fresh, MemoType, Coherent

\* A call, while the bound allows one, keeps the memo's type and coherence; it
\* leaves what is answered alone and adds at most the request it is given.
LEMMA CallMemo ==
  ASSUME NEW Requests, NEW bound \in Nat, NEW m \in MemoType(Requests, bound),
         Coherent(m), MayCall(m, bound), NEW p \in Requests
  PROVE  /\ Call(m, p) \in MemoType(Requests, bound)
         /\ Coherent(Call(m, p))
         /\ Call(m, p).settled = m.settled
         /\ \A i \in DOMAIN Call(m, p).posts :
              Call(m, p).posts[i] = p \/ (i \in DOMAIN m.posts /\ Call(m, p).posts[i] = m.posts[i])
<1>1. CASE m.memo # 0
  BY <1>1 DEF Call, MemoType
<1>2. CASE m.memo = 0
  <2> DEFINE k == Len(m.posts) + 1
  <2>2. /\ m.posts \in Seq(Requests) /\ m.open \subseteq 1..bound
        /\ m.memo \in 0..bound /\ m.settled \in 0..bound
    BY DEF MemoType
  <2>3. Call(m, p) = [posts |-> Append(m.posts, p), open |-> m.open \cup {k},
                      memo |-> m.memo, settled |-> m.settled]
    BY <1>2 DEF Call
  <2>4. k \in 1..bound
    BY <1>2, <2>2 DEF MayCall
  <2>5. Call(m, p) \in MemoType(Requests, bound)
    BY <2>2, <2>3, <2>4 DEF MemoType
  <2>6. Coherent(Call(m, p))
    BY <1>2, <2>2, <2>3 DEF Coherent
  <2>7. \A i \in DOMAIN Append(m.posts, p) :
          Append(m.posts, p)[i] = p \/ (i \in DOMAIN m.posts /\ Append(m.posts, p)[i] = m.posts[i])
    BY <2>2
  <2> QED
    BY <2>3, <2>5, <2>6, <2>7
<1> QED
  BY <1>1, <1>2

\* The answer to an open request keeps type and coherence, posts nothing, and
\* settles a pending Deferred with itself.
LEMMA AnsweredMemo ==
  ASSUME NEW Requests, NEW bound \in Nat, NEW m \in MemoType(Requests, bound),
         Coherent(m), NEW i \in m.open
  PROVE  /\ Answered(m, i) \in MemoType(Requests, bound)
         /\ Coherent(Answered(m, i))
         /\ Answered(m, i).posts = m.posts
         /\ Answered(m, i).settled = IF m.settled = 0 THEN i ELSE m.settled
<1>1. Answered(m, i) \in MemoType(Requests, bound)
  BY DEF Answered, MemoType
<1>2. Coherent(Answered(m, i))
  BY DEF Answered, Coherent, MemoType
<1> QED
  BY <1>1, <1>2 DEF Answered
===============================================================================
