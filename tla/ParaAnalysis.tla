---------------------------- MODULE ParaAnalysis ----------------------------
(***************************************************************************)
(* The analysis of coordinations in one_sentence_analysis (system/main.c). *)
(* For every key phrase a scope is detected; detect_para_relation arranges *)
(* the scopes (module ParaRelation) and check_dpnd_in_para checks the      *)
(* dependencies inside them (module ParaDpnd).  Either may reject: it then *)
(* restricts the scopes of one key, the scope of that key is detected      *)
(* again, and everything is done anew.  After too many rejections of       *)
(* either kind the sentence is analysed without coordinations.             *)
(*                                                                         *)
(* Which scope scores best is a matter of similarities between phrases; it *)
(* is left open here: any scope the restrictions allow may be detected, as *)
(* a normal or as a strong coordination, or none.                          *)
(***************************************************************************)
EXTENDS ParaRelation, ParaDpnd

CONSTANTS
  N,             \* sp->Bnst_num
  Sentences,     \* the sentences that may come in
  PARA_MAX,      \* more keys than this are not analysed
  PARA_PART_MAX  \* room for coordinations in a manager

Bnst == 0 .. N - 1

\* The number of rejections of one kind after which the loop ends.
ErrorMax == 3

\* keys: the phrases with a coordination key, from left to right; eos: phrases
\* that end a sentence inside brackets; quotes: bracketed ranges; alike: some
\* phrases are similar enough for a strong coordination (STRONG_PARA_TH).
IsSentence(s) ==
  /\ s.quote \in [Bnst -> [Bnst -> BOOLEAN]]
  /\ s.dpnd \in [Bnst -> [Bnst -> STRING]]
  /\ s.keys \in Seq(Bnst) /\ \A k \in 1 .. Len(s.keys) - 1 : s.keys[k] < s.keys[k + 1]
  /\ s.quotes \subseteq [start : Bnst, end : Bnst]
  /\ {s.stop, s.pred, s.noun, s.eos} \subseteq SUBSET Bnst
  /\ s.alike \in BOOLEAN

ASSUME NAssumption == N \in Nat \ {0}
ASSUME SentencesAssumption == \A s \in Sentences : IsSentence(s)
ASSUME BoundsAssumption ==
  PARA_MAX \in Nat /\ PARA_PART_MAX \in Nat \ {0} /\ PARA_MAX <= PARA_PART_MAX

VARIABLES
  sent,       \* the sentence
  paras,      \* para_data: one coordination per key
  restrict,   \* restrict_matrix for the key to be detected again
  Revised_para_num,
  ms,         \* para_manager
  of,         \* para_data[].manager_ptr, 0 for NULL
  phase,      \* the loop the program is in, see below
  todo,       \* what that loop has still to visit, in order
  Dpnd, Mask, \* Dpnd_matrix and Mask_matrix
  checked,    \* D_check_array
  relation_error, d_struct_error

vars == <<phase, todo, paras, ms, of, Revised_para_num, relation_error, d_struct_error,
          checked, Mask, Dpnd, sent, restrict>>

Ended == {"none", "ok", "giveup"}
Phases == {"keys", "relate", "gather", "link", "scope", "check", "retry"} \cup Ended

FreeMask == [i \in Bnst |-> [j \in Bnst |-> 1]]
NoPara == 0
-----------------------------------------------------------------------------
(* Scopes                                                                  *)

\* mask_quote_scope: a coordination neither enters nor leaves brackets, and
\* does not reach over the end of a sentence inside them.
QuoteAllows(s, key, i, j) ==
  \A q \in s.quotes :
    IF key < q.start THEN ~ (i < q.start /\ j \in q.start .. (q.end - 1))
    ELSE IF q.end <= key THEN ~ (i \in (q.start + 1) .. q.end /\ j > q.end)
    ELSE /\ ~ (i <= q.end /\ j >= q.start /\ (i < q.start \/ q.end < j))
         /\ \A l \in s.eos \cap (q.start .. (q.end - 1)) :
              ~ (i \in q.start .. l /\ j \in (l + 1) .. q.end)

\* detect_para_scope: the coordinations that may be detected for a key when
\* `allowed' are the pairs (first phrase, last phrase) restrict_matrix permits.
NotFound(key) == [a1 |-> key, a2 |-> key, a3 |-> key, status |-> "x"]

Detectable(s, key, allowed) ==
  {NotFound(key)} \cup
  {p \in [a1 : 0 .. key, a2 : {key}, a3 : (key + 1) .. (N - 1),
         status : IF s.alike THEN {"n", "s"} ELSE {"n"}] :
     <<p.a1, p.a3>> \in allowed /\ QuoteAllows(s, key, p.a1, p.a3)}

AllScopes == Bnst \X Bnst

\* set_restrict_matrix: which placements are left to the earlier one of two
\* coordinations, or to the later one, the other being fixed.
Tolerable(pre, pos) == RelTable[pre][pos] # "BAD"
BeforeStrong(pre, pos) == Tolerable(pre, pos) /\ ~ (pre = 1 /\ pos \in {1, 2})
AfterStrong(pre, pos) ==
  Tolerable(pre, pos) /\ ~ (pre \in {1, 2, 3} /\ pos = 1) /\ ~ (pre = 3 /\ pos = 2)

Placed(a, i, j) == [a EXCEPT !.a1 = i, !.a3 = j]

RestrictPre(a, b) ==
  {r \in AllScopes : LET p == Placed(a, r[1], r[2])
                     IN  r[2] < b.a1 \/ IF a.status # "s" /\ b.status = "s"
                                        THEN BeforeStrong(RelPre(p, b), RelPos(p, b))
                                        ELSE Tolerable(RelPre(p, b), RelPos(p, b))}

RestrictPos(a, b) ==
  {r \in AllScopes : LET p == Placed(b, r[1], r[2])
                     IN  a.a3 < r[1] \/ IF a.status = "s" /\ b.status # "s"
                                        THEN AfterStrong(RelPre(a, p), RelPos(a, p))
                                        ELSE Tolerable(RelPre(a, p), RelPos(a, p))}

\* What check_para_d_struct works on.
CheckState == [quote |-> sent.quote, Dpnd |-> Dpnd, Mask |-> Mask,
               checked |-> checked, stop |-> sent.stop,
               pred |-> sent.pred, noun |-> sent.noun,
               strong |-> {k \in DOMAIN paras : paras[k].status = "s"}]

\* revise_para_kakari: the first conjunct must begin after the last phrase that
\* has no head before the key, the second end where all have heads.
RestrictKakari(x, key) ==
  LET bad == NoHead(x, 0, key)
      start == IF bad = {} THEN 0 ELSE Max(bad) + 1
      ends == {j \in Bnst : j <= key + 1 \/ NoHead(x, key + 1, j) = {}}
  IN  {r \in AllScopes : r[1] >= start /\ r[2] \in ends}
-----------------------------------------------------------------------------
Init ==
  /\ sent \in Sentences
  /\ paras = <<>>
  /\ restrict = AllScopes
  /\ Revised_para_num = NoPara
  /\ ms = <<>> /\ of = <<>>
  /\ phase = "keys" /\ todo = sent.keys
  /\ Dpnd = sent.dpnd
  /\ Mask = FreeMask
  /\ checked = {}
  /\ relation_error = 0 /\ d_struct_error = 0

unchanged_managers == UNCHANGED <<ms, of>>
unchanged_check == UNCHANGED <<Dpnd, Mask, checked>>
unchanged_revision ==
  UNCHANGED <<restrict, Revised_para_num, relation_error, d_struct_error>>

\* check_para_key gives up on a sentence with too many keys.
NothingToDo ==
  /\ phase = "keys"
  /\ sent.keys = <<>> \/ Len(sent.keys) >= PARA_MAX
  /\ phase' = "none" /\ todo' = <<>>
  /\ UNCHANGED <<sent, paras>>
  /\ unchanged_managers /\ unchanged_check /\ unchanged_revision

\* detect_all_para_scope: one key after the other.
DetectScope ==
  /\ phase = "keys" /\ todo # <<>>
  /\ Len(sent.keys) < PARA_MAX
  /\ \E p \in Detectable(sent, Head(todo), AllScopes) : paras' = Append(paras, p)
  /\ todo' = Tail(todo)
  /\ phase' = IF Len(todo) = 1 THEN "relate" ELSE "keys"
  /\ UNCHANGED sent
  /\ unchanged_managers /\ unchanged_check /\ unchanged_revision

\* detect_para_relation finds two coordinations that cannot coexist:
\* revise_para_rel restricts the weaker one, the one with the lower score
\* (either may be) when both are of the same strength.
RejectRelation ==
  /\ phase = "relate"
  /\ BadPairs(paras) # {}
  /\ LET p == FirstBad(paras)
         a == paras[p[1]]
         b == paras[p[2]]
     IN  \/ /\ ~ (a.status = "s" /\ b.status # "s")
            /\ Revised_para_num' = p[1]
            /\ restrict' = RestrictPre(a, b)
         \/ /\ ~ (a.status # "s" /\ b.status = "s")
            /\ Revised_para_num' = p[2]
            /\ restrict' = RestrictPos(a, b)
  /\ relation_error' = relation_error + 1
  /\ phase' = "retry"
  /\ UNCHANGED <<sent, paras, todo, d_struct_error>>
  /\ unchanged_managers /\ unchanged_check

\* No bad pair: init_para_manager.
Relate ==
  /\ phase = "relate"
  /\ BadPairs(paras) = {}
  /\ ms' = <<>> /\ of' = [k \in DOMAIN paras |-> 0]
  /\ phase' = "gather" /\ todo' = Increasing(Found(paras))
  /\ UNCHANGED <<sent, paras>>
  /\ unchanged_check /\ unchanged_revision

\* "Too many para": detect_para_relation fails without naming a key.
Overflow ==
  /\ relation_error' = relation_error + 1
  /\ phase' = "retry" /\ todo' = <<>>

NextTurn == phase' = phase /\ todo' = Tail(todo) /\ UNCHANGED relation_error

GatherKey ==
  /\ phase = "gather" /\ todo # <<>>
  /\ LET i == Head(todo)
         m == IF of[i] = 0 THEN Len(ms) + 1 ELSE of[i]
         taken == {i} \cup Brothers(paras, i)
     IN  /\ ms' = Gather(paras, ms, m, i)
         /\ of' = [k \in DOMAIN of |-> IF k \in taken THEN m ELSE of[k]]
         /\ IF Len(ms'[m].keys) >= PARA_PART_MAX THEN Overflow ELSE NextTurn
  /\ UNCHANGED <<sent, paras, restrict, Revised_para_num, d_struct_error>>
  /\ unchanged_check

LinkParent ==
  /\ phase = "link" /\ todo # <<>>
  /\ LET ch == of[Head(todo)[1]]
         par == of[Head(todo)[2]]
     IN  /\ ms' = SetParent(paras, ms, par, ch)
         /\ IF ms' # ms /\ Len(ms'[par].child) >= PARA_PART_MAX THEN Overflow ELSE NextTurn
  /\ UNCHANGED <<sent, paras, of, restrict, Revised_para_num, d_struct_error>>
  /\ unchanged_check

ReviseManager ==
  /\ phase = "scope" /\ todo # <<>>
  /\ ms' = ReviseScope(ms, Head(todo))
  /\ NextTurn
  /\ UNCHANGED <<sent, paras, of, restrict, Revised_para_num, d_struct_error>>
  /\ unchanged_check

\* From one loop to the next; check_dpnd_in_para starts with a free mask.
LoopEnd ==
  /\ todo = <<>>
  /\ \/ /\ phase = "gather"
        /\ phase' = "link" /\ todo' = ParentPairs(paras)
        /\ UNCHANGED ms /\ unchanged_check
     \/ /\ phase = "link"
        /\ phase' = "scope" /\ todo' = Order(ms)
        /\ UNCHANGED ms /\ unchanged_check
     \/ /\ phase = "scope"
        /\ phase' = "check" /\ todo' = Order(ms)
        /\ ms' = MarkStrong(paras, ms)
        /\ Mask' = FreeMask /\ checked' = {}
        /\ UNCHANGED Dpnd
     \/ /\ phase = "check"
        /\ phase' = "ok" /\ todo' = <<>>
        /\ UNCHANGED ms /\ unchanged_check
  /\ UNCHANGED <<sent, paras, of>>
  /\ unchanged_revision

\* check_para_d_struct for the next manager.
CheckManager ==
  /\ phase = "check" /\ todo # <<>>
  /\ \E m \in {ms[Head(todo)]} :
     \E x \in {[CheckState EXCEPT !.Dpnd = DpndAfter(CheckState, m)]} :
     \E r \in {CheckConjuncts(x, ms, m)} :
       /\ Dpnd' = x.Dpnd
       /\ IF Judge(m, r) = "revise"
          THEN /\ Revised_para_num' = Revisable(m, r.error)
               /\ restrict' = RestrictKakari(x, paras[Revised_para_num'].a2)
               /\ d_struct_error' = d_struct_error + 1
               /\ phase' = "retry" /\ todo' = <<>>
               /\ UNCHANGED <<Mask, checked>>
          ELSE /\ Mask' = MaskAfter(x, m, r)
               /\ checked' = checked \cup (r.start .. (Final(m).end - 1))
               /\ phase' = phase /\ todo' = Tail(todo)
               /\ UNCHANGED <<restrict, Revised_para_num, d_struct_error>>
  /\ UNCHANGED <<sent, paras, relation_error>>
  /\ unchanged_managers

\* A slip: one turn too many.
Redetect_late ==
  /\ phase = "retry"
  /\ relation_error <= ErrorMax + 1 /\ d_struct_error <= ErrorMax + 1
  /\ Revised_para_num \in DOMAIN paras
  /\ \E p \in Detectable(sent, paras[Revised_para_num].a2, restrict) :
       paras' = [paras EXCEPT ![Revised_para_num] = p]
  /\ phase' = "relate"
  /\ UNCHANGED <<sent, todo>>
  /\ unchanged_managers /\ unchanged_check /\ unchanged_revision

\* The condition of the loop holds: detect the scope of the revised key again.
Redetect ==
  /\ phase = "retry"
  /\ relation_error <= ErrorMax /\ d_struct_error <= ErrorMax
  /\ Revised_para_num \in DOMAIN paras
  /\ \E p \in Detectable(sent, paras[Revised_para_num].a2, restrict) :
       paras' = [paras EXCEPT ![Revised_para_num] = p]
  /\ phase' = "relate"
  /\ UNCHANGED <<sent, todo>>
  /\ unchanged_managers /\ unchanged_check /\ unchanged_revision

\* A slip: both counters must run out.
GiveUp_both ==
  /\ phase = "retry"
  /\ relation_error > ErrorMax /\ d_struct_error > ErrorMax
  /\ Mask' = FreeMask
  /\ phase' = "giveup"
  /\ UNCHANGED <<sent, paras, todo, Dpnd, checked>>
  /\ unchanged_managers /\ unchanged_revision

\* "Cannot detect consistent CS scopes".
GiveUp ==
  /\ phase = "retry"
  /\ relation_error > ErrorMax \/ d_struct_error > ErrorMax
  /\ Mask' = FreeMask
  /\ phase' = "giveup"
  /\ UNCHANGED <<sent, paras, todo, Dpnd, checked>>
  /\ unchanged_managers /\ unchanged_revision

Step == \/ NothingToDo \/ DetectScope \/ RejectRelation \/ Relate \/ GatherKey
        \/ LinkParent \/ ReviseManager \/ LoopEnd \/ CheckManager \/ Redetect
        \/ GiveUp

Done == phase \in Ended /\ UNCHANGED vars

Next == Step \/ Done

Spec == Init /\ [][Next]_vars

\* The loop is sequential code of one process.
FairSpec == Spec /\ WF_vars(Step)
-----------------------------------------------------------------------------
(* Properties                                                              *)

\* Type invariant.  The loop never detects "the scope of key -1": when it goes
\* round again a key has been named.
TypeOK ==
  /\ \A k \in DOMAIN paras : paras[k] \in Detectable(sent, sent.keys[k], AllScopes)
  /\ restrict \subseteq AllScopes
  /\ Revised_para_num \in {NoPara} \cup DOMAIN paras
  /\ phase = "retry" => Revised_para_num # NoPara
  /\ Mask \in [Bnst -> [Bnst -> 0 .. 3]]
  /\ checked \subseteq Bnst
  /\ phase \in Phases
  /\ relation_error \in 0 .. ErrorMax + 1 /\ d_struct_error \in 0 .. ErrorMax + 1

Span(m) == First(m).start .. Final(m).end

\* Of two managers one lies in a single conjunct of the other, or they are apart.
ScopesNested(m, n) ==
  \/ Span(m) \cap Span(n) = {}
  \/ \E k \in DOMAIN m.part : Span(n) \subseteq Under(m, k)
  \/ \E k \in DOMAIN n.part : Span(m) \subseteq Under(n, k)

\* The two ways in which the managers may fail to form a hierarchy.  A
\* coordination is gathered twice when two that are not coordinate with each
\* other both are with it (scopes 0 .. 4, 1 .. 4 and 2 .. 5 for the keys 0, 1, 4):
\* their managers share its last conjunct.
GatheredOnce ==
  \A i \in DOMAIN paras :
    Cardinality({m \in DOMAIN ms : i \in Range(ms[m].keys)}) <= 1

\* And set_parent cannot choose between two parents that are not related to each
\* other ("Invalid relation !!"): a coordination at the end of an earlier one and
\* biting into a later one (scopes 0 .. 2, 2 .. 4 and 4 .. 6 for the keys 0, 2, 5).
ParentsRelated ==
  LET rel == Relations(paras)
      inner(m, n) == \E i \in Range(ms[m].keys), j \in Range(ms[n].keys) : Inside(rel, i, j)
  IN  \A m, n, l \in DOMAIN ms :
        Cardinality({m, n, l}) = 3 /\ inner(m, n) /\ inner(m, l) => inner(n, l) \/ inner(l, n)

Hierarchy == GatheredOnce /\ ParentsRelated

\* What detect_para_relation leaves.  Every manager is visited exactly once by
\* the recursion over the roots: set_parent has built no cycle and lost no
\* manager, and conjuncts stay adjacent and in order through all revisions.  In
\* a hierarchy they are nested, and the parent settled on is the innermost
\* manager around, whatever the order of the pairs.
ManagersForest ==
  phase = "check" =>
    /\ Len(Order(ms)) = Len(ms) /\ Range(Order(ms)) = DOMAIN ms
    /\ \A m \in DOMAIN ms : \A k \in 1 .. Len(ms[m].part) - 1 :
         ms[m].part[k + 1].start = ms[m].part[k].end + 1
    /\ Hierarchy =>
         /\ \A m, n \in DOMAIN ms : m # n => ScopesNested(ms[m], ms[n])
         /\ \A m \in DOMAIN ms :
              LET around == {n \in DOMAIN ms \ {m} : Span(ms[m]) \subseteq Span(ms[n])}
              IN  IF around = {} THEN ms[m].parent = 0
                  ELSE /\ ms[m].parent \in around
                       /\ \A n \in around : Span(ms[ms[m].parent]) \subseteq Span(ms[n])

Marked(mask, b) == {i \in (b + 1) .. (N - 1) : mask[b][i] \in {2, 3}}

\* Where decide_dpnd may attach c: at its first mark, or else anywhere the mask
\* is not 0.
Attachable(mask, c) ==
  IF Marked(mask, c) # {} THEN {Min(Marked(mask, c))}
  ELSE {k \in (c + 1) .. (N - 1) : mask[c][k] # 0}

\* The masks of all coordinations together: nothing under the arc of a mark
\* may be attached beyond its end.  decide_dpnd relies on it, for it takes
\* the marks without testing them against the arcs drawn so far.
MarksNested ==
  phase = "ok" =>
    \A b \in Bnst : Marked(Mask, b) # {} =>
      LET i == Min(Marked(Mask, b))
      IN  \A c \in (b + 1) .. (i - 1) : \A k \in Attachable(Mask, c) : k <= i

\* What one manager has marked no later manager takes away, if they form a
\* hierarchy: every conjunct of an accepted analysis is still coordinated with
\* the next one.
ConjunctsMarked ==
  phase = "ok" /\ Hierarchy =>
    \A m \in Range(ms) : \A k \in 1 .. Len(m.part) - 1 :
      /\ Mask[m.part[k].end][m.part[k + 1].end] = 2
      /\ \A j \in Marked(Mask, m.part[k].end) : j >= m.part[k + 1].end

\* The loop ends.
Terminates == <>(phase \in Ended)
=============================================================================
