---------------------------- MODULE PassResources ----------------------------
(***************************************************************************)
(* What the index passes of a process share beside the database: the locks *)
(* of a project (ProjectLock) and the Python interpreter (PythonRunner).   *)
(* Neither waits for the other, so each is explored while the other is at  *)
(* rest, and is treated fairly then.  Beside them, passes bind names to    *)
(* symbols (Resolution): each question is an index, what it was before     *)
(* some files changed, and the scope of an incremental pass.               *)
(***************************************************************************)
EXTENDS ProjectLock, PythonRunner, Resolution

CONSTANTS
    Symbols, Fields,    \* what an index may hold
    BindQuestion,       \* [pending, lost, stay, scope], see HandleBind
    Unasked

VARIABLE bound      \* <<question, the indexes that passes leave>>

resourceVars == <<vars, runnerVars, bound>>

ResourceInit == Init /\ RunnerInit /\ bound = <<Unasked, Unasked>>

FilesOf(syms) == {s.file : s \in syms}

Index(syms, pending) ==
    [syms |-> syms, fields |-> Fields, pend |-> pending, edges |-> {}]

\* Deleting the symbols of a file takes the edges at them along.
Without(ix, files) ==
    LET gone == {s.id : s \in {t \in ix.syms : t.file \in files}}
    IN  {e \in ix.edges : e.from \notin gone /\ e.to \notin gone}

\* Some files lose symbols, and their pending edges unless these stay.  The
\* index after that is bound over everything: without a past, after a pass
\* over the index before that, and once more in a scope.
HandleBind(q) ==
    LET changed == FilesOf(q.lost)
        before == Index(Symbols, q.pending)
        after == Index(Symbols \ q.lost,
                       {e \in q.pending : q.stay \/ e.file \notin changed})
        past == Without(ResolveAll(before, Everything), changed)
        whole == ResolveAll(after, Everything)
    IN  bound' = <<q, [whole |-> whole,
                       rebuilt |-> ResolveAll([after EXCEPT !.edges = past], Everything),
                       scoped |-> ResolveAll(whole, q.scope)]>>

Binds ==
    \/ bound = <<Unasked, Unasked>> /\ \E q \in BindQuestion : HandleBind(q)
    \/ bound # <<Unasked, Unasked>> /\ bound' = <<Unasked, Unasked>>

LocksRest == Init /\ UNCHANGED vars
RunnerRests == RunnerInit /\ UNCHANGED runnerVars
BindRests == bound = <<Unasked, Unasked>> /\ UNCHANGED bound

ResourceNext ==
    \/ RunnerRests /\ BindRests /\ Next
    \/ LocksRest /\ BindRests /\ RunnerNext
    \/ LocksRest /\ RunnerRests /\ Binds

(***************************************************************************)
(* The locks as in ProjectLock.  A call for a file runs on, gets the mutex *)
(* in its turn (sync.Mutex hands over in the order of arrival when someone *)
(* has waited for a millisecond), and its timer goes off.                  *)
(***************************************************************************)
ResourceFairness ==
    /\ \A c \in Caller :
        /\ WF_resourceVars(RunnerRests /\ BindRests
                             /\ (Acquire(c) \/ Release(c) \/ Leave(c)))
        /\ WF_resourceVars(RunnerRests /\ BindRests /\ Enter(c))
    /\ WF_resourceVars(RunnerRests /\ BindRests /\ Age)
    /\ \A f \in Source :
        /\ SF_resourceVars(LocksRest /\ BindRests /\ Lock(f))
        /\ WF_resourceVars(LocksRest /\ BindRests /\ Call(f))
        /\ WF_resourceVars(LocksRest /\ BindRests /\ AlarmStep(f))

ResourceSpec == ResourceInit /\ [][ResourceNext]_resourceVars /\ ResourceFairness
-----------------------------------------------------------------------------
(***************************************************************************)
(* The edges of an index are those that its symbols and pending edges      *)
(* mean.  A pass over everything makes them from whatever an earlier pass  *)
(* left, except that the old edges of a kind stay when nothing of that     *)
(* kind is pending.  An incremental pass changes none when nothing has     *)
(* changed, except that it takes away what hangs on a symbol inside its    *)
(* scope and was asked for by a file outside: an import hangs on the       *)
(* module of the package, which one file holds for all of them.            *)
(***************************************************************************)
ResolveAgrees ==
    bound # <<Unasked, Unasked>> =>
    LET scope == bound[1].scope
        whole == bound[2].whole
        keys == Keys(whole.edges)
        rebuilt == Keys(bound[2].rebuilt.edges)
        scoped == Keys(bound[2].scoped.edges)
        hangsInside(k) == \E s \in whole.syms : s.id = k.from /\ s.file \in scope
        askedOutside(k) ==
            \E e \in Of(whole, {k.kind}, Everything) :
                e.file \notin scope
                /\ k \in Keys(IF e.kind = "IMPORTS" THEN ImportEdges(whole.syms, e)
                              ELSE CallEdges(whole.syms, whole.fields, e))
    IN  /\ keys \subseteq rebuilt
        /\ \A k \in rebuilt \ keys : Of(whole, {k.kind}, Everything) = {}
        /\ scoped \subseteq keys
        /\ \A k \in keys \ scoped : hangsInside(k) /\ askedOutside(k)

(***************************************************************************)
(* What a call means does not depend on which of the rules comes first: it *)
(* belongs to the function of that name in its own file when the file has  *)
(* one, whichever variant for another platform is listed first; and when   *)
(* the receiver's type is known, only a symbol that is called just that,   *)
(* or the type's own method when there is one, is what it leads to.        *)
(***************************************************************************)
CallsAreMeant ==
    bound # <<Unasked, Unasked>> =>
    LET ix == bound[2].whole
        symbolOf(id) == CHOOSE s \in ix.syms : s.id = id
        own(e) == {s \in ix.syms : s.qn = e.from /\ s.file = e.file}
        typed(e) == e.type # NoType /\ Lang[e.file] = "Go" /\ Len(e.to) = 2
        methods(e) ==
            {s \in ix.syms : \E t \in {Bare[e.type], Pointer[Bare[e.type]]} :
                s.qn = <<Head(e.from), t, e.to[2]>>}
        means(e, k) ==
            /\ own(e) # {} => symbolOf(k.from) \in own(e)
            /\ typed(e) /\ methods(e) # {} =>
                symbolOf(k.to) \in methods(e) \cup Spelled(ix.syms, e.to)
    IN  /\ \A k \in ix.edges : k.source = "resolve_pass" /\ k.kind = "CALLS" =>
            \E e \in Of(ix, {"CALLS"}, Everything) :
                k \in CallEdges(ix.syms, ix.fields, e) /\ means(e, k)
        /\ \A e \in Of(ix, {"CALLS"}, Everything) :
            typed(e) /\ methods(e) # {} /\ own(e) # {} =>
                \E k \in ix.edges : k.kind = "CALLS" /\ means(e, k)
=============================================================================
