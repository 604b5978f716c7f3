----------------------------- MODULE RenderCall -----------------------------
(***************************************************************************)
(* What a call that renders voices promises, however many threads share    *)
(* the work: every piece of it is done before the call goes on, and the    *)
(* call does go on.                                                        *)
(***************************************************************************)
CONSTANT Pieces    \* everything a call may have to render

VARIABLES
    busy,  \* a call is rendering
    todo   \* what it has not rendered yet

callVars == <<busy, todo>>

CallInit == busy = FALSE /\ todo = {}

Begin(work) ==
    /\ ~busy
    /\ busy' = TRUE
    /\ todo' = work

Render(work) ==
    /\ busy
    /\ work # {}
    /\ todo' = todo \ work
    /\ UNCHANGED busy

End ==
    /\ busy
    /\ todo = {}
    /\ busy' = FALSE
    /\ UNCHANGED todo

RenderSome == \E work \in SUBSET todo : Render(work)

CallNext == (\E work \in SUBSET Pieces : Begin(work)) \/ RenderSome \/ End

\* What never happens; CallSpec also says what must.
CallSafety == CallInit /\ [][CallNext]_callVars

CallSpec ==
    /\ CallSafety
    /\ WF_callVars(RenderSome)
    /\ WF_callVars(End)

=============================================================================
