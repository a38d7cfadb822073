---------------------------- MODULE AtomicStore ----------------------------
(***************************************************************************)
(* What the browser workspace storage promises to those who write to it: a *)
(* content that is replaced as a whole, under a fence.  A writer presents  *)
(* the fence it captured earlier; a clear empties the content and moves to *)
(* a fence that comes after all earlier ones, so nobody who captured an       *)
(* earlier one can bring old data back.                                    *)
(***************************************************************************)

CONSTANTS Writers,
          Contents,    \* what the storage may hold
          Empty,       \* the content after a clear
          Fences,      \* the fences that can be read
          NoFence,     \* what is captured when no fence can be read
          Before(_, _) \* a strict order: later fences come after earlier ones

VARIABLES content,     \* what a reader finds once recovery is through
          fence,       \* the fence in force, or NoFence
          token        \* the fence each writer has captured

storeVars == <<content, fence, token>>

Init ==
    /\ content \in Contents
    /\ fence \in Fences \cup {NoFence}
    /\ token = [w \in Writers |-> NoFence]

Capture(w) ==
    /\ token' = [token EXCEPT ![w] = fence]
    /\ UNCHANGED <<content, fence>>

Forget(w) ==
    /\ token' = [token EXCEPT ![w] = NoFence]
    /\ UNCHANGED <<content, fence>>

\* Only the fence in force replaces the content, and all of it at once.
Replace(w) ==
    /\ fence # NoFence
    /\ token[w] = fence
    /\ content' \in Contents
    /\ UNCHANGED <<fence, token>>

\* Nothing is left, and every earlier fence is refused from now on.
Clear ==
    /\ content' = Empty
    /\ fence' \in Fences
    /\ Before(fence, fence')
    /\ UNCHANGED token

Next ==
    \/ Clear
    \/ \E w \in Writers : Capture(w) \/ Forget(w) \/ Replace(w)

Spec == Init /\ [][Next]_storeVars
============================================================================
