----------------------------- MODULE RefCounted -----------------------------
(***************************************************************************)
(* What reference counting promises (struct xrp_refcounted, the retain and *)
(* release functions of every kind of object): an object lives exactly as  *)
(* long as somebody holds it.  It is born with a holder; references come and go    *)
(* while one is left; the step that gives up the last one, and no other,   *)
(* ends its life; a dead object finds no new holder and is freed once.     *)
(*                                                                         *)
(* A step of the program may move several objects: the end of one lets go  *)
(* of another.  XrpRuntime and XrpBuffers implement this specification.    *)
(***************************************************************************)
CONSTANT Objects

VARIABLES
  life,     \* life[o]: "none", "live", "dying" (the destructor runs) or "freed"
  holders   \* holders[o]: who owns a reference to o

vars == <<life, holders>>

Unheld(o) == holders'[o] = {}

Init ==
  \A o \in Objects :
    \/ life[o] = "none" /\ holders[o] = {}
    \/ life[o] = "live" /\ holders[o] # {}

(* alloc_refcounted: the creator is a holder.                              *)
Born(o) == life[o] = "none" /\ life'[o] = "live" /\ ~Unheld(o)

(* retain_refcounted, a release that is not the last, or neither.          *)
Kept(o) == life[o] = "live" /\ life'[o] = "live" /\ ~Unheld(o)

(* last_release_refcounted returns true to exactly one caller.  An object  *)
(* with nothing to let go of may be freed in the same step.                *)
Dies(o) == life[o] = "live" /\ life'[o] \in {"dying", "freed"} /\ Unheld(o)

Freed(o) == life[o] = "dying" /\ life'[o] = "freed" /\ Unheld(o)

Gone(o) == life[o] # "live" /\ life'[o] = life[o] /\ Unheld(o)

Step(o) == Kept(o) \/ Gone(o) \/ Born(o) \/ Dies(o) \/ Freed(o)

Next == \A o \in Objects : Step(o)

Spec == Init /\ [][Next]_vars
=============================================================================
