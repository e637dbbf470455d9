---------------------------- MODULE MCSharedMind ----------------------------
(* Finite instances of SharedMind.  A bound that is not named is 0. *)
EXTENDS SharedMind, TLC

CONSTANTS ann, bob, c1, c2, w1, w2, g1

Bounds(b) == b @@ [o \in Operation |-> 0]

PrivacyLimit == Bounds("say" :> 2 @@ "erase" :> 1 @@ "save" :> 1 @@ "crash" :> 1)
ControlLimit == Bounds("say" :> 1 @@ "force" :> 1 @@ "save" :> 1 @@ "shutdown" :> 1
                       @@ "reset" :> 1 @@ "freeze" :> 1 @@ "crash" :> 1 @@ "fault" :> 1)
PipelineLimit == Bounds("say" :> 2 @@ "erase" :> 1 @@ "reflect" :> 1)
EraseLimit == Bounds("say" :> 1 @@ "erase" :> 1)

Interchangeable == Permutations(Person) \cup Permutations(Caller)

=============================================================================
