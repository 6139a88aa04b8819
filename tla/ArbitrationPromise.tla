------------------------- MODULE ArbitrationPromise -------------------------
(***************************************************************************)
(* What the intent arbitration promises the rest of the generation: while  *)
(* it is open it ends in one of three ways, and each of them changes the   *)
(* lock, the guidance and the directives in one way only.  The generation  *)
(* loop (CommitGeneration) relies on it; the menu with its frames          *)
(* (IntentArbitration) implements it.                                      *)
(***************************************************************************)
CONSTANTS Intents, NoIntent, NoType, Guidances, NoGuidance, DirectiveOf

VARIABLES open, locked, guidance, directive

(* Nothing is steered before the menu. *)
Init ==
  /\ open \in BOOLEAN
  /\ locked = NoIntent /\ guidance = NoGuidance /\ directive = NoType

Open == ~ open /\ open' /\ UNCHANGED <<locked, guidance, directive>>

(* The user aborts: no lock, and nothing new to say to the model. *)
Abort ==
  /\ open /\ ~ open'
  /\ locked' = NoIntent
  /\ UNCHANGED <<guidance, directive>>

(* The user asks for a new ranking: only guidance that names a directive   *)
(* can do that, and it starts with no lock.                                *)
ReRank ==
  /\ open
  /\ \E g \in Guidances :
       /\ DirectiveOf[g] # NoType
       /\ guidance' = g
       /\ directive' = DirectiveOf[g]
  /\ locked' = NoIntent

(* An intent is settled.  Guidance without a directive leaves the earlier  *)
(* directive in force.                                                     *)
Settle ==
  /\ open /\ ~ open'
  /\ locked' \in Intents
  /\ \/ UNCHANGED <<guidance, directive>>
     \/ \E g \in Guidances :
          /\ guidance' = g
          /\ directive' = IF DirectiveOf[g] = NoType THEN directive
                          ELSE DirectiveOf[g]

(* Outside the menu the lock stands, whatever the review does to guidance. *)
Elsewhere == ~ open /\ ~ open' /\ locked' = locked

Next == Open \/ Abort \/ ReRank \/ Settle \/ Elsewhere

Spec == Init /\ [][Next]_<<open, locked, guidance, directive>>
=============================================================================
