--------------------------- MODULE ReviewsProofs ---------------------------
(***************************************************************************)
(* What holds of Reviews for every set of commands, conversations, values  *)
(* and drafts, whatever the two comparisons of values are.                 *)
(***************************************************************************)
EXTENDS Reviews, TLAPS

\* The foreign key of the proposals, and the two indexes of the memories.  A
\* memory has no trail only when its conversation is gone, so a new memory never
\* repeats the origin of an old one.
Rows ==
    /\ \A p \in Proposals : review[p] # "none" => conversations[p[1]] = "stored"
    /\ \A m \in memories : m.traced \/ conversations[m.origin[1]] = "gone"
    /\ \A m, n \in memories : m.origin = n.origin => m = n
    /\ \A m, n \in memories :
          ~m.forgotten /\ ~n.forgotten /\ Key[m.origin[2]] = Key[n.origin[2]] => m = n

\* What an extraction has read is what was proposed for its conversation, unless
\* another stored meanwhile, and what it keeps is new and not twice the same.
Extracting(c) == command[c].at \in {"ask", "asked", "store"} /\ command[c].on \in Conversations

SeenIsCurrent ==
    \A c \in Commands : Extracting(c) =>
       /\ ~command[c].stale =>
             \A v \in Values : review[<<command[c].on, v>>] # "none" => Comparable[v] \in command[c].seen
       /\ \A v \in command[c].kept : Comparable[v] \notin command[c].seen
       /\ \A v, w \in command[c].kept : Comparable[v] = Comparable[w] => v = w

\* A decision is about an item.
Deciding ==
    \A c \in Commands : command[c].at = "decide" =>
       command[c].on \in Items /\ command[c].decision \in {"accepted", "declined"}

Reviewed == TypeOK /\ Deciding /\ Rows /\ AcceptedIsRemembered

-----------------------------------------------------------------------------
LEMMA Initially == Init => Reviewed /\ SeenIsCurrent /\ OfferedOnce
  BY ReviewsAssumption DEF Init, Reviewed, TypeOK, Deciding, Rows, AcceptedIsRemembered, SeenIsCurrent,
     Extracting, OfferedOnce, Idle, Items, Proposals, Status, Command

\* A step of a command keeps the type of the table of commands.
LEMMA StepTyped ==
    ASSUME command \in [Commands -> Command], NEW c \in Commands, NEW r \in Command, Step(c, r)
    PROVE  command' \in [Commands -> Command]
  BY DEF Step

LEMMA IdleTyped == Idle \in Command
  BY DEF Idle, Command

\* Every step keeps the types.
LEMMA TypeHolds == ASSUME TypeOK, [Next]_vars PROVE TypeOK'
<1> USE ReviewsAssumption DEF TypeOK
<1>1. CASE UNCHANGED vars
  BY <1>1 DEF vars
<1>2. ASSUME NEW v \in Conversations, Derive(v) PROVE TypeOK'
  BY <1>2 DEF Derive
<1>3. ASSUME NEW v \in Conversations, Dissolve(v) PROVE TypeOK'
  BY <1>3, ZenonT(40) DEF Dissolve, Cascaded, Status, Memory
<1>4. CASE Configure
  BY <1>4 DEF Configure
<1>5. CASE Forget
  BY <1>5, ZenonT(40) DEF Forget, Memory
<1>6. ASSUME NEW c \in Commands, Extract(c) PROVE TypeOK'
  <2>1. PICK v \in Conversations :
           Step(c, [Idle EXCEPT !.at = "ask", !.on = v, !.seen = AlreadyProposed(v)])
    BY <1>6 DEF Extract
  <2>2. [Idle EXCEPT !.at = "ask", !.on = v, !.seen = AlreadyProposed(v)] \in Command
    BY DEF Idle, Command, AlreadyProposed
  <2> QED
    BY <1>6, <2>1, <2>2, StepTyped DEF Extract
<1>7. ASSUME NEW c \in Commands, Suggest(c) PROVE TypeOK'
  <2>1. [Idle EXCEPT !.at = "ask"] \in Command
    BY DEF Idle, Command
  <2>2. \A m \in Memory : [m EXCEPT !.used = TRUE] \in Memory
    BY DEF Memory
  <2>3. memories' \subseteq Memory
    BY <1>7, <2>2 DEF Suggest
  <2> QED
    BY <1>7, <2>1, <2>3, StepTyped DEF Suggest
<1>8. ASSUME NEW c \in Commands, Ask(c) PROVE TypeOK'
  <2>1. [command[c] EXCEPT !.at = "asked"] \in Command
    BY DEF Command
  <2> QED
    BY <1>8, <2>1, StepTyped, IdleTyped DEF Ask
<1>9. ASSUME NEW c \in Commands, Answer(c) PROVE TypeOK'
  <2>1. PICK kept \in SUBSET Values :
           Step(c, [command[c] EXCEPT !.at = "store", !.kept = kept])
    BY <1>9 DEF Answer, Sifted
  <2>2. [command[c] EXCEPT !.at = "store", !.kept = kept] \in Command
    BY ZenonT(40) DEF Command
  <2> QED
    BY <1>9, <2>1, <2>2, StepTyped DEF Answer
<1>10. ASSUME NEW c \in Commands, Misshapen(c) PROVE TypeOK'
  <2>1. [command[c] EXCEPT !.at = "ask", !.repaired = TRUE] \in Command
    BY ZenonT(40) DEF Command
  <2> QED
    BY <1>10, <2>1, StepTyped, IdleTyped DEF Misshapen
<1>11. ASSUME NEW c \in Commands, Unanswered(c) PROVE TypeOK'
  BY <1>11, StepTyped, IdleTyped DEF Unanswered
<1>12. ASSUME NEW c \in Commands, StoreFacts(c) PROVE TypeOK'
  <2>1. \A d \in Commands, b \in BOOLEAN : [command[d] EXCEPT !.stale = b] \in Command
    BY ZenonT(40) DEF Command
  <2>2. \A d \in Commands : command[d].stale \in BOOLEAN
    BY DEF Command
  <2>3. command' \in [Commands -> Command]
    BY <1>12, <2>1, <2>2, IdleTyped DEF StoreFacts
  <2> QED
    BY <1>12, <2>3 DEF StoreFacts, Status
<1>13. ASSUME NEW c \in Commands, StoreDraft(c) PROVE TypeOK'
  BY <1>13, StepTyped, IdleTyped DEF StoreDraft, Status
<1>14. ASSUME NEW c \in Commands, Review(c) PROVE TypeOK'
  <2>1. PICK i \in Items, decision \in {"accepted", "declined"} :
           Step(c, [Idle EXCEPT !.at = "decide", !.on = i, !.decision = decision])
    BY <1>14 DEF Review
  <2>2. [Idle EXCEPT !.at = "decide", !.on = i, !.decision = decision] \in Command
    BY DEF Idle, Command
  <2> QED
    BY <1>14, <2>1, <2>2, StepTyped DEF Review
<1>15. ASSUME NEW c \in Commands, Accept(c) PROVE TypeOK'
  <2>1. memories' \subseteq Memory
    <3>1. [origin |-> command[c].on, traced |-> TRUE, forgotten |-> FALSE, used |-> FALSE] \in Memory
      BY <1>15 DEF Accept, Memory
    <3> QED
      BY <1>15, <3>1 DEF Accept
  <2>2. review' \in [Items -> Status]
    BY <1>15 DEF Accept, Status
  <2> QED
    BY <1>15, <2>1, <2>2, StepTyped, IdleTyped DEF Accept
<1>16. ASSUME NEW c \in Commands, Decide(c) PROVE TypeOK'
  <2>1. command[c].decision \in Status
    BY DEF Command, Status
  <2> QED
    BY <1>16, <2>1, StepTyped, IdleTyped DEF Decide
<1>17. ASSUME NEW c \in Commands, Stop(c) PROVE TypeOK'
  BY <1>17, StepTyped, IdleTyped DEF Stop
<1> QED
  BY <1>1, <1>2, <1>3, <1>4, <1>5, <1>6, <1>7, <1>8, <1>9, <1>10, <1>11, <1>12, <1>13, <1>14,
     <1>15, <1>16, <1>17 DEF Next

-----------------------------------------------------------------------------
LEMMA DecidingHolds == ASSUME TypeOK, Deciding, [Next]_vars PROVE Deciding'
<1> USE DEF TypeOK, Deciding
<1>1. ASSUME UNCHANGED command PROVE Deciding'
  BY <1>1
<1>2. ASSUME NEW c \in Commands, NEW r, Step(c, r), r.at # "decide" PROVE Deciding'
  BY <1>2 DEF Step
<1>3. Idle.at # "decide"
  BY DEF Idle
<1>4. ASSUME NEW c \in Commands, Extract(c) \/ Suggest(c) PROVE Deciding'
  BY <1>2, <1>4 DEF Extract, Suggest, Idle
<1>5. ASSUME NEW c \in Commands, Ask(c) \/ Answer(c) \/ Misshapen(c) \/ Unanswered(c)
      PROVE  Deciding'
  BY <1>2, <1>3, <1>5 DEF Ask, Answer, Misshapen, Unanswered, Command
<1>6. ASSUME NEW c \in Commands, StoreFacts(c) PROVE Deciding'
  BY <1>3, <1>6 DEF StoreFacts, Command
<1>7. ASSUME NEW c \in Commands, Review(c) PROVE Deciding'
  BY <1>7 DEF Review, Step, Idle
<1>8. ASSUME NEW c \in Commands, StoreDraft(c) \/ Accept(c) \/ Decide(c) \/ Stop(c)
      PROVE  Deciding'
  BY <1>2, <1>3, <1>8 DEF StoreDraft, Accept, Decide, Stop
<1> QED
  BY <1>1, <1>4, <1>5, <1>6, <1>7, <1>8 DEF Next, vars, Derive, Dissolve, Configure, Forget

\* What changes memories without touching an origin or waking a forgotten one
\* keeps both indexes.
LEMMA Updated ==
    ASSUME Rows, NEW f, memories' = {f[m] : m \in memories},
           \A m \in memories : f[m].origin = m.origin /\ (m.forgotten => f[m].forgotten)
    PROVE  /\ \A m, n \in memories' : m.origin = n.origin => m = n
           /\ \A m, n \in memories' :
                 ~m.forgotten /\ ~n.forgotten /\ Key[m.origin[2]] = Key[n.origin[2]] => m = n
           /\ \A m \in memories' : \E n \in memories : m = f[n] /\ m.origin = n.origin
           /\ \A p : (\E m \in memories' : m.origin = p /\ m.traced)
                     <=> \E m \in memories : m.origin = p /\ f[m].traced
  <1>1. ASSUME NEW m \in memories, NEW n \in memories
        PROVE  /\ f[m].origin = f[n].origin => f[m] = f[n]
               /\ ~f[m].forgotten /\ ~f[n].forgotten
                  /\ Key[f[m].origin[2]] = Key[f[n].origin[2]] => f[m] = f[n]
    BY DEF Rows
  <1> QED
    BY <1>1

\* Every step keeps the rows consistent: foreign keys, indexes, and an accepted
\* proposal beside its one memory.
LEMMA ReviewedHolds == ASSUME Reviewed, [Next]_vars PROVE Reviewed'
<1>1. TypeOK' /\ Deciding'
  BY TypeHolds, DecidingHolds DEF Reviewed
<1> DEFINE Good == Rows /\ AcceptedIsRemembered
<1> USE DEF Reviewed, Rows, AcceptedIsRemembered
<1>2. ASSUME UNCHANGED <<conversations, review, memories>> PROVE Good'
  BY <1>2
<1>3. CASE UNCHANGED vars
  BY <1>1, <1>2, <1>3 DEF vars
<1>4. ASSUME NEW v \in Conversations, Derive(v) PROVE Good'
  BY <1>4 DEF Derive, TypeOK, Memory, Proposals
<1>5. ASSUME NEW v \in Conversations, Dissolve(v) PROVE Good'
  <2> DEFINE f == [m \in memories |-> IF m.origin[1] = v THEN [m EXCEPT !.traced = FALSE] ELSE m]
  <2>1. memories' = {f[m] : m \in memories}
    BY <1>5 DEF Dissolve
  <2>2. ASSUME NEW m \in memories
        PROVE  /\ f[m].origin = m.origin
               /\ m.forgotten => f[m].forgotten
               /\ f[m].traced <=> m.traced /\ m.origin[1] # v
    <3>1. m \in Memory
      BY DEF TypeOK
    <3> QED
      BY <3>1 DEF Memory
  <2>3. \A p \in Proposals : review'[p] = IF p[1] = v THEN "none" ELSE review[p]
    BY <1>5 DEF Dissolve, Cascaded, Items
  <2>4. conversations' = [conversations EXCEPT ![v] = "gone"]
    BY <1>5 DEF Dissolve
  <2>5. \A p \in Proposals : p[1] \in Conversations
    BY DEF Proposals
  <2>6. \A m \in memories : m.origin \in Proposals
    BY DEF TypeOK, Memory
  <2> HIDE DEF f
  <2>10. /\ \A m \in memories' : \E n \in memories : m = f[n] /\ m.origin = n.origin
         /\ \A p : (\E m \in memories' : m.origin = p /\ m.traced)
                   <=> \E m \in memories : m.origin = p /\ f[m].traced
    BY <2>1, <2>2, Updated
  <2>7. \A p \in Proposals : review'[p] # "none" => conversations'[p[1]] = "stored"
    BY <2>3, <2>4, <2>5 DEF TypeOK
  <2>8. \A m \in memories' : m.traced \/ conversations'[m.origin[1]] = "gone"
    <3> SUFFICES ASSUME NEW n \in memories
                 PROVE  f[n].traced \/ conversations'[n.origin[1]] = "gone"
      BY <2>10
    <3> QED
      BY <2>2, <2>4, <2>5, <2>6 DEF TypeOK
  <2>9. AcceptedIsRemembered'
    <3> SUFFICES ASSUME NEW p \in Proposals
                 PROVE  review'[p] = "accepted" <=> \E m \in memories : m.origin = p /\ f[m].traced
      BY <2>10
    <3> QED
      BY <2>2, <2>3
  <2> QED
    BY <2>1, <2>2, <2>7, <2>8, <2>9, Updated
<1>6. CASE Configure
  BY <1>1, <1>2, <1>6 DEF Configure
<1>7. ASSUME Forget PROVE Good'
  <2>1. PICK m \in memories :
           memories' = {IF n = m THEN [n EXCEPT !.forgotten = TRUE] ELSE n : n \in memories}
    BY <1>7 DEF Forget
  <2> DEFINE f == [n \in memories |-> IF n = m THEN [n EXCEPT !.forgotten = TRUE] ELSE n]
  <2>2. memories' = {f[n] : n \in memories}
    BY <2>1
  <2>3. ASSUME NEW n \in memories
        PROVE  /\ f[n].origin = n.origin
               /\ f[n].traced <=> n.traced
               /\ n.forgotten => f[n].forgotten
    <3>1. n \in Memory
      BY DEF TypeOK
    <3> QED
      BY <3>1 DEF Memory
  <2> HIDE DEF f
  <2>4. /\ \A n, o \in memories' : n.origin = o.origin => n = o
        /\ \A n, o \in memories' :
              ~n.forgotten /\ ~o.forgotten /\ Key[n.origin[2]] = Key[o.origin[2]] => n = o
        /\ \A n \in memories' : \E o \in memories : n = f[o] /\ n.origin = o.origin
        /\ \A p : (\E n \in memories' : n.origin = p /\ n.traced)
                  <=> \E n \in memories : n.origin = p /\ f[n].traced
    BY <2>2, <2>3, Updated
  <2>5. UNCHANGED <<conversations, review>>
    BY <1>7 DEF Forget
  <2>6. Rows'
    BY <2>3, <2>4, <2>5
  <2>7. AcceptedIsRemembered'
    BY <2>3, <2>4, <2>5
  <2> QED
    BY <2>6, <2>7
<1>8. ASSUME NEW c \in Commands, Suggest(c) PROVE Good'
  <2>1. PICK S \in SUBSET {m \in memories : ~m.forgotten} :
           memories' = {IF n \in S THEN [n EXCEPT !.used = TRUE] ELSE n : n \in memories}
    BY <1>8 DEF Suggest
  <2> DEFINE f == [n \in memories |-> IF n \in S THEN [n EXCEPT !.used = TRUE] ELSE n]
  <2>2. memories' = {f[n] : n \in memories}
    BY <2>1
  <2>3. ASSUME NEW n \in memories
        PROVE  /\ f[n].origin = n.origin
               /\ f[n].traced <=> n.traced
               /\ n.forgotten => f[n].forgotten
    <3>1. n \in Memory
      BY DEF TypeOK
    <3> QED
      BY <3>1 DEF Memory
  <2> HIDE DEF f
  <2>4. /\ \A m, n \in memories' : m.origin = n.origin => m = n
        /\ \A m, n \in memories' :
              ~m.forgotten /\ ~n.forgotten /\ Key[m.origin[2]] = Key[n.origin[2]] => m = n
        /\ \A n \in memories' : \E o \in memories : n = f[o] /\ n.origin = o.origin
        /\ \A p : (\E n \in memories' : n.origin = p /\ n.traced)
                  <=> \E n \in memories : n.origin = p /\ f[n].traced
    BY <2>2, <2>3, Updated
  <2>5. UNCHANGED <<conversations, review>>
    BY <1>8 DEF Suggest
  <2>6. Rows'
    BY <2>3, <2>4, <2>5
  <2>7. AcceptedIsRemembered'
    BY <2>3, <2>4, <2>5
  <2> QED
    BY <2>6, <2>7
<1>9. ASSUME NEW c \in Commands, StoreFacts(c) PROVE Good'
  BY <1>9 DEF StoreFacts, Insertable, TypeOK, Proposals, Items
<1>10. ASSUME NEW c \in Commands, StoreDraft(c) PROVE Good'
  BY <1>10, ReviewsAssumption DEF StoreDraft, TypeOK, Proposals, Items
<1>11. ASSUME NEW c \in Commands, Accept(c) PROVE Good'
  <2> DEFINE p == command[c].on
             new == [origin |-> p, traced |-> TRUE, forgotten |-> FALSE, used |-> FALSE]
  <2>1. p \in Proposals /\ review[p] = "pending" /\ review' = [review EXCEPT ![p] = "accepted"]
    BY <1>11 DEF Accept, Decidable
  <2>2. memories' = memories \cup {new} /\ UNCHANGED conversations
    BY <1>11 DEF Accept
  <2>3. /\ new.origin = p /\ new.traced /\ ~new.forgotten
        /\ \A m \in memories : m.origin # p
    <3>1. conversations[p[1]] = "stored"
      BY <2>1
    <3> QED
      BY <2>1, <3>1
  <2>4. \A m \in memories : ~m.forgotten => Key[m.origin[2]] # Key[p[2]]
    BY <1>11 DEF Accept, Remembered
  <2>5. Rows'
    <3> HIDE DEF new, p
    <3>1. \A q \in Proposals : review'[q] # "none" => conversations'[q[1]] = "stored"
      BY <2>1, <2>2 DEF TypeOK, Items
    <3>2. \A m \in memories' : m.traced \/ conversations'[m.origin[1]] = "gone"
      BY <2>2, <2>3
    <3>3. \A m, n \in memories' : m.origin = n.origin => m = n
      BY <2>2, <2>3
    <3>4. \A m, n \in memories' :
             ~m.forgotten /\ ~n.forgotten /\ Key[m.origin[2]] = Key[n.origin[2]] => m = n
      BY <2>2, <2>3, <2>4
    <3> QED
      BY <3>1, <3>2, <3>3, <3>4
  <2>6. AcceptedIsRemembered'
    <3> HIDE DEF new, p
    <3> QED
      BY <2>1, <2>2, <2>3 DEF TypeOK, Items
  <2> QED
    BY <2>5, <2>6
<1>12. ASSUME NEW c \in Commands, Decide(c) PROVE Good'
  <2>1. PICK i \in Items, s \in {"accepted", "declined"} :
           /\ review[i] = "pending" /\ review' = [review EXCEPT ![i] = s]
           /\ i \in Drafts \/ s = "declined"
    BY <1>12 DEF Decide, Decidable, Deciding
  <2> QED
    BY <1>12, <2>1, ReviewsAssumption DEF Decide, TypeOK, Items, Proposals
<1>13. ASSUME NEW c \in Commands,
              \/ Extract(c) \/ Ask(c) \/ Answer(c) \/ Misshapen(c) \/ Unanswered(c)
              \/ Review(c) \/ Stop(c)
       PROVE  Good'
  BY <1>2, <1>13 DEF Extract, Ask, Answer, Misshapen, Unanswered, Review, Stop
<1> QED
  BY <1>1, <1>3, <1>4, <1>5, <1>6, <1>7, <1>8, <1>9, <1>10, <1>11, <1>12, <1>13 DEF Next

-----------------------------------------------------------------------------
\* Every step keeps what an extraction has read current and what it keeps new.
LEMMA SeenHolds == ASSUME Reviewed, SeenIsCurrent, [Next]_vars PROVE SeenIsCurrent'
<1> DEFINE Known(c) == \A v \in Values :
                          review[<<command[c].on, v>>] # "none" => Comparable[v] \in command[c].seen
           New(c) == /\ \A v \in command[c].kept : Comparable[v] \notin command[c].seen
                     /\ \A v, w \in command[c].kept : Comparable[v] = Comparable[w] => v = w
<1>1. SeenIsCurrent <=> \A c \in Commands : Extracting(c) => (~command[c].stale => Known(c)) /\ New(c)
  BY DEF SeenIsCurrent
<1>2. SUFFICES ASSUME NEW d \in Commands, Extracting(d)'
               PROVE  ((~command[d].stale => Known(d)) /\ New(d))'
  BY DEF SeenIsCurrent
<1>3. /\ review \in [Items -> Status]
      /\ command \in [Commands -> Command]
      /\ \A v \in Conversations, x \in Values : <<v, x>> \in Items /\ <<v, x>> \in Proposals
  BY DEF Reviewed, TypeOK, Items, Proposals
\* A step that leaves command d alone and proposes nothing new for it.
<1>4. ASSUME command'[d] = command[d],
             \A v \in Conversations, x \in Values :
                review'[<<v, x>>] # "none" => review[<<v, x>>] # "none"
      PROVE  ((~command[d].stale => Known(d)) /\ New(d))'
  <2>1. Extracting(d)
    BY <1>2, <1>4 DEF Extracting
  <2> QED
    BY <1>1, <1>2, <1>4, <2>1 DEF Extracting
<1> HIDE DEF Known, New
<1>5. CASE UNCHANGED vars
  BY <1>4, <1>5 DEF vars
<1>6. ASSUME NEW v \in Conversations, Derive(v) PROVE ((~command[d].stale => Known(d)) /\ New(d))'
  BY <1>4, <1>6 DEF Derive
<1>7. ASSUME NEW v \in Conversations, Dissolve(v) PROVE ((~command[d].stale => Known(d)) /\ New(d))'
  BY <1>3, <1>4, <1>7 DEF Dissolve, Cascaded
<1>8. CASE Configure \/ Forget
  BY <1>4, <1>8 DEF Configure, Forget
<1>9. ASSUME NEW c \in Commands, command' = [command EXCEPT ![c] = Idle] PROVE c # d
  BY <1>2, <1>3, <1>9 DEF Extracting, Idle
<1>10. ASSUME NEW c \in Commands, Extract(c) PROVE ((~command[d].stale => Known(d)) /\ New(d))'
  <2>1. PICK v \in Conversations :
           command' = [command EXCEPT ![c] = [Idle EXCEPT !.at = "ask", !.on = v,
                                                          !.seen = AlreadyProposed(v)]]
    BY <1>10 DEF Extract, Step
  <2>2. CASE c = d
    <3>1. /\ command'[d].on = v /\ command'[d].seen = AlreadyProposed(v) /\ command'[d].kept = {}
      BY <1>3, <2>1, <2>2 DEF Idle
    <3>2. UNCHANGED review
      BY <1>10 DEF Extract
    <3> QED
      BY <3>1, <3>2 DEF AlreadyProposed, Known, New
  <2>3. CASE c # d
    BY <1>4, <1>10, <2>1, <2>3 DEF Extract
  <2> QED
    BY <2>2, <2>3
<1>11. ASSUME NEW c \in Commands, Suggest(c) PROVE ((~command[d].stale => Known(d)) /\ New(d))'
  <2>1. c # d
    BY <1>2, <1>3, <1>11, ReviewsAssumption DEF Suggest, Step, Extracting, Idle
  <2> QED
    BY <1>4, <1>11, <2>1 DEF Suggest, Step
<1>12. ASSUME NEW c \in Commands, Ask(c) \/ Misshapen(c) PROVE ((~command[d].stale => Known(d)) /\ New(d))'
  <2>1. UNCHANGED review
    BY <1>12 DEF Ask, Misshapen
  <2>2. PICK r : /\ command' = [command EXCEPT ![c] = r]
                 /\ \/ r = Idle
                    \/ r = [command[c] EXCEPT !.at = "asked"]
                    \/ r = [command[c] EXCEPT !.at = "ask", !.repaired = TRUE]
    BY <1>12 DEF Ask, Misshapen, Step
  <2>3. CASE c = d
    <3>1. command[d] \in Command /\ command'[d] = r
      BY <1>3, <2>2, <2>3
    <3>2. r # Idle
      BY <1>2, <3>1 DEF Extracting, Idle
    <3>3. /\ command'[d].on = command[d].on /\ command'[d].seen = command[d].seen
          /\ command'[d].kept = command[d].kept /\ command'[d].stale = command[d].stale
      BY <2>2, <2>3, <3>1, <3>2, ZenonT(40) DEF Command
    <3>4. command[d].at \in {"ask", "asked"}
      BY <1>12, <2>3 DEF Ask, Misshapen
    <3> QED
      BY <1>1, <1>2, <2>1, <3>3, <3>4 DEF Extracting, Known, New
  <2>4. CASE c # d
    <3>1. command'[d] = command[d]
      BY <1>3, <2>2, <2>4
    <3> QED
      BY <1>4, <2>1, <3>1
  <2> QED
    BY <2>3, <2>4
<1>13. ASSUME NEW c \in Commands, Answer(c) PROVE ((~command[d].stale => Known(d)) /\ New(d))'
  <2>1. PICK kept \in IF command[c].on = Chat THEN {{}} ELSE Sifted(command[c].seen) :
           command' = [command EXCEPT ![c] = [command[c] EXCEPT !.at = "store", !.kept = kept]]
    BY <1>13 DEF Answer, Step
  <2>2. UNCHANGED review
    BY <1>13 DEF Answer
  <2>3. CASE c = d
    <3>1. /\ command[d].at = "asked" /\ command'[d].kept = kept
          /\ command'[d].on = command[d].on /\ command'[d].seen = command[d].seen
          /\ command'[d].stale = command[d].stale
      BY <1>3, <1>13, <2>1, <2>3 DEF Answer, Command
    <3>2. /\ \A v \in kept : Comparable[v] \notin command[d].seen
          /\ \A v, w \in kept : Comparable[v] = Comparable[w] => v = w
      BY <2>1, <2>3 DEF Sifted
    <3> QED
      BY <1>1, <1>2, <2>2, <3>1, <3>2 DEF Extracting, Known, New
  <2>4. CASE c # d
    BY <1>4, <2>1, <2>2, <2>4
  <2> QED
    BY <2>3, <2>4
<1>14. ASSUME NEW c \in Commands, StoreFacts(c) PROVE ((~command[d].stale => Known(d)) /\ New(d))'
  <2> DEFINE v == command[c].on
             new == Insertable(v, command[c].kept)
  <2>1. c # d
    BY <1>2, <1>3, <1>14 DEF StoreFacts, Extracting, Idle
  <2>2. command'[d] = [command[d] EXCEPT !.stale = @ \/ (command[d].on = v /\ new # {})]
    BY <1>14, <2>1 DEF StoreFacts
  <2>3. /\ command'[d].at = command[d].at /\ command'[d].on = command[d].on
        /\ command'[d].seen = command[d].seen /\ command'[d].kept = command[d].kept
        /\ ~command'[d].stale => ~command[d].stale /\ (command[d].on # v \/ new = {})
    BY <1>3, <2>2, ZenonT(40) DEF Command
  <2>4. \A x \in Values : command[d].on # v \/ new = {} =>
           review'[<<command[d].on, x>>] = review[<<command[d].on, x>>]
    BY <1>2, <1>3, <1>14, <2>3 DEF StoreFacts, Insertable, Extracting
  <2>5. Extracting(d)
    BY <1>2, <2>3 DEF Extracting
  <2> HIDE DEF v, new
  <2> QED
    BY <1>1, <2>3, <2>4, <2>5 DEF Known, New
<1>15. ASSUME NEW c \in Commands, Unanswered(c) \/ Stop(c) \/ StoreDraft(c) \/ Accept(c) \/ Decide(c)
       PROVE  ((~command[d].stale => Known(d)) /\ New(d))'
  <2>1. c # d /\ command'[d] = command[d]
    BY <1>3, <1>9, <1>15 DEF Unanswered, Stop, StoreDraft, Accept, Decide, Step
  <2>2. \A p \in Proposals : review'[p] # "none" => review[p] # "none"
    BY <1>3, <1>15, ReviewsAssumption
       DEF Unanswered, Stop, StoreDraft, Accept, Decide, Decidable, Proposals
  <2> QED
    BY <1>3, <1>4, <2>1, <2>2
<1>16. ASSUME NEW c \in Commands, Review(c) PROVE ((~command[d].stale => Known(d)) /\ New(d))'
  <2>1. c # d
    BY <1>2, <1>3, <1>16 DEF Review, Step, Extracting, Idle
  <2> QED
    BY <1>4, <1>16, <2>1 DEF Review, Step
<1> QED
  BY <1>5, <1>6, <1>7, <1>8, <1>10, <1>11, <1>12, <1>13, <1>14, <1>15, <1>16 DEF Next

-----------------------------------------------------------------------------
\* What an extraction stores was not seen, so unless it is stale its fact is new
\* to the conversation.
LEMMA OfferedHolds ==
    ASSUME Reviewed, SeenIsCurrent, OfferedOnce, [Next]_vars
    PROVE  OfferedOnce'
<1>1. review \in [Items -> Status] /\ Proposals \subseteq Items
  BY DEF Reviewed, TypeOK, Items
<1>2. ASSUME overlapped \subseteq overlapped',
             \A p \in Proposals : review'[p] # "none" => review[p] # "none"
      PROVE  OfferedOnce'
  BY <1>2 DEF OfferedOnce
<1>3. ASSUME NEW c \in Commands, StoreFacts(c) PROVE OfferedOnce'
  <2> DEFINE v == command[c].on
             new == Insertable(v, command[c].kept)
  <2>1. /\ command[c].at = "store" /\ v \in Conversations
        /\ \A p \in Proposals : review'[p] = IF p \in new THEN "pending" ELSE review[p]
        /\ overlapped' = IF command[c].stale /\ new # {} THEN overlapped \cup {v} ELSE overlapped
    BY <1>1, <1>3 DEF StoreFacts
  <2>2. /\ \A p \in new : p[1] = v /\ p[2] \in command[c].kept
        /\ command[c].kept \subseteq Values
    BY <1>3 DEF Insertable, Reviewed, TypeOK, Command
  <2>3. Extracting(c)
    BY <2>1 DEF Extracting
  <2>4. \A x, y \in command[c].kept : Comparable[x] = Comparable[y] => x = y
    BY <2>3 DEF SeenIsCurrent
  <2>5. ~command[c].stale =>
           \A x \in command[c].kept, y \in Values :
              review[<<v, y>>] # "none" => Comparable[x] # Comparable[y]
    BY <2>3 DEF SeenIsCurrent
  <2> HIDE DEF v, new
  <2>6. \A p \in Proposals : p = <<p[1], p[2]>> /\ p[2] \in Values
    BY DEF Proposals
  <2>7. ASSUME NEW p \in Proposals, NEW q \in Proposals, p[1] = q[1], p[1] \notin overlapped',
               review'[p] # "none", review'[q] # "none", Comparable[p[2]] = Comparable[q[2]]
        PROVE  p = q
    <3>1. p[1] \notin overlapped /\ (p \in new \/ q \in new => ~command[c].stale)
      BY <2>1, <2>2, <2>7
    <3>2. CASE p \in new /\ q \in new
      BY <2>2, <2>4, <2>6, <2>7, <3>2
    <3>3. CASE p \in new /\ q \notin new
      BY <2>1, <2>2, <2>5, <2>6, <2>7, <3>1, <3>3
    <3>4. CASE p \notin new /\ q \in new
      BY <2>1, <2>2, <2>5, <2>6, <2>7, <3>1, <3>4
    <3>5. CASE p \notin new /\ q \notin new
      BY <2>1, <2>7, <3>1, <3>5 DEF OfferedOnce
    <3> QED
      BY <3>2, <3>3, <3>4, <3>5
  <2> QED
    BY <2>7 DEF OfferedOnce
<1>4. ASSUME NEW v \in Conversations, Dissolve(v) PROVE OfferedOnce'
  BY <1>1, <1>2, <1>4 DEF Dissolve, Cascaded
<1>5. ASSUME NEW c \in Commands, StoreDraft(c) \/ Accept(c) \/ Decide(c) PROVE OfferedOnce'
  BY <1>1, <1>2, <1>5, ReviewsAssumption DEF StoreDraft, Accept, Decide, Decidable, Proposals
<1>6. ASSUME UNCHANGED <<review, overlapped>> PROVE OfferedOnce'
  BY <1>2, <1>6
<1> QED
  BY <1>3, <1>4, <1>5, <1>6
     DEF Next, vars, Derive, Configure, Forget, Extract, Suggest, Ask, Answer, Misshapen, Unanswered,
         Review, Stop

\* What a step may do to a decision that was made.
Kept ==
    \A i \in Items : review[i] \in {"accepted", "declined"} =>
       \/ review'[i] = review[i]
       \/ i \in Proposals /\ conversations'[i[1]] = "gone"

\* No step takes a decision back but the end of its conversation.
LEMMA DecisionHolds == ASSUME TypeOK, Deciding, [Next]_vars PROVE Kept
<1> USE DEF Kept, TypeOK
<1>1. ASSUME UNCHANGED review PROVE Kept
  BY <1>1
<1>2. ASSUME NEW v \in Conversations, Dissolve(v) PROVE Kept
  <2>1. conversations'[v] = "gone"
    BY <1>2 DEF Dissolve
  <2> QED
    BY <1>2, <2>1 DEF Dissolve, Cascaded
<1>3. ASSUME NEW c \in Commands, StoreFacts(c) PROVE Kept
  BY <1>3 DEF StoreFacts, Insertable
<1>4. ASSUME NEW c \in Commands, StoreDraft(c) PROVE Kept
  BY <1>4 DEF StoreDraft, Items
<1>5. ASSUME NEW c \in Commands, Accept(c) \/ Decide(c) PROVE Kept
  BY <1>5 DEF Accept, Decide, Decidable
<1> QED
  BY <1>1, <1>2, <1>3, <1>4, <1>5
     DEF Next, vars, Derive, Configure, Forget, Extract, Suggest, Ask, Answer, Misshapen, Unanswered,
         Review, Stop

-----------------------------------------------------------------------------
\* Everything above, of every reachable state.
LEMMA Invariant == Spec => [](Reviewed /\ SeenIsCurrent /\ OfferedOnce)
<1>1. Reviewed /\ SeenIsCurrent /\ OfferedOnce /\ [Next]_vars
      => (Reviewed /\ SeenIsCurrent /\ OfferedOnce)'
  BY ReviewedHolds, SeenHolds, OfferedHolds
<1> QED
  BY Initially, <1>1, PTL DEF Spec

\* Rows, commands and statuses have the shapes the schema and the domain give them.
THEOREM ReviewsTypeCorrect == Spec => []TypeOK
<1>1. Reviewed => TypeOK
  BY DEF Reviewed
<1> QED
  BY Invariant, <1>1, PTL

\* memory_review.py: however many commands accept, decline, forget and re-segment
\* beside each other, and wherever any of them ends, an accepted proposal that is
\* still there has its memory, and a memory with a trail was accepted.
THEOREM AcceptanceIsMemory == Spec => []AcceptedIsRemembered
<1>1. Reviewed => AcceptedIsRemembered
  BY DEF Reviewed
<1> QED
  BY Invariant, <1>1, PTL

\* memory.py, _sift and the unique index: a fact is proposed once for a
\* conversation, unless two extractions of it overlapped.
THEOREM OneOffer == Spec => []OfferedOnce
  BY Invariant, PTL

\* decide, the conditional update: the first decision counts.
THEOREM OneDecision == Spec => DecidedOnce
<1>1. Reviewed /\ [Next]_vars => [Kept]_vars
  BY DecisionHolds DEF Reviewed
<1> QED
  BY Invariant, <1>1, PTL DEF Spec, DecidedOnce, Kept
=============================================================================
