------------------------------- MODULE Request -------------------------------
(****************************************************************************)
(* How a node sends a request to the nodes of a channel                     *)
(* (sidecar/cluster.go): AskOne takes the next id of the channel's bucket   *)
(* round robin, AskAll takes all of them, Specify names one.  Many          *)
(* goroutines ask while cluster.Run replaces the bucket.                    *)
(*                                                                          *)
(* A bucket is never changed but for its cursor, which the askers advance   *)
(* with an atomic addition and reset with an atomic store.                  *)
(****************************************************************************)
EXTENDS Integers, FiniteSets, SequencesExt

CONSTANTS
  Askers,      \* goroutines
  Ids,         \* machine ids
  FirstSets,   \* the ids of the first bucket, in order
  MaxBuckets,  \* bound: buckets ever made
  Dying        \* the ids whose session may stop and start accepting frames

ASSUME ConstantsAssumption ==
  /\ IsFiniteSet(Askers) /\ IsFiniteSet(Ids)
  /\ FirstSets \in Seq(Ids) /\ FirstSets # <<>>
  /\ MaxBuckets \in Nat \ {0}
  /\ Dying \subseteq Ids

Nil == 0
Buckets == 1 .. MaxBuckets

VARIABLES
  channel,   \* c.channels[ch]: the current bucket, or Nil
  made,      \* buckets made so far
  sets,      \* the ids of a bucket
  cursor,    \* the low half of a bucket's cursorAndLenght
  accepts,   \* ids with a session whose WriteFrameDataToCache returns nil
  pc, my,    \* an asker: control point, its bucket
  at,        \* an asker: its position in the bucket
  got,       \* an asker: who accepted the frame of its last request
  picked,    \* history: position of the last pick in a bucket, or -1
  asked,     \* history: the askers that have begun a request
  due        \* history: the ids an AskAll found in its bucket and that have
             \* accepted frames ever since

bucketVars == <<channel, made, sets>>
askVars == <<pc, my, at, got, asked>>
vars == <<bucketVars, cursor, accepts, askVars, picked, due>>

Init ==
  /\ channel = 1 /\ made = 1
  /\ sets = [b \in Buckets |-> IF b = 1 THEN FirstSets ELSE <<>>]
  /\ cursor = [b \in Buckets |-> 0]
  /\ accepts = Ids
  /\ pc = [a \in Askers |-> "idle"]
  /\ my = [a \in Askers |-> Nil]
  /\ at = [a \in Askers |-> 0]
  /\ got = [a \in Askers |-> <<>>]
  /\ picked = [b \in Buckets |-> -1]
  /\ asked = {}
  /\ due = [a \in Askers |-> {}]

----------------------------------------------------------------------------
(* cluster.Run: channel events                                              *)

Current == IF channel = Nil THEN <<>> ELSE sets[channel]

\* bucket.remove drops the first occurrence.
Without(s, id) ==
  IF id \in Range(s)
  THEN RemoveAt(s, CHOOSE i \in DOMAIN s :
                     s[i] = id /\ \A j \in 1 .. i - 1 : s[j] # id)
  ELSE s

Install_SharedArray(s) ==
  /\ made < MaxBuckets
  /\ made' = made + 1
  /\ sets' = [b \in Buckets |-> CASE b = made' -> s
                                 [] b = channel /\ Len(s) < Len(sets[b])
                                      -> Append(s, Last(sets[b]))
                                 [] OTHER -> sets[b]]
  /\ channel' = IF s = <<>> THEN Nil ELSE made'
  /\ UNCHANGED <<cursor, accepts, askVars, picked, due>>

\* newBucket makes an array and base is copied into it: the bucket that is
\* replaced keeps its ids.
Install(s) ==
  /\ made < MaxBuckets
  /\ made' = made + 1
  /\ sets' = [sets EXCEPT ![made'] = s]
  /\ channel' = IF s = <<>> THEN Nil ELSE made'
  /\ UNCHANGED <<cursor, accepts, askVars, picked, due>>

AddId(id) == Install(Append(Current, id))

RemoveId(id) == channel # Nil /\ Install(Without(Current, id))

\* The session of id is closed or taken out of the table.
SessionDies(id) ==
  /\ id \in accepts \cap Dying
  /\ accepts' = accepts \ {id}
  /\ due' = [a \in Askers |-> due[a] \ {id}]
  /\ UNCHANGED <<bucketVars, cursor, askVars, picked>>

\* It accepts frames again, or the node has come back with another session.
SessionLives(id) ==
  /\ id \in Dying \ accepts
  /\ accepts' = accepts \cup {id}
  /\ UNCHANGED <<bucketVars, cursor, askVars, picked, due>>

----------------------------------------------------------------------------
(* The askers                                                               *)

Goto(a, l) == pc' = [pc EXCEPT ![a] = l]

\* Loads the bucket; without one errFunc is called.
Begin(a, l) ==
  /\ pc[a] = "idle"
  /\ asked' = asked \cup {a}
  /\ my' = [my EXCEPT ![a] = channel]
  /\ at' = [at EXCEPT ![a] = 0]
  /\ got' = [got EXCEPT ![a] = <<>>]
  /\ due' = [due EXCEPT ![a] = IF l = "all" THEN Range(Current) \cap accepts ELSE {}]
  /\ Goto(a, IF channel = Nil THEN "idle" ELSE l)
  /\ UNCHANGED <<bucketVars, cursor, accepts, picked>>

AskOne(a) == Begin(a, "next")
AskAll(a) == Begin(a, "all")

Lenght(a) == Len(sets[my[a]])

Wraps_OneLate(a, c) == c > Lenght(a)

Wraps_OneEarly(a, c) == c >= Lenght(a) - 1

\* cursor >= lenght
Wraps(a, c) == c >= Lenght(a)

\* bucket.next: AddUint64(&cursorAndLenght, 1) ...
Next1(a) ==
  /\ pc[a] = "next"
  /\ cursor' = [cursor EXCEPT ![my[a]] = @ + 1]
  /\ at' = [at EXCEPT ![a] = cursor'[my[a]]]
  /\ Goto(a, IF Wraps(a, cursor'[my[a]]) THEN "wrap" ELSE "pick")
  /\ UNCHANGED <<bucketVars, accepts, my, got, asked, picked, due>>

FirstCursor_MinusOne == -1

\* The cursor a round starts with.
FirstCursor == 0

Stored_One(a) == 1

\* StoreUint64(&b.cursorAndLenght, d)
Stored(a) == FirstCursor

\* ... and the reset of the cursor.
Next2(a) ==
  /\ pc[a] = "wrap"
  /\ cursor' = [cursor EXCEPT ![my[a]] = Stored(a)]
  /\ at' = [at EXCEPT ![a] = FirstCursor]
  /\ Goto(a, "pick")
  /\ UNCHANGED <<bucketVars, accepts, my, got, asked, picked, due>>

Id(a) == sets[my[a]][at[a] + 1]

\* The first session that accepts the frame ends AskOne.  count is declared
\* inside the loop, so it is 1 whenever it is compared with the length.
Pick(a) ==
  /\ pc[a] = "pick"
  /\ picked' = [picked EXCEPT ![my[a]] = at[a]]
  /\ \/ /\ Id(a) \in accepts
        /\ got' = [got EXCEPT ![a] = Append(@, Id(a))]
        /\ Goto(a, "idle")
     \/ /\ Id(a) \notin accepts
        /\ Goto(a, IF 1 > Lenght(a) THEN "idle" ELSE "next")
        /\ UNCHANGED got
  /\ UNCHANGED <<bucketVars, cursor, accepts, my, at, asked, due>>

\* AskAll goes through the bucket it loaded; a missing session is skipped.
After(a) == at[a] + 1

AllStep(a) ==
  /\ pc[a] = "all"
  /\ at' = [at EXCEPT ![a] = After(a)]
  /\ got' = [got EXCEPT ![a] = IF Id(a) \in accepts THEN Append(@, Id(a)) ELSE @]
  /\ Goto(a, IF After(a) < Lenght(a) THEN "all" ELSE "idle")
  /\ UNCHANGED <<bucketVars, cursor, accepts, my, asked, picked, due>>

\* Specify asks the session of one id.
Specify(a, id) ==
  /\ pc[a] = "idle"
  /\ asked' = asked \cup {a}
  /\ my' = [my EXCEPT ![a] = Nil]
  /\ due' = [due EXCEPT ![a] = {}]
  /\ got' = [got EXCEPT ![a] = IF id \in accepts THEN <<id>> ELSE <<>>]
  /\ UNCHANGED <<bucketVars, cursor, accepts, pc, at, picked>>

----------------------------------------------------------------------------

Ask(a) == Next1(a) \/ Next2(a) \/ Pick(a) \/ AllStep(a)

Next ==
  \/ \E id \in Ids : AddId(id) \/ RemoveId(id) \/ SessionDies(id) \/ SessionLives(id)
  \/ \E a \in Askers :
       \/ AskOne(a) \/ AskAll(a) \/ Ask(a)
       \/ \E id \in Ids : Specify(a, id)

Spec == Init /\ [][Next]_vars

\* A goroutine that asks goes on.
FairSpec == Spec /\ \A a \in Askers : WF_vars(Ask(a))

----------------------------------------------------------------------------
(* Properties                                                               *)

\* Every variable stays in its type.
TypeOK ==
  /\ channel \in Buckets \cup {Nil}
  /\ made \in Buckets
  /\ sets \in [Buckets -> Seq(Ids)]
  /\ cursor \in [Buckets -> Nat]
  /\ accepts \subseteq Ids
  /\ pc \in [Askers -> {"idle", "next", "wrap", "pick", "all"}]
  /\ my \in [Askers -> Buckets \cup {Nil}]
  /\ at \in [Askers -> Nat]
  /\ got \in [Askers -> Seq(Ids)]
  /\ picked \in [Buckets -> Int]
  /\ asked \subseteq Askers
  /\ due \in [Askers -> SUBSET Ids]

\* b.sets[cursor] is never out of range, however additions and resets of the
\* shared cursor interleave; and the cursor runs past the length by at most one per
\* asker, so it never reaches the length kept in the upper half of the word.
IndexInRange ==
  /\ \A a \in Askers : pc[a] \in {"pick", "all"} => at[a] < Lenght(a)
  /\ \A b \in Buckets : cursor[b] <= Len(sets[b]) + Cardinality(Askers)

\* A request names nodes of the bucket it loaded, each entry at most once; and
\* an AskAll that has returned has passed over none of them that was there to take
\* the frame all the while, although cluster.Run replaces the bucket under it.
SentToBucket ==
  \A a \in Askers :
    /\ my[a] # Nil =>
         \A id \in Ids : Cardinality({i \in DOMAIN got[a] : got[a][i] = id}) <=
                          Cardinality({i \in DOMAIN sets[my[a]] : sets[my[a]][i] = id})
    /\ pc[a] = "idle" => due[a] \subseteq Range(got[a])

\* A goroutine gets the nodes in turn as long as no other has asked.
RoundRobin ==
  [][\A a \in Askers :
       Pick(a) /\ picked[my[a]] # -1 /\ asked = {a}
         => picked'[my[a]] = (picked[my[a]] + 1) % Lenght(a)]_vars

\* The goroutines that are in AskOne with a bucket.
Asking(b) == {a \in Askers : my[a] = b /\ pc[a] \in {"next", "wrap", "pick"}}

\* While a node of a bucket accepts frames the AskOnes of that bucket never all
\* go round for ever: some request comes back, however often the others ask and
\* push the cursor that all share.
AskReturns ==
  \A A \in SUBSET Askers \ {{}}, b \in Buckets, id \in Ids :
    LET Stuck == Asking(b) = A /\ id \in Range(sets[b]) \cap accepts
    IN  Stuck ~> ~Stuck

\* Each AskOne comes back while a node of its bucket accepts frames.  It need not:
\* with <<dead, alive>> another goroutine may take the live node each time and leave
\* the dead one to this.
EachReturns ==
  \A a \in Askers :
    (pc[a] = "next") ~> (pc[a] = "idle" \/ Range(sets[my[a]]) \cap accepts = {})

\* A request comes back: it finds a session, or reports that there is none.
AskReports == \A a \in Askers : (pc[a] = "next") ~> (pc[a] = "idle")
=============================================================================
