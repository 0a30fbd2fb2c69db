--------------------------- MODULE FirewallProofs ---------------------------
(* Theorems about the network's state, bans and permissions on their way    *)
(* from the control panel and the master timer to the VPN gateway, and      *)
(* about the rules of the registered teams in its firewall, for every       *)
(* number of teams, ticks, commands and lost connections.                   *)
EXTENDS Firewall, FoldTheorems, TLAPS

-----------------------------------------------------------------------------
(* The inductive invariant.                                                *)

(* The types of the variables the theorems are about.                      *)
TypeInv ==
  /\ net \in [state: NetStates \cup {"unset"}, banned: SUBSET Teams, until: [Teams -> 0..MaxTick],
              allowed: SUBSET Teams]
  /\ todo \in [Writers -> Seq(Commands)]
  /\ tick \in 0..MaxTick
  /\ gate \in {"connect", "default", "read banned", "read permissions", "subscribe", "listen", "apply"}
  /\ man \in [state: NetStates, banned: SUBSET Teams, allowed: SUBSET Teams]
  /\ queue \in Seq(Commands)
  /\ raced \in BOOLEAN /\ missed \in BOOLEAN /\ tooLate \subseteq Teams

(* The command that follows a write in its operation.                      *)
After(do) ==
  CASE do = "set state" -> "state"
    [] do = "sadd banned" -> "set until"
    [] do = "set until" -> "ban"
    [] do = "srem banned" -> "del until"
    [] do = "del until" -> "unban"
    [] do = "sadd permissions" -> "add_permission"
    [] do = "srem permissions" -> "remove_permission"
Inner == Announcements \cup {"set until", "del until"}
Permissions == {"sadd permissions", "srem permissions", "add_permission", "remove_permission"}
OnTeams == (Writes \cup Announcements) \ {"set state", "state"}

(* What a writer has yet to send: every write is followed by the next      *)
(* command of its operation, which follows nothing else.                   *)
Ordered(q) ==
  /\ \A i \in 1..Len(q) : q[i].do \in OnTeams => \E t \in Teams : q[i].teams = {t}
  /\ \A i \in 1..Len(q) : q[i].do \in Writes =>
       /\ i < Len(q) /\ q[i + 1].do = After(q[i].do)
       /\ q[i + 1].teams = q[i].teams /\ q[i + 1].state = q[i].state
  /\ \A i \in 1..Len(q) : i < Len(q) /\ q[i + 1].do \in Inner => q[i].do \in Writes

(* The commands of a sequence; a sequence that begins with an operation.   *)
Elems(q) == {q[i] : i \in 1..Len(q)}
Fresh(q) == q = <<>> \/ Head(q).do \notin Inner

(* The timer does not touch permissions; writers that did not race took    *)
(* turns.                                                                  *)
TodoInv ==
  /\ \A w \in Writers : Ordered(todo[w])
  /\ \A c \in Elems(todo["timer"]) : c.do \notin Permissions
  /\ ~raced => todo["panel"] = <<>> \/ todo["timer"] = <<>>

(* The gateway has no announcements before it subscribes, and then only    *)
(* announcements.                                                          *)
QueueInv ==
  /\ ~Subscribed => queue = <<>>
  /\ \A c \in Elems(queue) : c.do \in Announcements

OrderInv == TodoInv /\ QueueInv

(* The next command of writer w is one of dos, and about team t.           *)
Next1(w, dos) == todo[w] # <<>> /\ Head(todo[w]).do \in dos
NextOn(w, dos, t) == Next1(w, dos) /\ Head(todo[w]).teams = {t}

(* The last announcement in q that concerns the state, or whether team t   *)
(* is in a set, decides; without one it is what it was.                    *)
StateAfter(q, s, v) ==
  \/ s = v /\ \A i \in 1..Len(q) : q[i].do # "state"
  \/ \E i \in 1..Len(q) : /\ q[i].do = "state" /\ q[i].state = v
                          /\ \A j \in 1..Len(q) : j > i => q[j].do # "state"
Concerns(c, t, add, del) == c.do \in {add, del} /\ t \in c.teams
MemberAfter(q, S, t, add, del) ==
  \/ t \in S /\ \A i \in 1..Len(q) : ~Concerns(q[i], t, add, del)
  \/ \E i \in 1..Len(q) : /\ q[i].do = add /\ t \in q[i].teams
                          /\ \A j \in 1..Len(q) : j > i => ~Concerns(q[j], t, add, del)

(* The gateway has read a key, and missed nothing since.                   *)
HasState == gate # "connect" /\ ~missed
HasBanned == gate \in {"read permissions", "subscribe", "listen", "apply"} /\ ~missed
HasAllowed == gate \in {"subscribe", "listen", "apply"} /\ ~missed

(* A key that was written and not announced has the value that will be     *)
(* announced; any other will be known when the announcements are handled.  *)
StateInv ==
  ~raced =>
    /\ \A w \in Writers : Next1(w, {"state"}) => net.state = Head(todo[w]).state
    /\ HasState /\ (\A w \in Writers : ~Next1(w, {"state"})) =>
         \/ StateAfter(queue, man.state, net.state)
         \/ gate = "default" /\ net.state = "unset" /\ man.state = "off"

BannedInv ==
  ~raced => \A t \in Teams :
    /\ \A w \in Writers : NextOn(w, {"set until", "ban"}, t) => t \in net.banned
    /\ \A w \in Writers : NextOn(w, {"del until", "unban"}, t) => t \notin net.banned
    /\ HasBanned /\ (\A w \in Writers : ~NextOn(w, {"set until", "ban", "del until", "unban"}, t)) =>
         (MemberAfter(queue, man.banned, t, "ban", "unban") <=> t \in net.banned)

AllowedInv ==
  \A t \in Teams :
    /\ NextOn("panel", {"add_permission"}, t) => t \in net.allowed
    /\ NextOn("panel", {"remove_permission"}, t) => t \notin net.allowed
    /\ HasAllowed /\ ~NextOn("panel", {"add_permission", "remove_permission"}, t) =>
         (MemberAfter(queue, man.allowed, t, "add_permission", "remove_permission") <=> t \in net.allowed)

(* A ban until now is one that the panel is replacing, or that the timer   *)
(* is about to find or to lift.                                            *)
LiftsBan(c, t) ==
  \/ c.do = "smembers"
  \/ c.do = "look" /\ t \in c.teams
  \/ c.do = "srem banned" /\ c.teams = {t}
UntilInv ==
  ~raced =>
    /\ \A c \in Elems(todo["panel"]) :
         c.do = "set until" => c.until = 0 \/ c.until > tick \/ c.teams \subseteq tooLate
    /\ \A c \in Elems(todo["timer"]) : c.do # "set until"
    /\ \A t \in net.banned \ tooLate :
         \/ net.until[t] = 0 \/ net.until[t] > tick
         \/ \E c \in Elems(todo["panel"]) : c.do = "set until" /\ c.teams = {t}
         \/ net.until[t] = tick /\ \E c \in Elems(todo["timer"]) : LiftsBan(c, t)

FirewallInv == TypeInv /\ OrderInv /\ StateInv /\ BannedInv /\ AllowedInv /\ UntilInv
-----------------------------------------------------------------------------
(* Sequences.                                                              *)

(* The first element of a sequence and the others.                         *)
LEMMA TailFacts ==
  ASSUME NEW S, NEW q \in Seq(S), q # <<>>
  PROVE  /\ Tail(q) \in Seq(S) /\ Head(q) = q[1] /\ Head(q) \in S
         /\ Len(q) \in Nat \ {0} /\ Len(Tail(q)) = Len(q) - 1
         /\ \A i \in 1..Len(Tail(q)) : Tail(q)[i] = q[i + 1]
OBVIOUS

(* A sequence with one more element at its front.                          *)
LEMMA PrependFacts ==
  ASSUME NEW S, NEW c \in S, NEW q \in Seq(S)
  PROVE  /\ <<c>> \o q \in Seq(S) /\ Len(<<c>> \o q) = Len(q) + 1 /\ Len(q) \in Nat
         /\ (<<c>> \o q)[1] = c /\ \A i \in 1..Len(q) : (<<c>> \o q)[i + 1] = q[i]
OBVIOUS

(* A sequence with one more element at its end.                            *)
LEMMA AppendFacts ==
  ASSUME NEW S, NEW c \in S, NEW q \in Seq(S)
  PROVE  /\ Append(q, c) \in Seq(S) /\ Len(Append(q, c)) = Len(q) + 1 /\ Len(q) \in Nat
         /\ Append(q, c)[Len(q) + 1] = c /\ \A i \in 1..Len(q) : Append(q, c)[i] = q[i]
OBVIOUS

(* Two sequences with the same elements are the same.                      *)
LEMMA SeqExt ==
  ASSUME NEW S, NEW s \in Seq(S), NEW t \in Seq(S), Len(s) = Len(t), \A i \in 1..Len(s) : s[i] = t[i]
  PROVE  s = t
OBVIOUS

(* One element, and then two, before a sequence.                          *)
LEMMA FrontTwo ==
  ASSUME NEW a \in Commands, NEW b \in Commands, NEW q \in Seq(Commands)
  PROVE  <<a>> \o (<<b>> \o q) = <<a, b>> \o q
<1> DEFINE r == <<b>> \o q
           u == <<a>> \o r
           v == <<a, b>> \o q
<1>1. r \in Seq(Commands) /\ Len(r) = Len(q) + 1 /\ r[1] = b /\ \A i \in 1..Len(q) : r[i + 1] = q[i]
  OBVIOUS
<1>2. v \in Seq(Commands) /\ Len(v) = Len(q) + 2 /\ v[1] = a /\ v[2] = b /\ \A i \in 1..Len(q) : v[i + 2] = q[i]
  OBVIOUS
<1>3. Len(q) \in Nat
  OBVIOUS
<1> HIDE DEF r
<1>4. u \in Seq(Commands) /\ Len(u) = Len(r) + 1 /\ u[1] = a /\ \A i \in 1..Len(r) : u[i + 1] = r[i]
  BY <1>1
<1> HIDE DEF u, v
<1>5. ASSUME NEW i \in 1..Len(u) PROVE u[i] = v[i]
  <2>1. CASE i = 1 \/ i = 2
    BY <2>1, <1>1, <1>2, <1>3, <1>4
  <2>2. CASE i > 2
    <3>1. PICK j \in 1..Len(q) : i = j + 2
      <4>1. i - 2 \in 1..Len(q) /\ i = (i - 2) + 2
        BY <2>2, <1>1, <1>3, <1>4
      <4> QED
        BY <4>1
    <3>2. u[i] = r[j + 1] /\ r[j + 1] = q[j] /\ v[i] = q[j]
      <4>1. j + 1 \in 1..Len(r) /\ i = (j + 1) + 1
        BY <3>1, <1>1, <1>3
      <4> QED
        BY <3>1, <4>1, <1>1, <1>2, <1>4
    <3> QED
      BY <3>2
  <2> QED
    BY <2>1, <2>2
<1>6. Len(u) = Len(v)
  BY <1>1, <1>2, <1>3, <1>4
<1>7. u = v
  BY <1>2, <1>4, <1>5, <1>6, SeqExt
<1> QED
  BY <1>7 DEF u, v, r

(* Two elements, and then three, before a sequence.                       *)
LEMMA FrontThree ==
  ASSUME NEW a \in Commands, NEW b \in Commands, NEW c \in Commands, NEW q \in Seq(Commands)
  PROVE  <<a, b>> \o (<<c>> \o q) = <<a, b, c>> \o q
<1> DEFINE r == <<c>> \o q
           u == <<a, b>> \o r
           v == <<a, b, c>> \o q
<1>1. r \in Seq(Commands) /\ Len(r) = Len(q) + 1 /\ r[1] = c /\ \A i \in 1..Len(q) : r[i + 1] = q[i]
  OBVIOUS
<1>2. v \in Seq(Commands) /\ Len(v) = Len(q) + 3 /\ v[1] = a /\ v[2] = b /\ v[3] = c /\ \A i \in 1..Len(q) : v[i + 3] = q[i]
  OBVIOUS
<1>3. Len(q) \in Nat
  OBVIOUS
<1> HIDE DEF r
<1>4. u \in Seq(Commands) /\ Len(u) = Len(r) + 2 /\ u[1] = a /\ u[2] = b /\ \A i \in 1..Len(r) : u[i + 2] = r[i]
  BY <1>1
<1> HIDE DEF u, v
<1>5. ASSUME NEW i \in 1..Len(u) PROVE u[i] = v[i]
  <2>1. CASE i = 1 \/ i = 2 \/ i = 3
    BY <2>1, <1>1, <1>2, <1>3, <1>4
  <2>2. CASE i > 3
    <3>1. PICK j \in 1..Len(q) : i = j + 3
      <4>1. i - 3 \in 1..Len(q) /\ i = (i - 3) + 3
        BY <2>2, <1>1, <1>3, <1>4
      <4> QED
        BY <4>1
    <3>2. u[i] = r[j + 1] /\ r[j + 1] = q[j] /\ v[i] = q[j]
      <4>1. j + 1 \in 1..Len(r) /\ i = (j + 1) + 2
        BY <3>1, <1>1, <1>3
      <4> QED
        BY <3>1, <4>1, <1>1, <1>2, <1>4
    <3> QED
      BY <3>2
  <2> QED
    BY <2>1, <2>2
<1>6. Len(u) = Len(v)
  BY <1>1, <1>2, <1>3, <1>4
<1>7. u = v
  BY <1>2, <1>4, <1>5, <1>6, SeqExt
<1> QED
  BY <1>7 DEF u, v, r

(* An empty sequence has no elements.                                      *)
LEMMA EmptyFacts ==
  ASSUME NEW S, NEW q \in Seq(S)
  PROVE  Len(q) \in Nat /\ (q = <<>> <=> Len(q) = 0)
OBVIOUS

(* The elements of a sequence and of its tail, of a longer sequence, and   *)
(* of the empty one.                                                       *)
LEMMA ElemsTail ==
  ASSUME NEW S, NEW q \in Seq(S), q # <<>>
  PROVE  Elems(q) = {Head(q)} \cup Elems(Tail(q)) /\ Elems(q) \subseteq S
<1> DEFINE r == Tail(q)
<1>1. /\ Head(q) = q[1] /\ Len(q) \in Nat \ {0} /\ Len(r) = Len(q) - 1
      /\ \A i \in 1..Len(r) : r[i] = q[i + 1] /\ i + 1 \in 1..Len(q)
  BY TailFacts
<1> HIDE DEF r
<1>2. \A i \in 1..Len(q) : i = 1 \/ (i - 1 \in 1..Len(r) /\ q[i] = r[i - 1])
  <2> TAKE i \in 1..Len(q)
  <2> SUFFICES ASSUME i # 1 PROVE i - 1 \in 1..Len(r) /\ q[i] = r[i - 1]
    OBVIOUS
  <2>1. i - 1 \in 1..Len(r) /\ (i - 1) + 1 = i
    BY <1>1
  <2> QED
    BY <1>1, <2>1
<1>3. ASSUME NEW x \in Elems(q) PROVE x \in {Head(q)} \cup Elems(r)
  <2>1. PICK i \in 1..Len(q) : x = q[i]
    BY DEF Elems
  <2> QED
    BY <1>1, <1>2, <2>1 DEF Elems
<1>4. ASSUME NEW x \in {Head(q)} \cup Elems(r) PROVE x \in Elems(q)
  <2>1. CASE x = Head(q)
    <3>1. 1 \in 1..Len(q)
      BY <1>1
    <3> QED
      BY <1>1, <2>1, <3>1 DEF Elems
  <2>2. CASE x \in Elems(r)
    <3>1. PICK i \in 1..Len(r) : x = r[i]
      BY <2>2 DEF Elems
    <3> QED
      BY <1>1, <3>1 DEF Elems
  <2> QED
    BY <2>1, <2>2
<1>5. Elems(q) \subseteq S
  BY DEF Elems
<1> QED
  BY <1>3, <1>4, <1>5 DEF r

(* The elements with one more at the front.                                *)
LEMMA ElemsPrepend ==
  ASSUME NEW S, NEW c \in S, NEW q \in Seq(S)
  PROVE  Elems(<<c>> \o q) = {c} \cup Elems(q)
<1> DEFINE s == <<c>> \o q
<1>1. s \in Seq(S) /\ s # <<>> /\ Head(s) = c /\ Tail(s) = q
  <2>1. s \in Seq(S) /\ s # <<>> /\ Head(s) = c /\ Tail(s) \in Seq(S)
    OBVIOUS
  <2>2. Len(Tail(s)) = Len(q) /\ \A i \in 1..Len(q) : Tail(s)[i] = q[i]
    OBVIOUS
  <2> HIDE DEF s
  <2> QED
    BY <2>1, <2>2, SeqExt
<1> HIDE DEF s
<1>2. Elems(s) = {Head(s)} \cup Elems(Tail(s))
  BY <1>1, ElemsTail
<1> QED
  BY <1>1, <1>2 DEF s

(* The empty sequence has none.                                            *)
LEMMA ElemsEmpty == Elems(<<>>) = {}
BY DEF Elems

(* The elements with one more at the end.                                  *)
LEMMA ElemsAppend ==
  ASSUME NEW S, NEW c \in S, NEW q \in Seq(S)
  PROVE  Elems(Append(q, c)) = Elems(q) \cup {c}
<1> DEFINE s == Append(q, c)
<1>1. Len(s) = Len(q) + 1 /\ Len(q) \in Nat /\ s[Len(q) + 1] = c /\ \A i \in 1..Len(q) : s[i] = q[i]
  BY AppendFacts
<1> HIDE DEF s
<1>2. Elems(s) = Elems(q) \cup {c}
  BY <1>1 DEF Elems
<1> QED
  BY <1>2 DEF s

-----------------------------------------------------------------------------
(* Commands.                                                               *)

(* A command and its fields.                                               *)
LEMMA CmdType ==
  ASSUME NEW do \in Writes \cup Announcements \cup {"smembers", "look"}, NEW v \in NetStates,
         NEW ts \in SUBSET Teams, NEW n \in 0..MaxTick
  PROVE  /\ Cmd(do, v, ts, n) \in Commands
         /\ Cmd(do, v, ts, n).do = do /\ Cmd(do, v, ts, n).state = v
         /\ Cmd(do, v, ts, n).teams = ts /\ Cmd(do, v, ts, n).until = n
BY DEF Cmd, Commands

(* The types of the fields of a command.                                   *)
LEMMA CommandFields ==
  ASSUME NEW c \in Commands
  PROVE  /\ c.do \in Writes \cup Announcements \cup {"smembers", "look"} /\ c.state \in NetStates
         /\ c.teams \in SUBSET Teams /\ c.until \in 0..MaxTick
BY DEF Commands

(* The values of the fields that a command does not use.                   *)
LEMMA ZeroType == 0 \in 0..MaxTick /\ {} \in SUBSET Teams /\ "off" \in NetStates
BY FirewallAssumption DEF NetStates

(* The team of a command about one team.                                   *)
LEMMA TeamOfOne == ASSUME NEW c, NEW t, c.teams = {t} PROVE TeamOf(c) = t
BY DEF TeamOf

(* The rest of a sequence of commands, and what its first two have to do   *)
(* with each other.                                                        *)
LEMMA OrderedTail ==
  ASSUME NEW q \in Seq(Commands), q # <<>>, Ordered(q)
  PROVE  /\ Ordered(Tail(q))
         /\ Head(q).do \in OnTeams => \E t \in Teams : Head(q).teams = {t}
         /\ Head(q).do \in Writes =>
              /\ Tail(q) # <<>> /\ Head(Tail(q)).do = After(Head(q).do)
              /\ Head(Tail(q)).teams = Head(q).teams /\ Head(Tail(q)).state = Head(q).state
         /\ Tail(q) # <<>> /\ Head(Tail(q)).do \in Inner => Head(q).do \in Writes
<1> DEFINE r == Tail(q)
<1>1. /\ r \in Seq(Commands) /\ Head(q) = q[1] /\ Len(q) \in Nat \ {0} /\ Len(r) = Len(q) - 1
      /\ \A i \in 1..Len(r) : r[i] = q[i + 1] /\ i + 1 \in 1..Len(q)
  BY TailFacts
<1>2. r # <<>> <=> Len(q) > 1
  <2>1. r = <<>> <=> Len(r) = 0
    BY SMTT(60), <1>1
  <2> QED
    BY <1>1, <2>1
<1>3. r # <<>> => Head(r) = q[2]
  BY <1>1, <1>2
<1>4. Ordered(r)
  <2> HIDE DEF r
  <2>1. \A i \in 1..Len(r) : r[i].do \in OnTeams => \E t \in Teams : r[i].teams = {t}
    <3> SUFFICES ASSUME NEW i \in 1..Len(r), r[i].do \in OnTeams PROVE \E t \in Teams : r[i].teams = {t}
      OBVIOUS
    <3>1. i + 1 \in 1..Len(q) /\ r[i] = q[i + 1]
      BY <1>1
    <3> QED
      BY <3>1 DEF Ordered
  <2>2. ASSUME NEW i \in 1..Len(r)
        PROVE  /\ i < Len(r) <=> i + 1 < Len(q)
               /\ i < Len(r) => r[i + 1] = q[(i + 1) + 1]
    BY <1>1
  <2>3. ASSUME NEW i \in 1..Len(r), r[i].do \in Writes
        PROVE  /\ i < Len(r) /\ r[i + 1].do = After(r[i].do)
               /\ r[i + 1].teams = r[i].teams /\ r[i + 1].state = r[i].state
    BY <1>1, <2>2, <2>3 DEF Ordered
  <2>4. ASSUME NEW i \in 1..Len(r), i < Len(r), r[i + 1].do \in Inner
        PROVE  r[i].do \in Writes
    BY <1>1, <2>2, <2>4 DEF Ordered
  <2> QED
    BY <2>1, <2>3, <2>4 DEF Ordered
<1>5. 1 \in 1..Len(q) /\ 1 + 1 = 2
  BY <1>1
<1> QED
  BY <1>1, <1>2, <1>3, <1>4, <1>5 DEF Ordered

(* A sequence of commands with one more at its front.                      *)
Precedes(c, q) ==
  /\ c.do \in OnTeams => \E t \in Teams : c.teams = {t}
  /\ c.do \in Writes =>
       /\ q # <<>> /\ Head(q).do = After(c.do) /\ Head(q).teams = c.teams /\ Head(q).state = c.state
  /\ q # <<>> /\ Head(q).do \in Inner => c.do \in Writes

(* Commands stay in order when one that precedes them is put before.       *)
LEMMA OrderedPrepend ==
  ASSUME NEW q \in Seq(Commands), Ordered(q), NEW c \in Commands, Precedes(c, q)
  PROVE  /\ <<c>> \o q \in Seq(Commands) /\ Ordered(<<c>> \o q) /\ <<c>> \o q # <<>> /\ Head(<<c>> \o q) = c
         /\ Elems(<<c>> \o q) = {c} \cup Elems(q)
<1> DEFINE s == <<c>> \o q
<1>1. /\ s \in Seq(Commands) /\ Len(s) = Len(q) + 1 /\ Len(q) \in Nat
      /\ s[1] = c /\ \A i \in 1..Len(q) : s[i + 1] = q[i]
  BY PrependFacts
<1>2. \A i \in 1..Len(s) : i = 1 \/ \E j \in 1..Len(q) : i = j + 1 /\ s[i] = q[j]
  <2> TAKE i \in 1..Len(s)
  <2> SUFFICES ASSUME i # 1 PROVE \E j \in 1..Len(q) : i = j + 1 /\ s[i] = q[j]
    OBVIOUS
  <2>1. i - 1 \in 1..Len(q) /\ i = (i - 1) + 1
    BY <1>1
  <2> QED
    BY <1>1, <2>1
<1>3. q # <<>> => Head(q) = q[1] /\ s[2] = q[1] /\ Len(q) > 0
  BY <1>1
<1>4. Len(q) > 0 => q # <<>>
  OBVIOUS
<1>5. ASSUME NEW i \in 1..Len(s), i < Len(s), s[i + 1].do \in Inner
      PROVE  s[i].do \in Writes
  <2>1. i \in 1..Len(q) /\ s[i + 1] = q[i] /\ q # <<>>
    BY <1>1, <1>4, <1>5
  <2>2. CASE i = 1
    BY <1>1, <1>3, <1>5, <2>1, <2>2 DEF Precedes
  <2>3. CASE i # 1
    <3>1. PICK j \in 1..Len(q) : i = j + 1 /\ s[i] = q[j]
      BY <1>2, <2>3
    <3> QED
      BY <1>1, <1>5, <2>1, <3>1 DEF Ordered
  <2> QED
    BY <2>2, <2>3
<1>6. ASSUME NEW i \in 1..Len(s), s[i].do \in Writes
      PROVE  /\ i < Len(s) /\ s[i + 1].do = After(s[i].do)
             /\ s[i + 1].teams = s[i].teams /\ s[i + 1].state = s[i].state
  <2>1. CASE i = 1
    <3>1. q # <<>> /\ s[1 + 1] = Head(q) /\ 1 < Len(s)
      BY <1>1, <1>3, <1>6, <2>1 DEF Precedes
    <3> QED
      BY <1>1, <1>6, <2>1, <3>1 DEF Precedes
  <2>2. CASE i # 1
    <3>1. PICK j \in 1..Len(q) : i = j + 1 /\ s[i] = q[j]
      BY <1>2, <2>2
    <3>2. j < Len(q)
      BY <1>6, <3>1 DEF Ordered
    <3>3. s[i + 1] = q[j + 1] /\ i < Len(s)
      BY <1>1, <3>1, <3>2
    <3> QED
      BY <1>6, <3>1, <3>3 DEF Ordered
  <2> QED
    BY <2>1, <2>2
<1>7. ASSUME NEW i \in 1..Len(s), s[i].do \in OnTeams
      PROVE  \E t \in Teams : s[i].teams = {t}
  BY <1>1, <1>2, <1>7 DEF Ordered, Precedes
<1>8. Ordered(s)
  <2> HIDE DEF s
  <2> QED
    BY <1>5, <1>6, <1>7 DEF Ordered
<1>9. s # <<>> /\ Head(s) = c
  <2> HIDE DEF s
  <2> QED
    BY <1>1
<1> QED
  BY <1>1, <1>8, <1>9, ElemsPrepend

(* What is known of the commands of an operation before others.            *)
IsFresh(s, es) == s \in Seq(Commands) /\ Ordered(s) /\ Fresh(s) /\ Elems(s) = es

(* A write and its announcement before other operations.                   *)
LEMMA OrderedTwo ==
  ASSUME NEW q \in Seq(Commands), Ordered(q), Fresh(q),
         NEW a \in Commands, NEW b \in Commands, a.do \in Writes \ Inner, b.do = After(a.do), b.do \in Announcements,
         b.teams = a.teams, b.state = a.state, a.do = "set state" \/ \E t \in Teams : a.teams = {t}
  PROVE  IsFresh(<<a, b>> \o q, {a, b} \cup Elems(q))
<1>1. b.do \notin Writes /\ b.do \in Inner /\ (a.do = "set state" => b.do = "state")
  BY DEF Writes, Announcements, Inner, After
<1>2. PICK r \in Seq(Commands) :
        r = <<b>> \o q /\ Ordered(r) /\ r # <<>> /\ Head(r) = b /\ Elems(r) = {b} \cup Elems(q)
  <2>1. Precedes(b, q)
    BY <1>1 DEF Precedes, OnTeams, Fresh
  <2> QED
    BY <2>1, OrderedPrepend
<1>3. IsFresh(<<a>> \o r, {a, b} \cup Elems(q))
  <2>1. Precedes(a, r)
    BY <1>1, <1>2 DEF Precedes, OnTeams
  <2>2. /\ <<a>> \o r \in Seq(Commands) /\ Ordered(<<a>> \o r) /\ Head(<<a>> \o r) = a
        /\ Elems(<<a>> \o r) = {a} \cup Elems(r)
    BY <1>2, <2>1, OrderedPrepend
  <2> QED
    BY <1>2, <2>2 DEF IsFresh, Fresh
<1>4. <<a>> \o r = <<a, b>> \o q
  <2>1. <<a>> \o (<<b>> \o q) = <<a, b>> \o q
    BY FrontTwo
  <2> QED
    BY <1>2, <2>1
<1> QED
  BY <1>3, <1>4

(* The same with two writes.                                               *)
LEMMA OrderedThree ==
  ASSUME NEW q \in Seq(Commands), Ordered(q), Fresh(q),
         NEW a \in Commands, NEW b \in Commands, NEW c \in Commands,
         a.do \in Writes \ Inner, b.do \in Writes, b.do = After(a.do), c.do = After(b.do), c.do \in Announcements,
         b.teams = a.teams, b.state = a.state, c.teams = b.teams, c.state = b.state,
         \E t \in Teams : a.teams = {t}
  PROVE  IsFresh(<<a, b, c>> \o q, {a, b, c} \cup Elems(q))
<1>1. c.do \notin Writes /\ c.do \in Inner
  BY DEF Writes, Announcements, Inner
<1>2. PICK r \in Seq(Commands) :
        r = <<c>> \o q /\ Ordered(r) /\ r # <<>> /\ Head(r) = c /\ Elems(r) = {c} \cup Elems(q)
  <2>1. Precedes(c, q)
    BY <1>1 DEF Precedes, Fresh
  <2> QED
    BY <2>1, OrderedPrepend
<1>3. PICK s \in Seq(Commands) :
        s = <<b>> \o r /\ Ordered(s) /\ s # <<>> /\ Head(s) = b /\ Elems(s) = {b} \cup Elems(r)
  <2>1. Precedes(b, r)
    BY <1>1, <1>2 DEF Precedes
  <2> QED
    BY <1>2, <2>1, OrderedPrepend
<1>4. IsFresh(<<a>> \o s, {a, b, c} \cup Elems(q))
  <2>1. Precedes(a, s)
    BY <1>3 DEF Precedes
  <2>2. /\ <<a>> \o s \in Seq(Commands) /\ Ordered(<<a>> \o s) /\ Head(<<a>> \o s) = a
        /\ Elems(<<a>> \o s) = {a} \cup Elems(s)
    BY <1>3, <2>1, OrderedPrepend
  <2> QED
    BY <1>2, <1>3, <2>2 DEF IsFresh, Fresh
<1>5. <<a>> \o s = <<a, b, c>> \o q
  <2>1. <<a>> \o (<<b>> \o r) = <<a, b>> \o r
    BY FrontTwo
  <2>2. <<a, b>> \o (<<c>> \o q) = <<a, b, c>> \o q
    BY ZenonT(60), FrontThree
  <2> QED
    BY <1>2, <1>3, <2>1, <2>2
<1> QED
  BY <1>4, <1>5

(* A command about one team.                                               *)
LEMMA Single ==
  ASSUME NEW t \in Teams, NEW do \in Writes \cup Announcements \cup {"smembers", "look"}
  PROVE  /\ OnTeam(do, t) \in Commands /\ OnTeam(do, t).do = do
         /\ OnTeam(do, t).teams = {t} /\ OnTeam(do, t).state = "off"
BY CmdType, ZeroType DEF OnTeam

(* The operations of VPNControl before other operations q.                 *)
LEMMA StateBefore ==
  ASSUME NEW v \in NetStates, NEW q \in Seq(Commands), Ordered(q), Fresh(q)
  PROVE  \E es \in SUBSET Commands :
         /\ IsFresh(set_state(v) \o q, es \cup Elems(q))
         /\ \A c \in es : c.do \in {"set state", "state"}
<1>2. \A do \in Writes \cup Announcements :
        /\ Cmd(do, v, {}, 0) \in Commands /\ Cmd(do, v, {}, 0).do = do
        /\ Cmd(do, v, {}, 0).teams = {} /\ Cmd(do, v, {}, 0).state = v
  BY CmdType, ZeroType
<1> DEFINE a == Cmd("set state", v, {}, 0)
           b == Cmd("state", v, {}, 0)
<1>4. "set state" \in Writes \ Inner /\ "state" \in Announcements /\ After("set state") = "state"
  BY DEF Writes, Announcements, Inner, After
<1>5. /\ a \in Commands /\ b \in Commands /\ a.do = "set state" /\ b.do = "state"
      /\ a.teams = b.teams /\ a.state = b.state
  BY <1>2, <1>4
<1> HIDE DEF a, b
<1>6. IsFresh(<<a, b>> \o q, {a, b} \cup Elems(q))
  BY <1>4, <1>5, OrderedTwo
<1>7. IsFresh(set_state(v) \o q, {a, b} \cup Elems(q))
  BY <1>6 DEF a, b, set_state
<1>8. {a, b} \in SUBSET Commands
  BY <1>5
<1> QED
  BY <1>5, <1>7, <1>8 DEF Permissions

(* Commands that ban team t until tick n.                                  *)
Bans(es, t, n) ==
  /\ \A c \in es : c.do = "set until" => c.until = n /\ c.teams = {t}
  /\ \E c \in es : c.do = "set until"

(* A ban before other operations.                                          *)
LEMMA BanBefore ==
  ASSUME NEW t \in Teams, NEW n \in 0..MaxTick, NEW q \in Seq(Commands), Ordered(q), Fresh(q)
  PROVE  \E es \in SUBSET Commands :
         IsFresh(ban_team(t, n) \o q, es \cup Elems(q)) /\ Bans(es, t, n)
<1>1. \A do \in Writes \cup Announcements :
        OnTeam(do, t) \in Commands /\ OnTeam(do, t).do = do /\ OnTeam(do, t).teams = {t} /\ OnTeam(do, t).state = "off"
  BY Single
<1>3. /\ Cmd("set until", "off", {t}, n) \in Commands /\ Cmd("set until", "off", {t}, n).do = "set until"
      /\ Cmd("set until", "off", {t}, n).teams = {t} /\ Cmd("set until", "off", {t}, n).state = "off"
      /\ Cmd("set until", "off", {t}, n).until = n
  BY ZeroType DEF Cmd, Commands, Writes
<1> DEFINE a == OnTeam("sadd banned", t)
           b == Cmd("set until", "off", {t}, n)
           d == OnTeam("ban", t)
<1>4. /\ "sadd banned" \in Writes \ Inner /\ "set until" \in Writes /\ "ban" \in Announcements
      /\ After("sadd banned") = "set until" /\ After("set until") = "ban"
  BY DEF Writes, Announcements, Inner, After
<1>5. /\ a \in Commands /\ b \in Commands /\ d \in Commands
      /\ a.do = "sadd banned" /\ b.do = "set until" /\ d.do = "ban"
      /\ a.teams = {t} /\ b.teams = {t} /\ d.teams = {t} /\ a.state = b.state /\ b.state = d.state /\ b.until = n
  BY <1>1, <1>3, <1>4
<1> HIDE DEF a, b, d
<1>6. IsFresh(<<a, b, d>> \o q, {a, b, d} \cup Elems(q))
  BY <1>4, <1>5, OrderedThree
<1>7. IsFresh(ban_team(t, n) \o q, {a, b, d} \cup Elems(q))
  BY <1>6 DEF a, b, d, ban_team
<1>8. {a, b, d} \in SUBSET Commands
  BY <1>5
<1> QED
  BY <1>5, <1>7, <1>8 DEF Bans

(* The lifting of a ban before other operations.                           *)
LEMMA UnbanBefore ==
  ASSUME NEW t \in Teams, NEW q \in Seq(Commands), Ordered(q), Fresh(q)
  PROVE  \E es \in SUBSET Commands :
         /\ IsFresh(unban_team(t) \o q, es \cup Elems(q))
         /\ \A c \in es : c.do \in {"srem banned", "del until", "unban"}
         /\ \E c \in es : c.do = "srem banned" /\ c.teams = {t}
<1>1. \A do \in Writes \cup Announcements :
        OnTeam(do, t) \in Commands /\ OnTeam(do, t).do = do /\ OnTeam(do, t).teams = {t} /\ OnTeam(do, t).state = "off"
  BY Single
<1> DEFINE a == OnTeam("srem banned", t)
           b == OnTeam("del until", t)
           d == OnTeam("unban", t)
<1>4. /\ "srem banned" \in Writes \ Inner /\ "del until" \in Writes /\ "unban" \in Announcements
      /\ After("srem banned") = "del until" /\ After("del until") = "unban"
  BY DEF Writes, Announcements, Inner, After
<1>5. /\ a \in Commands /\ b \in Commands /\ d \in Commands
      /\ a.do = "srem banned" /\ b.do = "del until" /\ d.do = "unban"
      /\ a.teams = {t} /\ b.teams = {t} /\ d.teams = {t} /\ a.state = b.state /\ b.state = d.state
  BY <1>1, <1>4
<1> HIDE DEF a, b, d
<1>6. IsFresh(<<a, b, d>> \o q, {a, b, d} \cup Elems(q))
  BY <1>4, <1>5, OrderedThree
<1>7. IsFresh(unban_team(t) \o q, {a, b, d} \cup Elems(q))
  BY <1>6 DEF a, b, d, unban_team
<1>8. {a, b, d} \in SUBSET Commands
  BY <1>5
<1> QED
  BY <1>5, <1>7, <1>8

(* A new permission before other operations.                               *)
LEMMA AddBefore ==
  ASSUME NEW t \in Teams, NEW q \in Seq(Commands), Ordered(q), Fresh(q)
  PROVE  \E es \in SUBSET Commands :
         /\ IsFresh(add_permission_team(t) \o q, es \cup Elems(q))
         /\ \A c \in es : c.do \in Permissions
<1>1. \A do \in Writes \cup Announcements :
        OnTeam(do, t) \in Commands /\ OnTeam(do, t).do = do /\ OnTeam(do, t).teams = {t} /\ OnTeam(do, t).state = "off"
  BY Single
<1> DEFINE a == OnTeam("sadd permissions", t)
           b == OnTeam("add_permission", t)
<1>4. "sadd permissions" \in Writes \ Inner /\ "add_permission" \in Announcements /\ After("sadd permissions") = "add_permission"
  BY DEF Writes, Announcements, Inner, After
<1>5. /\ a \in Commands /\ b \in Commands /\ a.do = "sadd permissions" /\ b.do = "add_permission"
      /\ a.teams = b.teams /\ a.state = b.state /\ a.teams = {t}
  BY <1>1, <1>4
<1> HIDE DEF a, b
<1>6. IsFresh(<<a, b>> \o q, {a, b} \cup Elems(q))
  BY <1>4, <1>5, OrderedTwo
<1>7. IsFresh(add_permission_team(t) \o q, {a, b} \cup Elems(q))
  BY <1>6 DEF a, b, add_permission_team
<1>8. {a, b} \in SUBSET Commands
  BY <1>5
<1> QED
  BY <1>5, <1>7, <1>8 DEF Permissions

(* The end of a permission before other operations.                        *)
LEMMA RemoveBefore ==
  ASSUME NEW t \in Teams, NEW q \in Seq(Commands), Ordered(q), Fresh(q)
  PROVE  \E es \in SUBSET Commands :
         /\ IsFresh(remove_permission_team(t) \o q, es \cup Elems(q))
         /\ \A c \in es : c.do \in Permissions
<1>1. \A do \in Writes \cup Announcements :
        OnTeam(do, t) \in Commands /\ OnTeam(do, t).do = do /\ OnTeam(do, t).teams = {t} /\ OnTeam(do, t).state = "off"
  BY Single
<1> DEFINE a == OnTeam("srem permissions", t)
           b == OnTeam("remove_permission", t)
<1>4. "srem permissions" \in Writes \ Inner /\ "remove_permission" \in Announcements /\ After("srem permissions") = "remove_permission"
  BY DEF Writes, Announcements, Inner, After
<1>5. /\ a \in Commands /\ b \in Commands /\ a.do = "srem permissions" /\ b.do = "remove_permission"
      /\ a.teams = b.teams /\ a.state = b.state /\ a.teams = {t}
  BY <1>1, <1>4
<1> HIDE DEF a, b
<1>6. IsFresh(<<a, b>> \o q, {a, b} \cup Elems(q))
  BY <1>4, <1>5, OrderedTwo
<1>7. IsFresh(remove_permission_team(t) \o q, {a, b} \cup Elems(q))
  BY <1>6 DEF a, b, remove_permission_team
<1>8. {a, b} \in SUBSET Commands
  BY <1>5
<1> QED
  BY <1>5, <1>7, <1>8 DEF Permissions

(* Nothing, and a look at the bans, before nothing.                        *)
LEMMA OrderedBase ==
  /\ <<>> \in Seq(Commands) /\ Ordered(<<>>) /\ Fresh(<<>>) /\ Elems(<<>>) = {}
  /\ \E c \in Commands : IsFresh(unban_for_tick, {c}) /\ c.do = "smembers"
<1>1. <<>> \in Seq(Commands) /\ Ordered(<<>>) /\ Fresh(<<>>) /\ Elems(<<>>) = {}
  BY ElemsEmpty DEF Ordered, Fresh
<1> DEFINE c == Cmd("smembers", "off", {}, 0)
<1>2. c \in Commands /\ c.do = "smembers"
  BY CmdType, ZeroType
<1>3. unban_for_tick = <<c>> \o <<>>
  BY <1>2 DEF unban_for_tick
<1> HIDE DEF c
<1>4. Precedes(c, <<>>) /\ c.do \notin Inner
  BY <1>2 DEF Precedes, OnTeams, Writes, Announcements, Inner
<1>5. LET s == <<c>> \o <<>> IN s \in Seq(Commands) /\ Ordered(s) /\ Head(s) = c /\ Elems(s) = {c}
  BY <1>1, <1>2, <1>4, OrderedPrepend
<1>6. IsFresh(unban_for_tick, {c})
  BY <1>3, <1>4, <1>5 DEF IsFresh, Fresh
<1> QED
  BY <1>1, <1>2, <1>6

-----------------------------------------------------------------------------
(* What the gateway will know.                                             *)

(* Without announcements it is what the gateway has.                       *)
LEMMA AfterNone ==
  /\ \A s, v : StateAfter(<<>>, s, v) <=> s = v
  /\ \A S, t, add, del : MemberAfter(<<>>, S, t, add, del) <=> t \in S
<1>1. Len(<<>>) = 0 /\ 1..0 = {}
  OBVIOUS
<1> QED
  BY <1>1 DEF StateAfter, MemberAfter

(* A further announcement decides if it is about the state or the team.    *)
LEMMA StateAppend ==
  ASSUME NEW q \in Seq(Commands), NEW c \in Commands, NEW s, NEW v
  PROVE  /\ c.do = "state" => (StateAfter(Append(q, c), s, v) <=> c.state = v)
         /\ c.do # "state" => (StateAfter(Append(q, c), s, v) <=> StateAfter(q, s, v))
<1> DEFINE r == Append(q, c)
<1>1. Len(r) = Len(q) + 1 /\ Len(q) \in Nat /\ r[Len(q) + 1] = c /\ \A i \in 1..Len(q) : r[i] = q[i]
  BY AppendFacts
<1> HIDE DEF r
<1>2. 1..Len(r) = (1..Len(q)) \cup {Len(q) + 1} /\ \A i \in 1..Len(q) : Len(q) + 1 > i
  BY <1>1
<1>3. CASE c.do = "state"
  <2>1. StateAfter(r, s, v) => c.state = v
    BY <1>1, <1>2, <1>3 DEF StateAfter
  <2>2. \A j \in 1..Len(r) : ~(j > Len(q) + 1)
    BY <1>1
  <2>3. c.state = v => StateAfter(r, s, v)
    BY <1>1, <1>2, <1>3, <2>2 DEF StateAfter
  <2> QED
    BY <1>3, <2>1, <2>3 DEF r
<1>4. CASE c.do # "state"
  <2>1. StateAfter(r, s, v) <=> StateAfter(q, s, v)
    BY <1>1, <1>2, <1>4 DEF StateAfter
  <2> QED
    BY <1>4, <2>1 DEF r
<1> QED
  BY <1>3, <1>4

(* The same for a team in a set.                                           *)
LEMMA MemberAppend ==
  ASSUME NEW q \in Seq(Commands), NEW c \in Commands, NEW S, NEW t, NEW add, NEW del, add # del
  PROVE  /\ Concerns(c, t, add, del) => (MemberAfter(Append(q, c), S, t, add, del) <=> c.do = add)
         /\ ~Concerns(c, t, add, del) => (MemberAfter(Append(q, c), S, t, add, del) <=> MemberAfter(q, S, t, add, del))
<1> DEFINE r == Append(q, c)
<1>1. Len(r) = Len(q) + 1 /\ Len(q) \in Nat /\ r[Len(q) + 1] = c /\ \A i \in 1..Len(q) : r[i] = q[i]
  BY AppendFacts
<1> HIDE DEF r
<1>2. 1..Len(r) = (1..Len(q)) \cup {Len(q) + 1} /\ \A i \in 1..Len(q) : Len(q) + 1 > i
  BY <1>1
<1>3. CASE Concerns(c, t, add, del)
  <2>1. MemberAfter(r, S, t, add, del) => c.do = add
    BY <1>1, <1>2, <1>3 DEF MemberAfter, Concerns
  <2>2. \A j \in 1..Len(r) : ~(j > Len(q) + 1)
    BY <1>1
  <2>3. c.do = add => MemberAfter(r, S, t, add, del)
    BY <1>1, <1>2, <1>3, <2>2 DEF MemberAfter, Concerns
  <2> QED
    BY <1>3, <2>1, <2>3 DEF r
<1>4. CASE ~Concerns(c, t, add, del)
  <2>1. MemberAfter(r, S, t, add, del) <=> MemberAfter(q, S, t, add, del)
    <3>1. MemberAfter(q, S, t, add, del) => MemberAfter(r, S, t, add, del)
      BY <1>1, <1>2, <1>4 DEF MemberAfter
    <3>2. c.do = add => t \notin c.teams
      BY <1>4 DEF Concerns
    <3>3. MemberAfter(r, S, t, add, del) => MemberAfter(q, S, t, add, del)
      BY <1>1, <1>2, <3>2 DEF MemberAfter
    <3> QED
      BY <3>1, <3>3
  <2> QED
    BY <1>4, <2>1 DEF r
<1> QED
  BY <1>3, <1>4

(* An announcement that is handled leaves what the others will decide.     *)
LEMMA StateTail ==
  ASSUME NEW q \in Seq(Commands), q # <<>>, NEW s, NEW u, NEW v,
         IF Head(q).do = "state" THEN u = Head(q).state ELSE u = s
  PROVE  StateAfter(q, s, v) => StateAfter(Tail(q), u, v)
<1> DEFINE r == Tail(q)
<1>1. /\ Head(q) = q[1] /\ Len(q) \in Nat \ {0} /\ Len(r) = Len(q) - 1
      /\ \A i \in 1..Len(r) : r[i] = q[i + 1]
  BY TailFacts
<1> HIDE DEF r
<1>2. /\ 1 \in 1..Len(q)
      /\ \A i \in 1..Len(r) : i + 1 \in 1..Len(q) /\ i + 1 > 1
      /\ \A i \in 1..Len(q) : i = 1 \/ i - 1 \in 1..Len(r)
  BY <1>1
<1> SUFFICES ASSUME StateAfter(q, s, v) PROVE StateAfter(r, u, v)
  BY DEF r
<1>3. CASE s = v /\ \A i \in 1..Len(q) : q[i].do # "state"
  <2>1. u = v /\ \A i \in 1..Len(r) : r[i].do # "state"
    BY <1>1, <1>2, <1>3
  <2> QED
    BY <2>1 DEF StateAfter
<1>4. CASE \E i \in 1..Len(q) : /\ q[i].do = "state" /\ q[i].state = v
                                /\ \A j \in 1..Len(q) : j > i => q[j].do # "state"
  <2>1. PICK i \in 1..Len(q) : /\ q[i].do = "state" /\ q[i].state = v
                               /\ \A j \in 1..Len(q) : j > i => q[j].do # "state"
    BY <1>4
  <2>2. CASE i = 1
    <3>1. u = v /\ \A j \in 1..Len(r) : r[j].do # "state"
      BY <1>1, <1>2, <2>1, <2>2
    <3> QED
      BY <3>1 DEF StateAfter
  <2>3. CASE i # 1
    <3>1. PICK k \in 1..Len(r) : i = k + 1
      <4>1. i - 1 \in 1..Len(r) /\ i = (i - 1) + 1
        BY <1>2, <2>3
      <4> QED
        BY <4>1
    <3>2. r[k].do = "state" /\ r[k].state = v
      BY <1>1, <2>1, <3>1
    <3>3. ASSUME NEW j \in 1..Len(r), j > k PROVE r[j].do # "state"
      <4>1. j + 1 > i /\ j + 1 \in 1..Len(q)
        BY <1>2, <3>1, <3>3
      <4> QED
        BY <1>1, <2>1, <4>1
    <3> QED
      BY <3>2, <3>3 DEF StateAfter
  <2> QED
    BY <2>2, <2>3
<1> QED
  BY <1>3, <1>4 DEF StateAfter

(* The same for a team in a set.                                           *)
LEMMA MemberTail ==
  ASSUME NEW q \in Seq(Commands), q # <<>>, NEW S, NEW T, NEW t, NEW add, NEW del, add # del,
         IF Concerns(Head(q), t, add, del) THEN t \in T <=> Head(q).do = add ELSE t \in T <=> t \in S
  PROVE  MemberAfter(Tail(q), T, t, add, del) <=> MemberAfter(q, S, t, add, del)
<1> DEFINE r == Tail(q)
           In(i) == q[i].do = add /\ t \in q[i].teams /\ \A j \in 1..Len(q) : j > i => ~Concerns(q[j], t, add, del)
<1>1. /\ Head(q) = q[1] /\ Len(q) \in Nat \ {0} /\ Len(r) = Len(q) - 1
      /\ \A i \in 1..Len(r) : r[i] = q[i + 1]
  BY TailFacts
<1> HIDE DEF r
<1>2. /\ 1 \in 1..Len(q)
      /\ \A i \in 1..Len(r) : i + 1 \in 1..Len(q) /\ i + 1 > 1
      /\ \A i \in 1..Len(q) : i = 1 \/ (i > 1 /\ i - 1 \in 1..Len(r) /\ i = (i - 1) + 1)
  BY <1>1
<1>3. (\A i \in 1..Len(r) : ~Concerns(r[i], t, add, del)) <=> (\A i \in 1..Len(q) : i > 1 => ~Concerns(q[i], t, add, del))
  <2>1. \A i \in 1..Len(q) : i > 1 => i - 1 \in 1..Len(r) /\ q[i] = r[i - 1]
    BY <1>1, <1>2
  <2>2. \A i \in 1..Len(r) : r[i] = q[i + 1] /\ i + 1 \in 1..Len(q) /\ i + 1 > 1
    BY <1>1, <1>2
  <2> QED
    BY <2>1, <2>2
<1>4. ASSUME NEW k \in 1..Len(r)
      PROVE  (\A j \in 1..Len(r) : j > k => ~Concerns(r[j], t, add, del))
               <=> (\A j \in 1..Len(q) : j > k + 1 => ~Concerns(q[j], t, add, del))
  <2>1. ASSUME NEW j \in 1..Len(r), j > k PROVE j + 1 > k + 1
    BY <2>1
  <2>2. ASSUME NEW j \in 1..Len(q), j > k + 1 PROVE j - 1 \in 1..Len(r) /\ j - 1 > k /\ j = (j - 1) + 1
    BY <1>1, <2>2
  <2> QED
    BY <1>1, <1>2, <2>1, <2>2
<1>5. (\E k \in 1..Len(r) : /\ r[k].do = add /\ t \in r[k].teams
                            /\ \A j \in 1..Len(r) : j > k => ~Concerns(r[j], t, add, del))
        <=> (\E i \in 1..Len(q) : i > 1 /\ In(i))
  <2>1. ASSUME NEW k \in 1..Len(r), r[k].do = add, t \in r[k].teams,
               \A j \in 1..Len(r) : j > k => ~Concerns(r[j], t, add, del)
        PROVE  k + 1 \in 1..Len(q) /\ k + 1 > 1 /\ In(k + 1)
    BY <1>1, <1>2, <1>4, <2>1
  <2>2. ASSUME NEW i \in 1..Len(q), i > 1, In(i)
        PROVE  \E k \in 1..Len(r) : /\ r[k].do = add /\ t \in r[k].teams
                                    /\ \A j \in 1..Len(r) : j > k => ~Concerns(r[j], t, add, del)
    <3>1. PICK k \in 1..Len(r) : i = k + 1
      BY <1>2, <2>2
    <3>2. r[k].do = add /\ t \in r[k].teams
      BY <1>1, <2>2, <3>1
    <3>3. \A j \in 1..Len(r) : j > k => ~Concerns(r[j], t, add, del)
      BY <1>4, <2>2, <3>1
    <3> QED
      BY <3>2, <3>3
  <2> QED
    BY <2>1, <2>2
<1>6. In(1) <=> q[1].do = add /\ t \in q[1].teams /\ \A i \in 1..Len(q) : i > 1 => ~Concerns(q[i], t, add, del)
  OBVIOUS
<1>7. MemberAfter(r, T, t, add, del) <=>
        \/ t \in T /\ \A i \in 1..Len(q) : i > 1 => ~Concerns(q[i], t, add, del)
        \/ \E i \in 1..Len(q) : i > 1 /\ In(i)
  BY <1>3, <1>5 DEF MemberAfter
<1>8. MemberAfter(q, S, t, add, del) <=>
        \/ t \in S /\ ~Concerns(q[1], t, add, del) /\ \A i \in 1..Len(q) : i > 1 => ~Concerns(q[i], t, add, del)
        \/ In(1)
        \/ \E i \in 1..Len(q) : i > 1 /\ In(i)
  BY <1>2 DEF MemberAfter
<1> HIDE DEF In
<1> QED
  BY <1>1, <1>6, <1>7, <1>8 DEF r, Concerns

-----------------------------------------------------------------------------
(* What the steps of the writers do to their commands.                     *)

(* Writer w starts the commands s.                                         *)
Starts(w, s) ==
  /\ todo[w] = <<>> /\ todo' = [todo EXCEPT ![w] = s]
  /\ raced' = (raced \/ \E v \in Writers \ {w} : todo[v] # <<>>)
  /\ s \in Seq(Commands) /\ Ordered(s) /\ Fresh(s)

(* Begin starts an operation whose commands are in order.                  *)
LEMMA StartsFacts ==
  ASSUME NEW w \in Writers, NEW s, NEW es, Begin(w, s), IsFresh(s, es)
  PROVE  Starts(w, s) /\ Elems(s) = es
BY DEF Begin, Starts, IsFresh

(* Every operation on its own, without others after it.                    *)
LEMMA StateAlone ==
  ASSUME NEW v \in NetStates
  PROVE  \E es \in SUBSET Commands :
           /\ IsFresh(set_state(v), es)
           /\ \A c \in es : c.do \in {"set state", "state"}
<1>1. PICK q \in Seq(Commands) : q = <<>> /\ Ordered(q) /\ Fresh(q) /\ Elems(q) = {}
  BY OrderedBase
<1>2. PICK es \in SUBSET Commands :
        /\ IsFresh(set_state(v) \o q, es \cup Elems(q))
        /\ \A c \in es : c.do \in {"set state", "state"}
  BY <1>1, StateBefore
<1>3. set_state(v) \o q = set_state(v) /\ es \cup Elems(q) = es
  BY <1>1 DEF set_state
<1>4. IsFresh(set_state(v), es)
  BY <1>2, <1>3
<1> QED
  BY <1>2, <1>4

(* A ban.                                                                  *)
LEMMA BanAlone ==
  ASSUME NEW t \in Teams, NEW n \in 0..MaxTick
  PROVE  \E es \in SUBSET Commands : IsFresh(ban_team(t, n), es) /\ Bans(es, t, n)
<1>1. PICK q \in Seq(Commands) : q = <<>> /\ Ordered(q) /\ Fresh(q) /\ Elems(q) = {}
  BY OrderedBase
<1>2. PICK es \in SUBSET Commands : IsFresh(ban_team(t, n) \o q, es \cup Elems(q)) /\ Bans(es, t, n)
  BY <1>1, BanBefore
<1>3. ban_team(t, n) \o q = ban_team(t, n) /\ es \cup Elems(q) = es
  BY <1>1 DEF ban_team
<1>4. IsFresh(ban_team(t, n), es)
  BY <1>2, <1>3
<1> QED
  BY <1>2, <1>4

(* The lifting of a ban.                                                   *)
LEMMA UnbanAlone ==
  ASSUME NEW t \in Teams
  PROVE  \E es \in SUBSET Commands :
           /\ IsFresh(unban_team(t), es)
           /\ \A c \in es : c.do # "set until"
<1>1. PICK q \in Seq(Commands) : q = <<>> /\ Ordered(q) /\ Fresh(q) /\ Elems(q) = {}
  BY OrderedBase
<1>2. PICK es \in SUBSET Commands :
        /\ IsFresh(unban_team(t) \o q, es \cup Elems(q))
        /\ \A c \in es : c.do \in {"srem banned", "del until", "unban"}
        /\ \E c \in es : c.do = "srem banned" /\ c.teams = {t}
  BY <1>1, UnbanBefore
<1>3. unban_team(t) \o q = unban_team(t) /\ es \cup Elems(q) = es
  BY <1>1 DEF unban_team
<1>4. IsFresh(unban_team(t), es)
  BY <1>2, <1>3
<1> QED
  BY <1>2, <1>4

(* A new permission.                                                       *)
LEMMA AddAlone ==
  ASSUME NEW t \in Teams
  PROVE  \E es \in SUBSET Commands :
           /\ IsFresh(add_permission_team(t), es)
           /\ \A c \in es : c.do # "set until"
<1>1. PICK q \in Seq(Commands) : q = <<>> /\ Ordered(q) /\ Fresh(q) /\ Elems(q) = {}
  BY OrderedBase
<1>2. PICK es \in SUBSET Commands :
        /\ IsFresh(add_permission_team(t) \o q, es \cup Elems(q))
        /\ \A c \in es : c.do \in Permissions
  BY <1>1, AddBefore
<1>3. add_permission_team(t) \o q = add_permission_team(t) /\ es \cup Elems(q) = es
  BY <1>1 DEF add_permission_team
<1>4. IsFresh(add_permission_team(t), es)
  BY <1>2, <1>3
<1> QED
  BY <1>2, <1>4 DEF Permissions

(* The end of a permission.                                                *)
LEMMA RemoveAlone ==
  ASSUME NEW t \in Teams
  PROVE  \E es \in SUBSET Commands :
           /\ IsFresh(remove_permission_team(t), es)
           /\ \A c \in es : c.do # "set until"
<1>1. PICK q \in Seq(Commands) : q = <<>> /\ Ordered(q) /\ Fresh(q) /\ Elems(q) = {}
  BY OrderedBase
<1>2. PICK es \in SUBSET Commands :
        /\ IsFresh(remove_permission_team(t) \o q, es \cup Elems(q))
        /\ \A c \in es : c.do \in Permissions
  BY <1>1, RemoveBefore
<1>3. remove_permission_team(t) \o q = remove_permission_team(t) /\ es \cup Elems(q) = es
  BY <1>1 DEF remove_permission_team
<1>4. IsFresh(remove_permission_team(t), es)
  BY <1>2, <1>3
<1> QED
  BY <1>2, <1>4 DEF Permissions

(* The panel starts an operation; a ban says until when.                   *)
LEMMA PanelStarts ==
  ASSUME Panel
  PROVE  \E s : /\ Starts("panel", s)
                /\ \/ UNCHANGED tooLate /\ \A c \in Elems(s) : c.do # "set until"
                   \/ \E t \in Teams, n \in 0..MaxTick :
                        /\ tooLate' = IF n # 0 /\ n <= tick THEN tooLate \cup {t} ELSE tooLate \ {t}
                        /\ Bans(Elems(s), t, n)
<1>1. "panel" \in Writers
  BY DEF Writers
<1>2. CASE \E v \in NetStates : Begin("panel", set_state(v)) /\ UNCHANGED tooLate
  <2>1. PICK v \in NetStates : Begin("panel", set_state(v)) /\ UNCHANGED tooLate
    BY <1>2
  <2>2. PICK es \in SUBSET Commands : IsFresh(set_state(v), es) /\ \A c \in es : c.do \in {"set state", "state"}
    BY StateAlone
  <2>3. Starts("panel", set_state(v)) /\ Elems(set_state(v)) = es
    BY <1>1, <2>1, <2>2, StartsFacts
  <2> QED
    BY <2>1, <2>2, <2>3
<1>3. CASE \E t \in Teams, n \in 0..MaxTick :
             /\ Begin("panel", ban_team(t, n))
             /\ tooLate' = IF n # 0 /\ n <= tick THEN tooLate \cup {t} ELSE tooLate \ {t}
  <2>1. PICK t \in Teams, n \in 0..MaxTick :
             /\ Begin("panel", ban_team(t, n))
             /\ tooLate' = IF n # 0 /\ n <= tick THEN tooLate \cup {t} ELSE tooLate \ {t}
    BY <1>3
  <2>2. PICK es \in SUBSET Commands : IsFresh(ban_team(t, n), es) /\ Bans(es, t, n)
    BY BanAlone
  <2>3. Starts("panel", ban_team(t, n)) /\ Elems(ban_team(t, n)) = es
    BY <1>1, <2>1, <2>2, StartsFacts
  <2> QED
    BY <2>1, <2>2, <2>3
<1>4. CASE \E t \in Teams :
             /\ \E op \in {unban_team(t), add_permission_team(t), remove_permission_team(t)} : Begin("panel", op)
             /\ UNCHANGED tooLate
  <2>1. PICK t \in Teams :
             /\ \E op \in {unban_team(t), add_permission_team(t), remove_permission_team(t)} : Begin("panel", op)
             /\ UNCHANGED tooLate
    BY <1>4
  <2>2. PICK op \in {unban_team(t), add_permission_team(t), remove_permission_team(t)} : Begin("panel", op)
    BY <2>1
  <2>3. PICK es \in SUBSET Commands : IsFresh(op, es) /\ \A c \in es : c.do # "set until"
    BY UnbanAlone, AddAlone, RemoveAlone
  <2>4. Starts("panel", op) /\ Elems(op) = es
    BY <1>1, <2>2, <2>3, StartsFacts
  <2> QED
    BY <2>1, <2>3, <2>4
<1> QED
  BY <1>2, <1>3, <1>4 DEF Panel

(* The timer starts an operation, a new tick with a look at the bans.      *)
LEMMA TimerStarts ==
  ASSUME MasterTimer
  PROVE  \E s : /\ Starts("timer", s)
                /\ \A c \in Elems(s) : c.do \notin Permissions \cup {"set until"}
                /\ \/ tick' = tick
                   \/ tick' = tick + 1 /\ tick < MaxTick /\ \E c \in Elems(s) : c.do = "smembers"
<1>1. "timer" \in Writers /\ {"set state", "state", "smembers"} \cap (Permissions \cup {"set until"}) = {}
  BY DEF Writers, Permissions
<1>3. "on" \in NetStates /\ "team" \in NetStates /\ 0 \in 0..MaxTick
  BY ZeroType DEF NetStates
<1>4. PICK b \in Commands : IsFresh(unban_for_tick, {b}) /\ b.do = "smembers"
  BY OrderedBase
<1>5. CASE on_start_ctf
  <2> DEFINE s == set_state("on") \o unban_for_tick
  <2>1. PICK es \in SUBSET Commands :
          IsFresh(s, es \cup {b}) /\ \A c \in es : c.do \in {"set state", "state"}
    <3>1. unban_for_tick \in Seq(Commands) /\ Ordered(unban_for_tick) /\ Fresh(unban_for_tick) /\ Elems(unban_for_tick) = {b}
      BY <1>4 DEF IsFresh
    <3>2. PICK q \in Seq(Commands) : q = unban_for_tick
      BY <3>1
    <3>3. \E es \in SUBSET Commands :
            IsFresh(set_state("on") \o q, es \cup Elems(q)) /\ \A c \in es : c.do \in {"set state", "state"}
      BY <1>3, <3>1, <3>2, StateBefore
    <3> QED
      BY <3>1, <3>2, <3>3
  <2>2. Begin("timer", s) /\ tick' = tick + 1 /\ tick < MaxTick
    BY <1>5 DEF on_start_ctf
  <2> HIDE DEF s
  <2>3. Starts("timer", s) /\ Elems(s) = es \cup {b}
    BY <1>1, <2>1, <2>2, StartsFacts
  <2> QED
    BY <1>1, <1>4, <2>1, <2>2, <2>3
<1>6. CASE on_start_tick
  <2>1. Begin("timer", unban_for_tick) /\ tick' = tick + 1 /\ tick < MaxTick
    BY <1>6 DEF on_start_tick
  <2>2. Starts("timer", unban_for_tick) /\ Elems(unban_for_tick) = {b}
    BY <1>1, <1>4, <2>1, StartsFacts
  <2> QED
    BY <1>1, <1>4, <2>1, <2>2
<1>7. PICK es \in SUBSET Commands : IsFresh(set_state("team"), es) /\ \A c \in es : c.do \in {"set state", "state"}
  BY <1>3, StateAlone
<1>8. CASE Begin("timer", set_state("team")) /\ tick' = tick
  <2>1. Starts("timer", set_state("team")) /\ Elems(set_state("team")) = es
    BY <1>1, <1>7, <1>8, StartsFacts
  <2> QED
    BY <1>1, <1>7, <1>8, <2>1
<1>9. CASE Begin("timer", <<>>) /\ tick' = tick
  <2>1. IsFresh(<<>>, {})
    BY OrderedBase DEF IsFresh
  <2>2. Starts("timer", <<>>) /\ Elems(<<>>) = {}
    BY <1>1, <1>9, <2>1, StartsFacts
  <2> QED
    BY <1>9, <2>2
<1> QED
  BY <1>5, <1>6, <1>8, <1>9 DEF MasterTimer, on_end_ctf, on_open_vulnbox_access

(* Writer w, which is about to look at the bans, has now the commands s.   *)
Continues(w, s) ==
  /\ todo[w] # <<>> /\ Fresh(todo[w]) /\ todo' = [todo EXCEPT ![w] = s]
  /\ s \in Seq(Commands) /\ Ordered(s) /\ Fresh(s)

(* After a look at the bans, or an announcement, an operation begins.      *)
LEMMA RestFresh ==
  ASSUME TypeInv, OrderInv, NEW w \in Writers, todo[w] # <<>>
  PROVE  /\ todo[w] \in Seq(Commands) /\ Head(todo[w]) \in Commands /\ Tail(todo[w]) \in Seq(Commands)
         /\ Ordered(Tail(todo[w]))
         /\ Elems(todo[w]) = {Head(todo[w])} \cup Elems(Tail(todo[w]))
         /\ Head(todo[w]).do \notin Writes => Fresh(Tail(todo[w]))
<1>1. todo[w] \in Seq(Commands) /\ Ordered(todo[w])
  BY DEF TypeInv, OrderInv, TodoInv
<1> QED
  BY <1>1, OrderedTail, TailFacts, ElemsTail DEF Fresh

(* unban_for_tick reads the banned teams: a look at them is next.          *)
LEMMA SmembersContinues ==
  ASSUME TypeInv, OrderInv, NEW w \in Writers, Smembers(w)
  PROVE  \E s : /\ Continues(w, s)
                /\ \E c \in Commands : /\ Elems(s) = {c} \cup Elems(Tail(todo[w]))
                                       /\ c.do = "look" /\ c.teams = net.banned
<1> DEFINE r == Tail(todo[w])
           c == Cmd("look", "off", net.banned, 0)
           s == <<c>> \o r
<1>1. c \in Commands /\ c.do = "look" /\ c.teams = net.banned
  <2>1. net.banned \in SUBSET Teams
    BY DEF TypeInv
  <2> QED
    BY <2>1, CmdType, ZeroType
<1>2. todo[w] # <<>> /\ Head(todo[w]).do = "smembers" /\ todo' = [todo EXCEPT ![w] = s]
  BY DEF Smembers
<1>3. r \in Seq(Commands) /\ Ordered(r) /\ Fresh(r) /\ Fresh(todo[w])
  BY <1>2, RestFresh DEF Writes, Fresh, Inner, Announcements
<1> HIDE DEF c, r
<1>4. Precedes(c, r) /\ c.do \notin Inner
  BY <1>1, <1>3 DEF Precedes, Fresh, OnTeams, Writes, Announcements, Inner
<1>5. s \in Seq(Commands) /\ Ordered(s) /\ Head(s) = c /\ Elems(s) = {c} \cup Elems(r)
  BY <1>1, <1>3, <1>4, OrderedPrepend
<1> HIDE DEF s
<1>6. Continues(w, s)
  BY <1>2, <1>3, <1>4, <1>5 DEF Continues, Fresh
<1> QED
  BY <1>1, <1>5, <1>6 DEF r

(* The commands es lift the ban of team t, or it is not over.              *)
Lifts(es, t) ==
  /\ \A c \in es : c.do \in {"srem banned", "del until", "unban"}
  /\ BanIsOver(t) => \E c \in es : c.do = "srem banned" /\ c.teams = {t}

(* unban_for_tick looks at a team: the ban is lifted if it is over.        *)
LEMMA LookContinues ==
  ASSUME TypeInv, OrderInv, NEW w \in Writers, Look(w)
  PROVE  \E s : /\ Continues(w, s)
                /\ \/ Head(todo[w]).teams = {} /\ Elems(s) = Elems(Tail(todo[w]))
                   \/ \E t \in Head(todo[w]).teams, c \in Commands, es \in SUBSET Commands :
                        /\ Elems(s) = es \cup ({c} \cup Elems(Tail(todo[w])))
                        /\ c.do = "look" /\ c.teams = Head(todo[w]).teams \ {t}
                        /\ Lifts(es, t)
<1> DEFINE r == Tail(todo[w])
           ts == Head(todo[w]).teams
<1>1. todo[w] # <<>> /\ Head(todo[w]).do = "look" /\ Head(todo[w]) \in Commands
  BY RestFresh DEF Look
<1>2. r \in Seq(Commands) /\ Ordered(r) /\ Fresh(r) /\ Fresh(todo[w])
  BY <1>1, RestFresh DEF Writes, Fresh, Inner, Announcements
<1>3. ts \in SUBSET Teams
  BY <1>1, CommandFields
<1>4. CASE ts = {}
  <2>1. todo' = [todo EXCEPT ![w] = r]
    BY <1>4 DEF Look
  <2>2. Continues(w, r)
    BY <1>1, <1>2, <2>1 DEF Continues
  <2> QED
    BY <1>4, <2>2
<1>5. CASE ts # {}
  <2>1. PICK t \in ts :
          LET rest == <<Cmd("look", "off", ts \ {t}, 0)>> \o r
          IN todo' = [todo EXCEPT ![w] = IF BanIsOver(t) THEN unban_team(t) \o rest ELSE rest]
    BY <1>5 DEF Look
  <2> DEFINE c == Cmd("look", "off", ts \ {t}, 0)
             q == <<c>> \o r
  <2>2. c \in Commands /\ c.do = "look" /\ c.teams = ts \ {t} /\ t \in Teams
    BY <1>3, CmdType, ZeroType
  <2> HIDE DEF r, ts, c
  <2>3. Precedes(c, r) /\ c.do \notin Inner
    BY <1>2, <2>2 DEF Precedes, Fresh, OnTeams, Writes, Announcements, Inner
  <2>4. q \in Seq(Commands) /\ Ordered(q) /\ Head(q) = c /\ Elems(q) = {c} \cup Elems(r)
    BY <1>2, <2>2, <2>3, OrderedPrepend
  <2>5. todo' = [todo EXCEPT ![w] = IF BanIsOver(t) THEN unban_team(t) \o q ELSE q]
    BY <2>1 DEF c
  <2> HIDE DEF q
  <2>6. Fresh(q)
    BY <2>3, <2>4 DEF Fresh
  <2>7. CASE BanIsOver(t)
    <3>1. PICK es \in SUBSET Commands :
            /\ IsFresh(unban_team(t) \o q, es \cup Elems(q))
            /\ \A d \in es : d.do \in {"srem banned", "del until", "unban"}
            /\ \E d \in es : d.do = "srem banned" /\ d.teams = {t}
      BY <2>2, <2>4, <2>6, UnbanBefore
    <3>2. Continues(w, unban_team(t) \o q) /\ Elems(unban_team(t) \o q) = es \cup ({c} \cup Elems(r)) /\ Lifts(es, t)
      BY <1>1, <1>2, <2>4, <2>5, <2>7, <3>1 DEF Continues, IsFresh, Lifts
    <3> QED
      BY <2>2, <3>2 DEF r, ts
  <2>8. CASE ~BanIsOver(t)
    <3>1. Continues(w, q) /\ Lifts({}, t) /\ Elems(q) = {} \cup ({c} \cup Elems(r))
      BY <1>1, <1>2, <2>4, <2>5, <2>6, <2>8 DEF Continues, Lifts
    <3> QED
      BY <2>2, <3>1 DEF r, ts
  <2> QED
    BY <2>7, <2>8
<1> QED
  BY <1>4, <1>5

-----------------------------------------------------------------------------
(* What Redis and the gateway store.                                       *)

Nets == [state: NetStates \cup {"unset"}, banned: SUBSET Teams, until: [Teams -> 0..MaxTick],
         allowed: SUBSET Teams]
Managers == [state: NetStates, banned: SUBSET Teams, allowed: SUBSET Teams]

(* The keys after command c.                                               *)
IsWritten(n, c) ==
  /\ n \in Nets
  /\ n.state = IF c.do = "set state" THEN c.state ELSE net.state
  /\ n.banned = IF c.do = "sadd banned" THEN net.banned \cup c.teams
                ELSE IF c.do = "srem banned" THEN net.banned \ c.teams ELSE net.banned
  /\ n.allowed = IF c.do = "sadd permissions" THEN net.allowed \cup c.teams
                 ELSE IF c.do = "srem permissions" THEN net.allowed \ c.teams ELSE net.allowed
  /\ \A t \in Teams :
       n.until[t] = IF c.do = "set until" /\ c.teams = {t} THEN c.until
                    ELSE IF c.do = "del until" /\ c.teams = {t} THEN 0 ELSE net.until[t]

(* Written changes what the command is about, and nothing else.            *)
LEMMA WrittenFacts ==
  ASSUME net \in Nets, NEW c \in Commands, c.do \in Writes, c.do \in OnTeams => \E t \in Teams : c.teams = {t}
  PROVE  IsWritten(Written(c), c)
<1>1. c.state \in NetStates /\ c.teams \in SUBSET Teams /\ c.until \in 0..MaxTick /\ 0 \in 0..MaxTick
  BY CommandFields, ZeroType
<1>2. CASE c.do = "set state"
  BY <1>1, <1>2 DEF Written, IsWritten, Nets
<1>3. CASE c.do = "sadd banned"
  BY <1>1, <1>3 DEF Written, IsWritten, Nets
<1>4. CASE c.do = "srem banned"
  BY <1>1, <1>4 DEF Written, IsWritten, Nets
<1>5. CASE c.do = "sadd permissions"
  BY <1>1, <1>5 DEF Written, IsWritten, Nets
<1>6. CASE c.do = "srem permissions"
  BY <1>1, <1>6 DEF Written, IsWritten, Nets
<1>7. CASE c.do = "set until"
  <2>1. PICK t \in Teams : c.teams = {t} /\ TeamOf(c) = t
    BY <1>7, TeamOfOne DEF OnTeams, Writes
  <2>2. Written(c) = [net EXCEPT !.until[t] = c.until]
    BY <1>7, <2>1 DEF Written
  <2> DEFINE u == [net.until EXCEPT ![t] = c.until]
  <2>3. net.until \in [Teams -> 0..MaxTick]
    BY DEF Nets
  <2>4. u \in [Teams -> 0..MaxTick] /\ \A x \in Teams : u[x] = IF x = t THEN c.until ELSE net.until[x]
    BY <1>1, <2>1, <2>3
  <2>5. /\ Written(c) \in Nets /\ Written(c).until = u /\ Written(c).state = net.state
        /\ Written(c).banned = net.banned /\ Written(c).allowed = net.allowed
    <3> HIDE DEF u
    <3>1. Written(c) = [net EXCEPT !.until = u]
      BY <2>2 DEF u
    <3> QED
      BY <2>4, <3>1 DEF Nets
  <2>6. \A x \in Teams : c.teams = {x} <=> x = t
    BY <2>1
  <2> HIDE DEF u
  <2> QED
    BY <1>7, <2>4, <2>5, <2>6 DEF IsWritten
<1>8. CASE c.do = "del until"
  <2>1. PICK t \in Teams : c.teams = {t} /\ TeamOf(c) = t
    BY <1>8, TeamOfOne DEF OnTeams, Writes
  <2>2. Written(c) = [net EXCEPT !.until[t] = 0]
    BY <1>8, <2>1 DEF Written
  <2> DEFINE u == [net.until EXCEPT ![t] = 0]
  <2>3. net.until \in [Teams -> 0..MaxTick]
    BY DEF Nets
  <2>4. u \in [Teams -> 0..MaxTick] /\ \A x \in Teams : u[x] = IF x = t THEN 0 ELSE net.until[x]
    BY <1>1, <2>1, <2>3
  <2>5. /\ Written(c) \in Nets /\ Written(c).until = u /\ Written(c).state = net.state
        /\ Written(c).banned = net.banned /\ Written(c).allowed = net.allowed
    <3> HIDE DEF u
    <3>1. Written(c) = [net EXCEPT !.until = u]
      BY <2>2 DEF u
    <3> QED
      BY <2>4, <3>1 DEF Nets
  <2>6. \A x \in Teams : c.teams = {x} <=> x = t
    BY <2>1
  <2> HIDE DEF u
  <2> QED
    BY <1>8, <2>4, <2>5, <2>6 DEF IsWritten
<1> QED
  BY <1>2, <1>3, <1>4, <1>5, <1>6, <1>7, <1>8 DEF Writes

(* The manager after announcement c.                                       *)
IsHandled(m, c) ==
  /\ m \in Managers
  /\ m.state = IF c.do = "state" THEN c.state ELSE man.state
  /\ m.banned = IF c.do = "ban" THEN man.banned \cup c.teams
                ELSE IF c.do = "unban" THEN man.banned \ c.teams ELSE man.banned
  /\ m.allowed = IF c.do = "add_permission" THEN man.allowed \cup c.teams
                 ELSE IF c.do = "remove_permission" THEN man.allowed \ c.teams ELSE man.allowed

(* Listen changes what the announcement is about, and nothing else.        *)
LEMMA ListenFacts ==
  ASSUME TypeInv, OrderInv, Listen
  PROVE  /\ queue # <<>> /\ Head(queue) \in Commands /\ Head(queue).do \in Announcements
         /\ queue' = Tail(queue) /\ Tail(queue) \in Seq(Commands) /\ Elems(Tail(queue)) \subseteq Elems(queue)
         /\ IsHandled(man', Head(queue))
<1>1. queue # <<>> /\ queue' = Tail(queue) /\ queue \in Seq(Commands)
  BY DEF Listen, TypeInv
<1>2. Head(queue) \in Commands /\ Tail(queue) \in Seq(Commands) /\ Elems(queue) = {Head(queue)} \cup Elems(Tail(queue))
  BY <1>1, TailFacts, ElemsTail
<1>3. Head(queue).do \in Announcements
  BY <1>2 DEF OrderInv, QueueInv
<1> DEFINE c == Head(queue)
<1>4. man' = CASE c.do = "state" -> [man EXCEPT !.state = c.state]
               [] c.do = "ban" -> [man EXCEPT !.banned = @ \cup c.teams]
               [] c.do = "unban" -> [man EXCEPT !.banned = @ \ c.teams]
               [] c.do = "add_permission" -> [man EXCEPT !.allowed = @ \cup c.teams]
               [] c.do = "remove_permission" -> [man EXCEPT !.allowed = @ \ c.teams]
  BY DEF Listen
<1>5. c.state \in NetStates /\ c.teams \in SUBSET Teams
  BY <1>2, CommandFields
<1>6. man \in Managers
  BY DEF TypeInv, Managers
<1> HIDE DEF c
<1>7. IsHandled(man', c)
  <2>1. CASE c.do = "state"
    <3>1. man' = [man EXCEPT !.state = c.state]
      BY <1>4, <2>1
    <3> QED
      BY <1>5, <1>6, <2>1, <3>1 DEF IsHandled, Managers
  <2>2. CASE c.do = "ban"
    <3>1. man' = [man EXCEPT !.banned = @ \cup c.teams]
      BY <1>4, <2>2
    <3> QED
      BY <1>5, <1>6, <2>2, <3>1 DEF IsHandled, Managers
  <2>3. CASE c.do = "unban"
    <3>1. man' = [man EXCEPT !.banned = @ \ c.teams]
      BY <1>4, <2>3
    <3> QED
      BY <1>5, <1>6, <2>3, <3>1 DEF IsHandled, Managers
  <2>4. CASE c.do = "add_permission"
    <3>1. man' = [man EXCEPT !.allowed = @ \cup c.teams]
      BY <1>4, <2>4
    <3> QED
      BY <1>5, <1>6, <2>4, <3>1 DEF IsHandled, Managers
  <2>5. CASE c.do = "remove_permission"
    <3>1. man' = [man EXCEPT !.allowed = @ \ c.teams]
      BY <1>4, <2>5
    <3> QED
      BY <1>5, <1>6, <2>5, <3>1 DEF IsHandled, Managers
  <2> QED
    BY <1>3, <2>1, <2>2, <2>3, <2>4, <2>5 DEF Announcements, c
<1> QED
  BY <1>1, <1>2, <1>3, <1>7 DEF c

(* Writer w carries out its next command.                                  *)
LEMMA WriteFacts ==
  ASSUME TypeInv, OrderInv, NEW w \in Writers, Write(w)
  PROVE  LET c == Head(todo[w])
             r == Tail(todo[w])
         IN /\ todo[w] # <<>> /\ c \in Commands /\ c.do \in Writes /\ r \in Seq(Commands) /\ Ordered(r)
            /\ c.do \in OnTeams => \E t \in Teams : c.teams = {t}
            /\ r # <<>> /\ Head(r).do = After(c.do) /\ Head(r).teams = c.teams /\ Head(r).state = c.state
            /\ Elems(todo[w]) = {c} \cup Elems(r) /\ Head(r) \in Elems(r)
            /\ todo' = [todo EXCEPT ![w] = r] /\ IsWritten(net', c)
<1>1. todo[w] # <<>> /\ Head(todo[w]).do \in Writes /\ todo[w] \in Seq(Commands) /\ Ordered(todo[w])
  BY DEF Write, TypeInv, OrderInv, TodoInv
<1>2. todo' = [todo EXCEPT ![w] = Tail(todo[w])] /\ net' = Written(Head(todo[w]))
  BY DEF Write
<1>3. /\ Head(todo[w]) \in Commands /\ Tail(todo[w]) \in Seq(Commands) /\ Ordered(Tail(todo[w]))
      /\ Elems(todo[w]) = {Head(todo[w])} \cup Elems(Tail(todo[w]))
  BY <1>1, RestFresh
<1>4. /\ Head(todo[w]).do \in OnTeams => \E t \in Teams : Head(todo[w]).teams = {t}
      /\ Tail(todo[w]) # <<>> /\ Head(Tail(todo[w])).do = After(Head(todo[w]).do)
      /\ Head(Tail(todo[w])).teams = Head(todo[w]).teams /\ Head(Tail(todo[w])).state = Head(todo[w]).state
  BY <1>1, OrderedTail
<1>5. net \in Nets
  BY DEF TypeInv, Nets
<1>6. IsWritten(net', Head(todo[w]))
  BY <1>1, <1>2, <1>3, <1>4, <1>5, WrittenFacts
<1>7. Head(Tail(todo[w])) \in Elems(Tail(todo[w]))
  <2>1. PICK r \in Seq(Commands) : r = Tail(todo[w]) /\ r # <<>>
    BY <1>3, <1>4
  <2>2. Elems(r) = {Head(r)} \cup Elems(Tail(r))
    BY <2>1, ElemsTail
  <2> QED
    BY <2>1, <2>2
<1> QED
  BY <1>1, <1>2, <1>3, <1>4, <1>6, <1>7

(* Writer w announces what it has written.                                 *)
LEMMA AnnounceFacts ==
  ASSUME TypeInv, OrderInv, NEW w \in Writers, Announce(w)
  PROVE  LET c == Head(todo[w])
             r == Tail(todo[w])
         IN /\ todo[w] # <<>> /\ c \in Commands /\ c.do \in Announcements /\ r \in Seq(Commands) /\ Ordered(r)
            /\ Fresh(r) /\ Elems(todo[w]) = {c} \cup Elems(r)
            /\ c.do \in OnTeams => \E t \in Teams : c.teams = {t}
            /\ todo' = [todo EXCEPT ![w] = r]
<1>1. todo[w] # <<>> /\ Head(todo[w]).do \in Announcements /\ todo[w] \in Seq(Commands) /\ Ordered(todo[w])
  BY DEF Announce, TypeInv, OrderInv, TodoInv
<1>2. todo' = [todo EXCEPT ![w] = Tail(todo[w])]
  BY DEF Announce
<1>3. Head(todo[w]).do \notin Writes
  BY <1>1 DEF Announcements, Writes
<1>4. /\ Head(todo[w]) \in Commands /\ Tail(todo[w]) \in Seq(Commands) /\ Ordered(Tail(todo[w]))
      /\ Elems(todo[w]) = {Head(todo[w])} \cup Elems(Tail(todo[w])) /\ Fresh(Tail(todo[w]))
  BY <1>1, <1>3, RestFresh
<1>5. Head(todo[w]).do \in OnTeams => \E t \in Teams : Head(todo[w]).teams = {t}
  BY <1>1, OrderedTail
<1> QED
  BY <1>1, <1>2, <1>4, <1>5

-----------------------------------------------------------------------------
(* The steps.                                                              *)

(* A team registers, the chain is written, or nothing happens: of what the *)
(* invariant is about only the gateway's place changes.                    *)
Leaves ==
  /\ UNCHANGED <<net, todo, tick, man, queue, raced, missed, tooLate>>
  /\ gate' = gate \/ (gate' = "listen" /\ gate \in {"subscribe", "apply"})

(* Every step is one of the writers, one of the gateway, or Leaves.        *)
LEMMA Steps ==
  ASSUME [Next]_vars
  PROVE  \/ Panel \/ MasterTimer
         \/ \E w \in Writers : Write(w) \/ Announce(w) \/ Smembers(w) \/ Look(w)
         \/ ReadState \/ WriteDefault \/ ReadBanned \/ ReadPermissions \/ Listen \/ Disconnect
         \/ Leaves
<1>1. RegisterTeam => Leaves
  BY DEF RegisterTeam, Leaves, writers, history
<1>2. init_firewall => Leaves
  BY DEF init_firewall, Leaves, writers, history
<1>3. ApplyRules => Leaves
  BY DEF ApplyRules, Leaves, writers, history
<1>4. Watcher => Leaves
  BY DEF Watcher, WatcherStarts, WatcherWakes, WatcherBans, WatcherAllows, Leaves, writers, history
<1>5. UNCHANGED vars => Leaves
  BY DEF vars, Leaves, writers, history
<1> QED
  BY <1>1, <1>2, <1>3, <1>4, <1>5 DEF Next, Gateway

(* The types of the variables are kept.                                    *)
LEMMA TypeStep ==
  ASSUME TypeInv, OrderInv, [Next]_vars
  PROVE  TypeInv'
<1>0. /\ net \in Nets /\ man \in Managers /\ todo \in [Writers -> Seq(Commands)]
      /\ tick \in 0..MaxTick /\ queue \in Seq(Commands)
      /\ gate \in {"connect", "default", "read banned", "read permissions", "subscribe", "listen", "apply"}
      /\ raced \in BOOLEAN /\ missed \in BOOLEAN /\ tooLate \subseteq Teams
  BY DEF TypeInv, Nets, Managers
<1>1. CASE Panel
  <2>1. PICK s : /\ Starts("panel", s)
                 /\ UNCHANGED tooLate \/ \E t \in Teams : tooLate' \in {tooLate \cup {t}, tooLate \ {t}}
    BY <1>1, PanelStarts
  <2>2. UNCHANGED <<net, tick, gate, man, queue, missed>>
    BY <1>1 DEF Panel
  <2>3. "panel" \in Writers /\ todo' \in [Writers -> Seq(Commands)] /\ raced' \in BOOLEAN
    BY <1>0, <2>1 DEF Writers, Starts
  <2>4. tooLate' \subseteq Teams
    BY <1>0, <2>1
  <2> QED
    BY <1>0, <2>2, <2>3, <2>4 DEF TypeInv, Nets, Managers
<1>2. CASE MasterTimer
  <2>1. PICK s : /\ Starts("timer", s)
                 /\ tick' = tick \/ (tick' = tick + 1 /\ tick < MaxTick)
    BY <1>2, TimerStarts
  <2>2. UNCHANGED <<net, gate, man, queue, missed, tooLate>>
    BY <1>2 DEF MasterTimer
  <2>3. "timer" \in Writers /\ todo' \in [Writers -> Seq(Commands)] /\ raced' \in BOOLEAN
    BY <1>0, <2>1 DEF Writers, Starts
  <2>4. tick' \in 0..MaxTick
    <3>1. MaxTick \in Nat
      BY FirewallAssumption
    <3>2. tick \in 0..MaxTick
      BY <1>0
    <3>3. tick' = tick \/ (tick' = tick + 1 /\ tick < MaxTick)
      BY <2>1
    <3> QED
      BY <3>1, <3>2, <3>3
  <2> QED
    BY <1>0, <2>2, <2>3, <2>4 DEF TypeInv, Nets, Managers
<1>3. ASSUME NEW w \in Writers, Write(w)
      PROVE  TypeInv'
  <2>1. UNCHANGED <<tick, gate, man, queue, raced, missed, tooLate>>
    BY <1>3 DEF Write, history
  <2>2. net' \in Nets /\ todo' \in [Writers -> Seq(Commands)]
    <3>1. Tail(todo[w]) \in Seq(Commands) /\ todo' = [todo EXCEPT ![w] = Tail(todo[w])] /\ IsWritten(net', Head(todo[w]))
      BY <1>3, WriteFacts
    <3> QED
      BY <1>0, <3>1 DEF IsWritten
  <2> QED
    BY <1>0, <2>1, <2>2 DEF TypeInv, Nets, Managers
<1>4. ASSUME NEW w \in Writers, Announce(w)
      PROVE  TypeInv'
  <2>1. UNCHANGED <<net, tick, gate, man, raced, tooLate>>
    BY <1>4 DEF Announce
  <2>2. todo' \in [Writers -> Seq(Commands)] /\ Head(todo[w]) \in Commands
    <3>1. /\ Tail(todo[w]) \in Seq(Commands) /\ todo' = [todo EXCEPT ![w] = Tail(todo[w])]
          /\ Head(todo[w]) \in Commands
      BY <1>4, AnnounceFacts
    <3> QED
      BY <1>0, <3>1
  <2>3. queue' \in Seq(Commands)
    <3>1. queue' = Append(queue, Head(todo[w])) \/ queue' = queue
      BY <1>4 DEF Announce
    <3>2. PICK c \in Commands : queue' = Append(queue, c) \/ queue' = queue
      BY <2>2, <3>1
    <3>3. queue \in Seq(Commands)
      BY <1>0
    <3> QED
      BY <3>2, <3>3
  <2>4. missed' \in BOOLEAN
    BY <1>0, <1>4 DEF Announce
  <2> QED
    BY <1>0, <2>1, <2>2, <2>3, <2>4 DEF TypeInv, Nets, Managers
<1>5. ASSUME NEW w \in Writers, Smembers(w) \/ Look(w)
      PROVE  TypeInv'
  <2>1. UNCHANGED <<net, tick, gate, man, queue, raced, missed, tooLate>>
    BY <1>5 DEF Smembers, Look, history
  <2>2. PICK s : Continues(w, s)
    BY <1>5, SmembersContinues, LookContinues
  <2>3. todo' \in [Writers -> Seq(Commands)]
    BY <1>0, <2>2 DEF Continues
  <2> QED
    BY <1>0, <2>1, <2>3 DEF TypeInv, Nets, Managers
<1>6. CASE ReadState
  <2>1. UNCHANGED <<net, todo, tick, queue, raced, tooLate>> /\ missed' = FALSE /\ gate' \in {"default", "read banned"}
    BY <1>6 DEF ReadState, writers
  <2>2. man' \in Managers
    BY <1>0, <1>6 DEF ReadState, NewManager, NetStates, Nets, Managers
  <2> QED
    BY <1>0, <2>1, <2>2 DEF TypeInv, Nets, Managers
<1>7. CASE WriteDefault
  <2>1. UNCHANGED <<todo, tick, man, queue, missed, tooLate>> /\ gate' = "read banned"
    BY <1>7 DEF WriteDefault, writers
  <2>2. net' \in Nets /\ raced' \in BOOLEAN
    BY <1>0, <1>7 DEF WriteDefault, Nets, NetStates
  <2> QED
    BY <1>0, <2>1, <2>2 DEF TypeInv, Nets, Managers
<1>8. CASE ReadBanned
  <2>1. UNCHANGED <<net, todo, tick, queue, raced, missed, tooLate>> /\ gate' = "read permissions"
    BY <1>8 DEF ReadBanned, writers, history
  <2>2. man' \in Managers
    BY <1>0, <1>8 DEF ReadBanned, Nets, Managers
  <2> QED
    BY <1>0, <2>1, <2>2 DEF TypeInv, Nets, Managers
<1>9. CASE ReadPermissions
  <2>1. UNCHANGED <<net, todo, tick, queue, raced, missed, tooLate>> /\ gate' = "subscribe"
    BY <1>9 DEF ReadPermissions, writers, history
  <2>2. man' \in Managers
    BY <1>0, <1>9 DEF ReadPermissions, Nets, Managers
  <2> QED
    BY <1>0, <2>1, <2>2 DEF TypeInv, Nets, Managers
<1>10. CASE Listen
  <2>1. UNCHANGED <<net, todo, tick, raced, missed, tooLate>> /\ gate' = "apply"
    BY <1>10 DEF Listen, writers, history
  <2>2. man' \in Managers /\ queue' \in Seq(Commands)
    BY <1>10, ListenFacts DEF IsHandled
  <2> QED
    BY <1>0, <2>1, <2>2 DEF TypeInv, Nets, Managers
<1>11. CASE Disconnect
  <2>1. UNCHANGED <<net, todo, tick, raced, missed, tooLate>> /\ gate' = "connect" /\ queue' = <<>> /\ man' = NewManager
    BY <1>11 DEF Disconnect, writers, history
  <2>2. NewManager \in Managers /\ <<>> \in Seq(Commands)
    BY DEF NewManager, NetStates, Managers
  <2> QED
    BY <1>0, <2>1, <2>2 DEF TypeInv, Nets, Managers
<1>12. CASE Leaves
  BY <1>0, <1>12 DEF Leaves, TypeInv, Nets, Managers
<1> QED
  BY <1>1, <1>2, <1>3, <1>4, <1>5, <1>6, <1>7, <1>8, <1>9, <1>10, <1>11, <1>12, Steps

(* Writer w, which alone was busy, or is the only one from now on without  *)
(* a race, has now the commands s.                                         *)
LEMMA TodoReplaced ==
  ASSUME TypeInv, TodoInv, NEW w \in Writers, NEW s \in Seq(Commands), Ordered(s),
         todo' = [todo EXCEPT ![w] = s], raced => raced',
         w = "timer" => \A c \in Elems(s) : c.do \notin Permissions,
         ~raced' => todo[w] # <<>> \/ \A v \in Writers \ {w} : todo[v] = <<>>
  PROVE  TodoInv'
<1>1. todo \in [Writers -> Seq(Commands)] /\ raced \in BOOLEAN
  BY DEF TypeInv
<1>2. \A v \in Writers : todo'[v] = IF v = w THEN s ELSE todo[v]
  BY <1>1
<1>3. ASSUME NEW v \in Writers PROVE Ordered(todo'[v])
  BY <1>2 DEF TodoInv
<1>4. \A c \in Elems(todo'["timer"]) : c.do \notin Permissions
  <2>1. todo'["timer"] = IF "timer" = w THEN s ELSE todo["timer"]
    BY <1>2 DEF Writers
  <2> QED
    BY <2>1 DEF TodoInv
<1>5. ~raced' => todo'["panel"] = <<>> \/ todo'["timer"] = <<>>
  BY <1>2 DEF TodoInv, Writers
<1> QED
  BY <1>3, <1>4, <1>5 DEF TodoInv

(* Commands stay in order.                                                 *)
LEMMA OrderStep ==
  ASSUME TypeInv, OrderInv, [Next]_vars
  PROVE  OrderInv'
<1>0. TodoInv /\ QueueInv /\ raced \in BOOLEAN
  BY DEF OrderInv, TypeInv
<1>1. CASE Panel
  <2>1. PICK s : Starts("panel", s)
    BY <1>1, PanelStarts
  <2>2. "panel" \in Writers /\ "panel" # "timer" /\ UNCHANGED <<gate, queue>>
    BY <1>1 DEF Panel, Writers
  <2>3. TodoInv'
    BY <1>0, <2>1, <2>2, TodoReplaced DEF Starts
  <2> QED
    BY <1>0, <2>2, <2>3 DEF OrderInv, QueueInv, Subscribed
<1>2. CASE MasterTimer
  <2>1. PICK s : Starts("timer", s) /\ \A c \in Elems(s) : c.do \notin Permissions
    BY <1>2, TimerStarts
  <2>2. "timer" \in Writers /\ UNCHANGED <<gate, queue>>
    BY <1>2 DEF MasterTimer, Writers
  <2>3. TodoInv'
    BY <1>0, <2>1, <2>2, TodoReplaced DEF Starts
  <2> QED
    BY <1>0, <2>2, <2>3 DEF OrderInv, QueueInv, Subscribed
<1>3. ASSUME NEW w \in Writers, Write(w)
      PROVE  OrderInv'
  <2>1. UNCHANGED <<gate, queue, raced>>
    BY <1>3 DEF Write, history
  <2>2. PICK s \in Seq(Commands) :
          Ordered(s) /\ todo[w] # <<>> /\ todo' = [todo EXCEPT ![w] = s] /\ Elems(s) \subseteq Elems(todo[w])
    BY <1>3, WriteFacts
  <2>3. TodoInv'
    <3>1. w = "timer" => \A c \in Elems(s) : c.do \notin Permissions
      BY <1>0, <2>2 DEF TodoInv
    <3> QED
      BY <1>0, <2>1, <2>2, <3>1, TodoReplaced
  <2> QED
    BY <1>0, <2>1, <2>3 DEF OrderInv, QueueInv, Subscribed
<1>4. ASSUME NEW w \in Writers, Announce(w)
      PROVE  OrderInv'
  <2>1. UNCHANGED <<gate, raced>>
    BY <1>4 DEF Announce
  <2>2. PICK s \in Seq(Commands) :
          Ordered(s) /\ todo[w] # <<>> /\ todo' = [todo EXCEPT ![w] = s] /\ Elems(s) \subseteq Elems(todo[w])
    BY <1>4, AnnounceFacts
  <2>3. TodoInv'
    <3>1. w = "timer" => \A c \in Elems(s) : c.do \notin Permissions
      BY <1>0, <2>2 DEF TodoInv
    <3> QED
      BY <1>0, <2>1, <2>2, <3>1, TodoReplaced
  <2>4. queue \in Seq(Commands) /\ Head(todo[w]) \in Commands /\ Head(todo[w]).do \in Announcements
    BY <1>4, AnnounceFacts DEF TypeInv
  <2>5. queue' = IF Subscribed THEN Append(queue, Head(todo[w])) ELSE queue
    BY <1>4 DEF Announce
  <2>6. Elems(Append(queue, Head(todo[w]))) = Elems(queue) \cup {Head(todo[w])}
    BY <2>4, ElemsAppend
  <2>7. QueueInv'
    <3>1. Subscribed' <=> Subscribed
      BY <2>1 DEF Subscribed
    <3>2. ~Subscribed => queue' = <<>>
      BY <1>0, <2>5 DEF QueueInv
    <3>3. \A c \in Elems(queue') : c.do \in Announcements
      BY <1>0, <2>4, <2>5, <2>6 DEF QueueInv
    <3> QED
      BY <3>1, <3>2, <3>3 DEF QueueInv
  <2> QED
    BY <2>3, <2>7 DEF OrderInv
<1>5. ASSUME NEW w \in Writers, Smembers(w) \/ Look(w)
      PROVE  OrderInv'
  <2>1. UNCHANGED <<gate, queue, raced>>
    BY <1>5 DEF Smembers, Look, history
  <2>2. todo[w] # <<>>
    BY <1>5 DEF Smembers, Look
  <2>3. PICK s : Continues(w, s) /\ \A c \in Elems(s) : c \in Elems(todo[w]) \/ c.do \notin Permissions
    <3>1. Elems(Tail(todo[w])) \subseteq Elems(todo[w])
      BY <2>2, RestFresh
    <3>2. CASE Smembers(w)
      BY <3>1, <3>2, SmembersContinues DEF Permissions
    <3>3. CASE Look(w)
      <4>1. PICK s : /\ Continues(w, s)
                     /\ \/ Elems(s) = Elems(Tail(todo[w]))
                        \/ \E t \in Head(todo[w]).teams, c \in Commands, es \in SUBSET Commands :
                             /\ Elems(s) = es \cup ({c} \cup Elems(Tail(todo[w])))
                             /\ c.do = "look" /\ Lifts(es, t)
        BY <3>3, LookContinues
      <4>2. CASE Elems(s) = Elems(Tail(todo[w]))
        BY <3>1, <4>1, <4>2
      <4>3. CASE \E t \in Head(todo[w]).teams, c \in Commands, es \in SUBSET Commands :
                   /\ Elems(s) = es \cup ({c} \cup Elems(Tail(todo[w])))
                   /\ c.do = "look" /\ Lifts(es, t)
        BY <3>1, <4>1, <4>3 DEF Lifts, Permissions
      <4> QED
        BY <4>1, <4>2, <4>3
    <3> QED
      BY <1>5, <3>2, <3>3
  <2>4. TodoInv'
    <3>1. w = "timer" => \A c \in Elems(s) : c.do \notin Permissions
      BY <1>0, <2>3 DEF TodoInv
    <3> QED
      BY <1>0, <2>1, <2>2, <2>3, <3>1, TodoReplaced DEF Continues
  <2> QED
    BY <1>0, <2>1, <2>4 DEF OrderInv, QueueInv, Subscribed
<1>6. CASE ReadState
  <2>1. UNCHANGED <<todo, queue, raced>> /\ gate = "connect" /\ gate' \in {"default", "read banned"}
    BY <1>6 DEF ReadState, writers
  <2> QED
    BY <1>0, <2>1 DEF OrderInv, TodoInv, QueueInv, Subscribed
<1>7. CASE WriteDefault
  <2>1. UNCHANGED <<todo, queue>> /\ (raced => raced') /\ gate = "default" /\ gate' = "read banned"
    BY <1>0, <1>7 DEF WriteDefault, writers
  <2> QED
    BY <1>0, <2>1 DEF OrderInv, TodoInv, QueueInv, Subscribed
<1>8. CASE ReadBanned \/ ReadPermissions
  <2>1. /\ UNCHANGED <<todo, queue, raced>> /\ gate \in {"read banned", "read permissions"}
        /\ gate' \in {"read permissions", "subscribe"}
    BY <1>8 DEF ReadBanned, ReadPermissions, writers, history
  <2> QED
    BY <1>0, <2>1 DEF OrderInv, TodoInv, QueueInv, Subscribed
<1>9. CASE Listen
  <2>1. UNCHANGED <<todo, raced>> /\ gate' = "apply"
    BY <1>9 DEF Listen, writers, history
  <2>2. queue' = Tail(queue) /\ Elems(Tail(queue)) \subseteq Elems(queue)
    BY <1>9, ListenFacts
  <2>3. QueueInv'
    BY <1>0, <2>1, <2>2 DEF QueueInv, Subscribed
  <2> QED
    BY <1>0, <2>1, <2>3 DEF OrderInv, TodoInv
<1>10. CASE Disconnect
  <2>1. UNCHANGED <<todo, raced>> /\ queue' = <<>> /\ Elems(<<>>) = {}
    BY <1>10, ElemsEmpty DEF Disconnect, writers, history
  <2>2. QueueInv'
    BY <2>1 DEF QueueInv
  <2> QED
    BY <1>0, <2>1, <2>2 DEF OrderInv, TodoInv
<1>11. CASE Leaves
  <2>1. UNCHANGED <<todo, raced, queue>> /\ (~Subscribed' => ~Subscribed)
    BY <1>11 DEF Leaves, Subscribed
  <2> QED
    BY <1>0, <2>1 DEF OrderInv, TodoInv, QueueInv
<1> QED
  BY <1>1, <1>2, <1>3, <1>4, <1>5, <1>6, <1>7, <1>8, <1>9, <1>10, <1>11, Steps

-----------------------------------------------------------------------------
(* Steps that leave what was written and not announced as it is.           *)

Quiet == \A w \in Writers : todo'[w] = todo[w] \/ (Fresh(todo[w]) /\ Fresh(todo'[w]))
Mild ==
  /\ Quiet /\ (raced => raced')
  /\ UNCHANGED <<net, man, queue, missed>>
  /\ gate' = gate \/ (gate' = "listen" /\ gate \in {"subscribe", "apply"})

(* The steps that leave it: all of the writers but writes and announcements. *)
LEMMA MildSteps ==
  ASSUME TypeInv, OrderInv, Panel \/ MasterTimer \/ Leaves \/ \E w \in Writers : Smembers(w) \/ Look(w)
  PROVE  Mild
<1>0. todo \in [Writers -> Seq(Commands)] /\ raced \in BOOLEAN
  BY DEF TypeInv
<1>1. ASSUME NEW w \in Writers, NEW s, Starts(w, s) PROVE Quiet /\ (raced => raced')
  BY <1>0, <1>1 DEF Starts, Quiet, Fresh
<1>2. ASSUME NEW w \in Writers, NEW s, Continues(w, s) PROVE Quiet
  BY <1>0, <1>2 DEF Continues, Quiet
<1>3. CASE Panel
  <2>1. UNCHANGED <<net, gate, man, queue, missed>> /\ "panel" \in Writers
    BY <1>3 DEF Panel, Writers
  <2>2. \E s : Starts("panel", s)
    BY <1>3, PanelStarts
  <2> QED
    BY <1>1, <2>1, <2>2 DEF Mild
<1>4. CASE MasterTimer
  <2>1. UNCHANGED <<net, gate, man, queue, missed>> /\ "timer" \in Writers
    BY <1>4 DEF MasterTimer, Writers
  <2>2. \E s : Starts("timer", s)
    BY <1>4, TimerStarts
  <2> QED
    BY <1>1, <2>1, <2>2 DEF Mild
<1>5. CASE Leaves
  BY <1>5 DEF Leaves, Mild, Quiet
<1>6. ASSUME NEW w \in Writers, Smembers(w) \/ Look(w) PROVE Mild
  <2>1. UNCHANGED <<net, gate, man, queue, missed, raced>>
    BY <1>6 DEF Smembers, Look, history
  <2>2. \E s : Continues(w, s)
    BY <1>6, SmembersContinues, LookContinues
  <2> QED
    BY <1>2, <2>1, <2>2 DEF Mild
<1> QED
  BY <1>3, <1>4, <1>5, <1>6

(* A quiet step changes no command that is within an operation.            *)
LEMMA QuietNext ==
  ASSUME Quiet, NEW w \in Writers, NEW dos \in SUBSET Inner
  PROVE  /\ Next1(w, dos)' <=> Next1(w, dos)
         /\ Next1(w, dos) => todo'[w] = todo[w]
         /\ \A t : NextOn(w, dos, t)' <=> NextOn(w, dos, t)
BY DEF Quiet, Fresh, Next1, NextOn

(* Such steps keep what the gateway will know.                             *)
LEMMA MildKeeps ==
  ASSUME StateInv, BannedInv, AllowedInv, Mild
  PROVE  StateInv' /\ BannedInv' /\ AllowedInv'
<1>1. {"state"} \in SUBSET Inner /\ {"set until", "ban"} \in SUBSET Inner /\ {"del until", "unban"} \in SUBSET Inner
  BY DEF Inner, Announcements
<1>2. /\ {"set until", "ban", "del until", "unban"} \in SUBSET Inner /\ {"add_permission"} \in SUBSET Inner
      /\ {"remove_permission"} \in SUBSET Inner /\ {"add_permission", "remove_permission"} \in SUBSET Inner
      /\ "panel" \in Writers
  BY DEF Inner, Announcements, Writers
<1>3. Quiet /\ (raced => raced') /\ UNCHANGED <<net, man, queue, missed>>
  BY DEF Mild
<1>4. (HasState' <=> HasState) /\ (HasBanned' <=> HasBanned) /\ (HasAllowed' <=> HasAllowed)
  BY DEF Mild, HasState, HasBanned, HasAllowed
<1>5. gate' = "default" <=> gate = "default"
  BY DEF Mild
<1>6. StateInv'
  <2>1. \A w \in Writers : /\ Next1(w, {"state"})' <=> Next1(w, {"state"})
                           /\ Next1(w, {"state"}) => todo'[w] = todo[w]
    BY <1>1, <1>3, QuietNext
  <2> QED
    BY <1>3, <1>4, <1>5, <2>1 DEF StateInv
<1>7. BannedInv'
  <2>1. \A w \in Writers, t \in Teams :
          /\ NextOn(w, {"set until", "ban"}, t)' <=> NextOn(w, {"set until", "ban"}, t)
          /\ NextOn(w, {"del until", "unban"}, t)' <=> NextOn(w, {"del until", "unban"}, t)
          /\ NextOn(w, {"set until", "ban", "del until", "unban"}, t)'
               <=> NextOn(w, {"set until", "ban", "del until", "unban"}, t)
    BY <1>1, <1>2, <1>3, QuietNext
  <2> QED
    BY <1>3, <1>4, <2>1 DEF BannedInv
<1>8. AllowedInv'
  <2>1. \A t \in Teams :
          /\ NextOn("panel", {"add_permission"}, t)' <=> NextOn("panel", {"add_permission"}, t)
          /\ NextOn("panel", {"remove_permission"}, t)' <=> NextOn("panel", {"remove_permission"}, t)
          /\ NextOn("panel", {"add_permission", "remove_permission"}, t)'
               <=> NextOn("panel", {"add_permission", "remove_permission"}, t)
    BY <1>2, <1>3, QuietNext
  <2> QED
    BY <1>3, <1>4, <2>1 DEF AllowedInv
<1> QED
  BY <1>6, <1>7, <1>8

(* A busy writer is alone when nobody raced.                               *)
LEMMA Alone ==
  ASSUME TypeInv, TodoInv, ~raced, NEW w \in Writers, todo[w] # <<>>, NEW r, todo' = [todo EXCEPT ![w] = r]
  PROVE  todo'[w] = r /\ \A v \in Writers : v # w => todo[v] = <<>> /\ todo'[v] = <<>>
BY DEF TypeInv, TodoInv, Writers

-----------------------------------------------------------------------------
(* The gateway will know the state.                                        *)
LEMMA StateStep ==
  ASSUME TypeInv, OrderInv, StateInv, BannedInv, AllowedInv, [Next]_vars
  PROVE  StateInv'
<1>0. /\ TodoInv /\ QueueInv /\ queue \in Seq(Commands) /\ raced \in BOOLEAN /\ man \in Managers /\ net \in Nets
  BY DEF OrderInv, TypeInv, Nets, Managers
<1>1. CASE Mild
  BY <1>1, MildKeeps
<1>2. ASSUME NEW w \in Writers, Write(w)
      PROVE  StateInv'
  <2> SUFFICES ASSUME ~raced' PROVE StateInv'
    BY DEF StateInv
  <2>1. UNCHANGED <<gate, man, queue, raced, missed>> /\ ~raced
    BY <1>2 DEF Write, history
  <2>2. PICK c \in Commands, r \in Seq(Commands) :
          /\ c = Head(todo[w]) /\ r = Tail(todo[w]) /\ todo[w] # <<>> /\ c.do \in Writes
          /\ r # <<>> /\ Head(r).do = After(c.do) /\ Head(r).state = c.state
          /\ todo' = [todo EXCEPT ![w] = r] /\ IsWritten(net', c)
    BY <1>2, WriteFacts
  <2>3. todo'[w] = r /\ \A v \in Writers : v # w => todo[v] = <<>> /\ todo'[v] = <<>>
    BY <1>0, <2>1, <2>2, Alone
  <2>4. After(c.do) = "state" <=> c.do = "set state"
    BY <2>2 DEF After, Writes
  <2>5. \A v \in Writers : ~Next1(v, {"state"})
    BY <2>2, <2>3 DEF Next1, Writes
  <2>6. \A v \in Writers : Next1(v, {"state"})' => v = w /\ c.do = "set state" /\ Head(todo'[v]).state = c.state
    BY <2>2, <2>3, <2>4 DEF Next1
  <2>7. c.do = "set state" => Next1(w, {"state"})'
    BY <2>2, <2>3, <2>4 DEF Next1
  <2>8. net'.state = IF c.do = "set state" THEN c.state ELSE net.state
    BY <2>2 DEF IsWritten
  <2>9. HasState' <=> HasState
    BY <2>1 DEF HasState
  <2> QED
    BY <2>1, <2>5, <2>6, <2>7, <2>8, <2>9 DEF StateInv
<1>3. ASSUME NEW w \in Writers, Announce(w)
      PROVE  StateInv'
  <2> SUFFICES ASSUME ~raced' PROVE StateInv'
    BY DEF StateInv
  <2>1. UNCHANGED <<net, gate, man, raced>> /\ ~raced /\ missed' = (missed \/ HasRead)
    BY <1>3 DEF Announce
  <2>2. PICK c \in Commands, r \in Seq(Commands) :
          /\ c = Head(todo[w]) /\ todo[w] # <<>> /\ c.do \in Announcements /\ Fresh(r)
          /\ todo' = [todo EXCEPT ![w] = r]
    BY <1>3, AnnounceFacts
  <2>3. todo'[w] = r /\ \A v \in Writers : v # w => todo[v] = <<>> /\ todo'[v] = <<>>
    BY <1>0, <2>1, <2>2, Alone
  <2>4. \A v \in Writers : ~Next1(v, {"state"})'
    BY <2>2, <2>3 DEF Next1, Fresh, Inner, Announcements
  <2>5. \A v \in Writers : Next1(v, {"state"}) <=> v = w /\ c.do = "state"
    BY <2>2, <2>3 DEF Next1
  <2>6. ASSUME HasState' PROVE StateAfter(queue', man'.state, net'.state)
    <3>1. HasState /\ Subscribed /\ gate # "default"
      BY <2>1, <2>6 DEF HasState, HasRead, Subscribed, TypeInv
    <3>2. queue' = Append(queue, c)
      BY <1>3, <2>2, <3>1 DEF Announce
    <3>3. CASE c.do = "state"
      <4>1. net.state = c.state
        BY <2>1, <2>2, <2>5, <3>3 DEF StateInv
      <4> QED
        BY <1>0, <2>1, <3>2, <3>3, <4>1, StateAppend
    <3>4. CASE c.do # "state"
      <4>1. StateAfter(queue, man.state, net.state)
        BY <2>1, <2>5, <3>1, <3>4 DEF StateInv
      <4> QED
        BY <1>0, <2>1, <3>2, <3>4, <4>1, StateAppend
    <3> QED
      BY <3>3, <3>4
  <2> QED
    BY <2>4, <2>6 DEF StateInv
<1>4. CASE ReadState
  <2>1. UNCHANGED <<net, todo, raced>> /\ queue' = <<>>
    BY <1>0, <1>4 DEF ReadState, writers, QueueInv, Subscribed
  <2>2. /\ man'.state = IF net.state = "unset" THEN "off" ELSE net.state
        /\ gate' = IF net.state = "unset" THEN "default" ELSE "read banned"
    BY <1>4 DEF ReadState, NewManager
  <2>3. \A v \in Writers : Next1(v, {"state"})' <=> Next1(v, {"state"})
    BY <2>1 DEF Next1
  <2> QED
    BY <2>1, <2>2, <2>3, AfterNone DEF StateInv
<1>5. CASE WriteDefault
  <2> SUFFICES ASSUME ~raced' PROVE StateInv'
    BY DEF StateInv
  <2>1. /\ UNCHANGED <<todo, man, queue, missed>> /\ ~raced /\ net.state = "unset" /\ gate = "default"
        /\ gate' = "read banned"
    BY <1>0, <1>5 DEF WriteDefault, writers
  <2>2. net'.state = "off"
    BY <1>0, <1>5 DEF WriteDefault, Nets
  <2>3. queue = <<>> /\ man.state # "unset"
    BY <1>0, <2>1 DEF QueueInv, Subscribed, Managers, NetStates
  <2>4. \A v \in Writers : ~Next1(v, {"state"})
    <3> SUFFICES ASSUME NEW v \in Writers, Next1(v, {"state"}) PROVE FALSE
      OBVIOUS
    <3>1. net.state = Head(todo[v]).state
      BY <2>1 DEF StateInv
    <3>2. Head(todo[v]) \in Commands
      BY RestFresh DEF Next1
    <3> QED
      BY <2>1, <3>1, <3>2, CommandFields DEF NetStates
  <2>5. \A v \in Writers : ~Next1(v, {"state"})'
    BY <2>1, <2>4 DEF Next1
  <2>6. HasState' => man.state = "off"
    BY <2>1, <2>3, <2>4, AfterNone DEF StateInv, HasState
  <2> QED
    BY <2>1, <2>2, <2>3, <2>5, <2>6, AfterNone DEF StateInv
<1>6. CASE ReadBanned \/ ReadPermissions
  <2>1. /\ UNCHANGED <<net, todo, queue, raced, missed>> /\ man'.state = man.state
        /\ gate \notin {"connect", "default"} /\ gate' \notin {"connect", "default"}
    BY <1>0, <1>6 DEF ReadBanned, ReadPermissions, writers, history, Managers
  <2>2. \A v \in Writers : Next1(v, {"state"})' <=> Next1(v, {"state"})
    BY <2>1 DEF Next1
  <2> QED
    BY <2>1, <2>2 DEF StateInv, HasState
<1>7. CASE Listen
  <2>1. /\ UNCHANGED <<net, todo, raced, missed>>
        /\ gate = "listen" /\ gate' = "apply" /\ queue # <<>> /\ queue' = Tail(queue)
    BY <1>7 DEF Listen, writers, history
  <2>2. IF Head(queue).do = "state" THEN man'.state = Head(queue).state ELSE man'.state = man.state
    BY <1>7, ListenFacts DEF IsHandled
  <2>3. StateAfter(queue, man.state, net.state) => StateAfter(queue', man'.state, net.state)
    BY <1>0, <2>1, <2>2, StateTail
  <2>4. \A v \in Writers : Next1(v, {"state"})' <=> Next1(v, {"state"})
    BY <2>1 DEF Next1
  <2> QED
    BY <2>1, <2>3, <2>4 DEF StateInv, HasState
<1>8. CASE Disconnect
  <2>1. UNCHANGED <<net, todo, raced>> /\ gate' = "connect"
    BY <1>8 DEF Disconnect, writers, history
  <2>2. \A v \in Writers : Next1(v, {"state"})' <=> Next1(v, {"state"})
    BY <2>1 DEF Next1
  <2> QED
    BY <2>1, <2>2 DEF StateInv, HasState
<1> QED
  BY <1>1, <1>2, <1>3, <1>4, <1>5, <1>6, <1>7, <1>8, Steps, MildSteps

(* The gateway will know which teams are banned.                           *)
LEMMA BannedStep ==
  ASSUME TypeInv, OrderInv, StateInv, BannedInv, AllowedInv, [Next]_vars
  PROVE  BannedInv'
<1>0. /\ TodoInv /\ QueueInv /\ queue \in Seq(Commands) /\ raced \in BOOLEAN /\ man \in Managers /\ net \in Nets
  BY DEF OrderInv, TypeInv, Nets, Managers
<1> DEFINE Ban == {"set until", "ban"}
           Unban == {"del until", "unban"}
           Both == {"set until", "ban", "del until", "unban"}
           Goal(t) == /\ \A w \in Writers : NextOn(w, Ban, t)' => t \in net'.banned
                      /\ \A w \in Writers : NextOn(w, Unban, t)' => t \notin net'.banned
                      /\ HasBanned' /\ (\A w \in Writers : ~NextOn(w, Both, t)') =>
                           (MemberAfter(queue', man'.banned, t, "ban", "unban") <=> t \in net'.banned)
           Now(t) == /\ \A w \in Writers : NextOn(w, Ban, t) => t \in net.banned
                     /\ \A w \in Writers : NextOn(w, Unban, t) => t \notin net.banned
                     /\ HasBanned /\ (\A w \in Writers : ~NextOn(w, Both, t)) =>
                          (MemberAfter(queue, man.banned, t, "ban", "unban") <=> t \in net.banned)
<1>1. CASE Mild
  BY <1>1, MildKeeps
<1>2. ASSUME ~raced' => ~raced /\ \A t \in Teams : Goal(t) PROVE BannedInv'
  BY <1>2 DEF BannedInv
<1>3. ~raced => \A t \in Teams : Now(t)
  BY DEF BannedInv
<1>4. ASSUME NEW w \in Writers, Write(w), ~raced', NEW t \in Teams
      PROVE  ~raced /\ Goal(t)
  <2>1. UNCHANGED <<gate, man, queue, raced, missed>> /\ ~raced
    BY <1>4 DEF Write, history
  <2>2. PICK c \in Commands, r \in Seq(Commands) :
          /\ c = Head(todo[w]) /\ r = Tail(todo[w]) /\ todo[w] # <<>> /\ c.do \in Writes
          /\ c.do \in OnTeams => \E u \in Teams : c.teams = {u}
          /\ r # <<>> /\ Head(r).do = After(c.do) /\ Head(r).teams = c.teams
          /\ todo' = [todo EXCEPT ![w] = r] /\ IsWritten(net', c)
    BY <1>4, WriteFacts
  <2>3. todo'[w] = r /\ \A v \in Writers : v # w => todo[v] = <<>> /\ todo'[v] = <<>>
    BY <1>0, <2>1, <2>2, Alone
  <2>4. /\ net'.banned = IF c.do = "sadd banned" THEN net.banned \cup c.teams
                         ELSE IF c.do = "srem banned" THEN net.banned \ c.teams ELSE net.banned
        /\ HasBanned' <=> HasBanned
    BY <2>1, <2>2 DEF IsWritten, HasBanned
  <2>5. \A v \in Writers : \A dos : /\ NextOn(v, dos, t)' <=> v = w /\ After(c.do) \in dos /\ c.teams = {t}
                                    /\ NextOn(v, dos, t) <=> v = w /\ c.do \in dos /\ c.teams = {t}
    BY <2>2, <2>3 DEF NextOn, Next1
  <2>6. Now(t)
    BY <1>3, <2>1
  <2>7. CASE c.teams # {t} \/ c.do \notin {"sadd banned", "set until", "srem banned", "del until"}
    <3>1. t \in net'.banned <=> t \in net.banned
      BY <2>2, <2>4, <2>7 DEF OnTeams, Writes
    <3>2. \A v \in Writers : ~NextOn(v, Both, t)' /\ ~NextOn(v, Ban, t)' /\ ~NextOn(v, Unban, t)' /\ ~NextOn(v, Both, t)
      <4>1. c.do \notin {"sadd banned", "set until", "srem banned", "del until"} => After(c.do) \notin Both /\ c.do \notin Both
        BY <2>2 DEF After, Writes
      <4>2. c.teams = {t} => After(c.do) \notin Both /\ c.do \notin Both
        BY <2>7, <4>1
      <4> QED
        BY <2>5, <4>2
    <3> QED
      BY <2>1, <2>4, <2>6, <3>1, <3>2
  <2>8. CASE c.teams = {t} /\ c.do \in {"sadd banned", "set until"}
    <3>1. After(c.do) \in Ban /\ After(c.do) \notin Unban /\ After(c.do) \in Both
      BY <2>8 DEF After
    <3>2. t \in net'.banned
      BY <2>4, <2>5, <2>6, <2>8
    <3> QED
      BY <2>1, <2>5, <2>8, <3>1, <3>2
  <2>9. CASE c.teams = {t} /\ c.do \in {"srem banned", "del until"}
    <3>1. After(c.do) \in Unban /\ After(c.do) \notin Ban /\ After(c.do) \in Both
      BY <2>9 DEF After
    <3>2. t \notin net'.banned
      BY <2>4, <2>5, <2>6, <2>9
    <3> QED
      BY <2>1, <2>5, <2>9, <3>1, <3>2
  <2> QED
    BY <2>7, <2>8, <2>9
<1>5. ASSUME NEW w \in Writers, Announce(w), ~raced', NEW t \in Teams
      PROVE  ~raced /\ Goal(t)
  <2>1. UNCHANGED <<net, gate, man, raced>> /\ ~raced /\ missed' = (missed \/ HasRead)
    BY <1>5 DEF Announce
  <2>2. PICK c \in Commands, r \in Seq(Commands) :
          /\ c = Head(todo[w]) /\ todo[w] # <<>> /\ c.do \in Announcements /\ Fresh(r)
          /\ c.do \in OnTeams => \E u \in Teams : c.teams = {u}
          /\ todo' = [todo EXCEPT ![w] = r]
    BY <1>5, AnnounceFacts
  <2>3. todo'[w] = r /\ \A v \in Writers : v # w => todo[v] = <<>> /\ todo'[v] = <<>>
    BY <1>0, <2>1, <2>2, Alone
  <2>4. \A v \in Writers : ~NextOn(v, Ban, t)' /\ ~NextOn(v, Unban, t)' /\ ~NextOn(v, Both, t)'
    BY <2>2, <2>3 DEF NextOn, Next1, Fresh, Inner, Announcements
  <2>5. \A v \in Writers : \A dos : NextOn(v, dos, t) <=> v = w /\ c.do \in dos /\ c.teams = {t}
    BY <2>2, <2>3 DEF NextOn, Next1
  <2>6. Now(t)
    BY <1>3, <2>1
  <2>7. ASSUME HasBanned' PROVE MemberAfter(queue', man'.banned, t, "ban", "unban") <=> t \in net'.banned
    <3>1. HasBanned /\ Subscribed
      BY <2>1, <2>7 DEF HasBanned, HasRead, Subscribed
    <3>2. queue' = Append(queue, c)
      BY <1>5, <2>2, <3>1 DEF Announce
    <3>3. c.do \in {"ban", "unban"} => \E u \in Teams : c.teams = {u}
      BY <2>2 DEF OnTeams, Announcements
    <3>4. Concerns(c, t, "ban", "unban") <=> c.do \in {"ban", "unban"} /\ c.teams = {t}
      BY <3>3 DEF Concerns
    <3>5. CASE Concerns(c, t, "ban", "unban")
      <4>1. MemberAfter(queue', man'.banned, t, "ban", "unban") <=> c.do = "ban"
        BY <1>0, <3>2, <3>5, MemberAppend
      <4>2. t \in net.banned <=> c.do = "ban"
        BY <2>5, <2>6, <3>4, <3>5
      <4> QED
        BY <2>1, <4>1, <4>2
    <3>6. CASE ~Concerns(c, t, "ban", "unban")
      <4>1. MemberAfter(queue', man'.banned, t, "ban", "unban") <=> MemberAfter(queue, man.banned, t, "ban", "unban")
        BY <1>0, <2>1, <3>2, <3>6, MemberAppend
      <4>2. \A v \in Writers : ~NextOn(v, Both, t)
        BY <2>2, <2>5, <3>4, <3>6 DEF Announcements
      <4> QED
        BY <2>1, <2>6, <3>1, <4>1, <4>2
    <3> QED
      BY <3>5, <3>6
  <2> QED
    BY <2>1, <2>4, <2>7
<1>6. ASSUME UNCHANGED <<todo, raced>>, net'.banned = net.banned,
             ASSUME NEW t \in Teams, HasBanned',
                    HasBanned => (MemberAfter(queue, man.banned, t, "ban", "unban") <=> t \in net.banned)
             PROVE  MemberAfter(queue', man'.banned, t, "ban", "unban") <=> t \in net.banned
      PROVE  BannedInv'
  <2>1. \A v \in Writers : \A dos, t : NextOn(v, dos, t)' <=> NextOn(v, dos, t)
    BY <1>6 DEF NextOn, Next1
  <2> QED
    BY <1>2, <1>3, <1>6, <2>1
<1>7. CASE ReadState \/ Disconnect
  <2>1. UNCHANGED <<net, todo, raced>> /\ gate' \in {"default", "read banned", "connect"}
    BY <1>7 DEF ReadState, Disconnect, writers, history
  <2> QED
    BY <1>6, <2>1 DEF HasBanned
<1>8. CASE WriteDefault
  <2>1. UNCHANGED <<todo, man, queue, missed>> /\ gate' = "read banned" /\ net'.banned = net.banned /\ (raced => raced')
    BY <1>0, <1>8 DEF WriteDefault, writers, Nets
  <2>2. ~HasBanned'
    BY <2>1 DEF HasBanned
  <2>3. \A v \in Writers : \A dos, t : NextOn(v, dos, t)' <=> NextOn(v, dos, t)
    BY <2>1 DEF NextOn, Next1
  <2> QED
    BY <1>2, <1>3, <2>1, <2>2, <2>3
<1>9. CASE ReadBanned
  <2>1. UNCHANGED <<net, todo, raced>> /\ queue' = <<>> /\ man'.banned = net.banned
    BY <1>0, <1>9 DEF ReadBanned, writers, history, QueueInv, Subscribed, Managers
  <2> QED
    BY <1>6, <2>1, AfterNone
<1>10. CASE ReadPermissions
  <2>1. UNCHANGED <<net, todo, raced, queue, missed>> /\ man'.banned = man.banned /\ HasBanned' = HasBanned
    BY <1>0, <1>10 DEF ReadPermissions, writers, history, Managers, HasBanned
  <2> QED
    BY <1>6, <2>1
<1>11. CASE Listen
  <2>1. /\ UNCHANGED <<net, todo, raced, missed>>
        /\ gate = "listen" /\ gate' = "apply" /\ queue # <<>> /\ queue' = Tail(queue)
    BY <1>11 DEF Listen, writers, history
  <2>2. IsHandled(man', Head(queue))
    BY <1>11, ListenFacts
  <2>3. HasBanned' <=> HasBanned
    BY <2>1 DEF HasBanned
  <2>4. ASSUME NEW t \in Teams
        PROVE  MemberAfter(queue', man'.banned, t, "ban", "unban") <=> MemberAfter(queue, man.banned, t, "ban", "unban")
    <3>1. IF Concerns(Head(queue), t, "ban", "unban") THEN t \in man'.banned <=> Head(queue).do = "ban"
          ELSE t \in man'.banned <=> t \in man.banned
      BY <2>2 DEF IsHandled, Concerns
    <3> QED
      BY <1>0, <2>1, <3>1, MemberTail
  <2> QED
    BY <1>6, <2>1, <2>3, <2>4
<1>12. \E t \in Teams : TRUE
  BY FirewallAssumption
<1>13. ASSUME NEW w \in Writers, Write(w) \/ Announce(w) PROVE BannedInv'
  BY <1>2, <1>4, <1>5, <1>12, <1>13
<1> QED
  BY <1>1, <1>7, <1>8, <1>9, <1>10, <1>11, <1>13, Steps, MildSteps

(* The gateway will know which teams have a permission, even if panel and  *)
(* timer overlap: the timer does not touch permissions.                    *)
LEMMA AllowedStep ==
  ASSUME TypeInv, OrderInv, StateInv, BannedInv, AllowedInv, [Next]_vars
  PROVE  AllowedInv'
<1>0. /\ TodoInv /\ QueueInv /\ queue \in Seq(Commands) /\ man \in Managers /\ net \in Nets
      /\ todo \in [Writers -> Seq(Commands)] /\ "panel" \in Writers /\ "timer" \in Writers
      /\ \A w \in Writers : w # "panel" => w = "timer"
  BY DEF OrderInv, TypeInv, Nets, Managers, Writers
<1> DEFINE Both == {"add_permission", "remove_permission"}
           After1(t) == MemberAfter(queue, man.allowed, t, "add_permission", "remove_permission")
           Goal(t) == /\ NextOn("panel", {"add_permission"}, t)' => t \in net'.allowed
                      /\ NextOn("panel", {"remove_permission"}, t)' => t \notin net'.allowed
                      /\ HasAllowed' /\ ~NextOn("panel", Both, t)' => (After1(t)' <=> t \in net'.allowed)
           Now(t) == /\ NextOn("panel", {"add_permission"}, t) => t \in net.allowed
                     /\ NextOn("panel", {"remove_permission"}, t) => t \notin net.allowed
                     /\ HasAllowed /\ ~NextOn("panel", Both, t) => (After1(t) <=> t \in net.allowed)
<1>1. CASE Mild
  BY <1>1, MildKeeps
<1>2. ASSUME \A t \in Teams : Goal(t) PROVE AllowedInv'
  BY <1>2 DEF AllowedInv
<1>3. \A t \in Teams : Now(t)
  BY DEF AllowedInv
<1>4. ASSUME NEW w \in Writers, Write(w), NEW t \in Teams
      PROVE  Goal(t)
  <2>1. UNCHANGED <<gate, man, queue, missed>>
    BY <1>4 DEF Write, history
  <2>2. PICK c \in Commands, r \in Seq(Commands) :
          /\ c = Head(todo[w]) /\ r = Tail(todo[w]) /\ todo[w] # <<>> /\ c.do \in Writes
          /\ c.do \in OnTeams => \E u \in Teams : c.teams = {u}
          /\ r # <<>> /\ Head(r).do = After(c.do) /\ Head(r).teams = c.teams /\ c \in Elems(todo[w])
          /\ todo' = [todo EXCEPT ![w] = r] /\ IsWritten(net', c)
    BY <1>4, WriteFacts
  <2>3. /\ net'.allowed = IF c.do = "sadd permissions" THEN net.allowed \cup c.teams
                          ELSE IF c.do = "srem permissions" THEN net.allowed \ c.teams ELSE net.allowed
        /\ HasAllowed' <=> HasAllowed
        /\ After1(t)' <=> After1(t)
    BY <2>1, <2>2 DEF IsWritten, HasAllowed
  <2>4. Now(t)
    BY <1>3
  <2> HIDE DEF After1
  <2>5. CASE w = "timer"
    <3>1. c.do \notin Permissions
      BY <1>0, <2>2, <2>5 DEF TodoInv
    <3>2. net'.allowed = net.allowed /\ todo'["panel"] = todo["panel"]
      BY <1>0, <2>2, <2>3, <2>5, <3>1 DEF Permissions
    <3>3. \A dos : NextOn("panel", dos, t)' <=> NextOn("panel", dos, t)
      BY <3>2 DEF NextOn, Next1
    <3> QED
      BY <2>3, <2>4, <3>2, <3>3
  <2>6. CASE w = "panel"
    <3>1. todo["panel"] # <<>> /\ Head(todo["panel"]) = c /\ todo'["panel"] = r
      BY <1>0, <2>2, <2>6
    <3>2. \A dos : /\ NextOn("panel", dos, t)' <=> After(c.do) \in dos /\ c.teams = {t}
                   /\ NextOn("panel", dos, t) <=> c.do \in dos /\ c.teams = {t}
      BY <2>2, <3>1 DEF NextOn, Next1
    <3>3. c.do \notin Both
      BY <2>2 DEF Writes
    <3>4. CASE c.teams # {t} \/ c.do \notin {"sadd permissions", "srem permissions"}
      <4>1. t \in net'.allowed <=> t \in net.allowed
        BY <2>2, <2>3, <3>4 DEF OnTeams, Writes
      <4>2. c.do \notin {"sadd permissions", "srem permissions"} => After(c.do) \notin Both
        BY <2>2 DEF After, Writes
      <4>3. \A dos \in SUBSET Both : ~NextOn("panel", dos, t)' /\ ~NextOn("panel", dos, t)
        BY <3>2, <3>3, <3>4, <4>2
      <4>4. Both \in SUBSET Both /\ {"add_permission"} \in SUBSET Both /\ {"remove_permission"} \in SUBSET Both
        OBVIOUS
      <4> QED
        BY <2>3, <2>4, <4>1, <4>3, <4>4
    <3>5. CASE c.teams = {t} /\ c.do = "sadd permissions"
      <4>1. After(c.do) = "add_permission" /\ t \in net'.allowed
        BY <2>3, <3>5 DEF After
      <4> QED
        BY <3>2, <3>5, <4>1
    <3>6. CASE c.teams = {t} /\ c.do = "srem permissions"
      <4>1. After(c.do) = "remove_permission" /\ t \notin net'.allowed
        BY <2>3, <3>6 DEF After
      <4> QED
        BY <3>2, <3>6, <4>1
    <3> QED
      BY <3>4, <3>5, <3>6
  <2> QED
    BY <1>0, <2>5, <2>6
<1>5. ASSUME NEW w \in Writers, Announce(w), NEW t \in Teams
      PROVE  Goal(t)
  <2>1. UNCHANGED <<net, gate, man>> /\ missed' = (missed \/ HasRead)
    BY <1>5 DEF Announce
  <2>2. PICK c \in Commands, r \in Seq(Commands) :
          /\ c = Head(todo[w]) /\ todo[w] # <<>> /\ c.do \in Announcements /\ Fresh(r) /\ c \in Elems(todo[w])
          /\ c.do \in OnTeams => \E u \in Teams : c.teams = {u}
          /\ todo' = [todo EXCEPT ![w] = r]
    BY <1>5, AnnounceFacts
  <2>3. Now(t)
    BY <1>3
  <2>4. HasAllowed' => HasAllowed /\ queue' = Append(queue, c)
    <3>1. HasAllowed' => HasAllowed /\ Subscribed
      BY <2>1 DEF HasAllowed, HasRead, Subscribed
    <3> QED
      BY <1>5, <2>2, <3>1 DEF Announce
  <2>5. c.do \in Both => \E u \in Teams : c.teams = {u}
    BY <2>2 DEF OnTeams, Announcements
  <2>6. Concerns(c, t, "add_permission", "remove_permission") <=> c.do \in Both /\ c.teams = {t}
    BY <2>5 DEF Concerns
  <2>7. HasAllowed' => /\ c.do \in Both /\ c.teams = {t} => (After1(t)' <=> c.do = "add_permission")
                       /\ ~(c.do \in Both /\ c.teams = {t}) => (After1(t)' <=> After1(t))
    <3> SUFFICES ASSUME HasAllowed'
                 PROVE  /\ c.do \in Both /\ c.teams = {t} => (After1(t)' <=> c.do = "add_permission")
                        /\ ~(c.do \in Both /\ c.teams = {t}) => (After1(t)' <=> After1(t))
      OBVIOUS
    <3>1. queue' = Append(queue, c) /\ man' = man
      BY <2>1, <2>4
    <3>2. CASE Concerns(c, t, "add_permission", "remove_permission")
      <4>1. After1(t)' <=> c.do = "add_permission"
        BY <1>0, <3>1, <3>2, MemberAppend
      <4> QED
        BY <2>6, <3>2, <4>1
    <3>3. CASE ~Concerns(c, t, "add_permission", "remove_permission")
      <4>1. After1(t)' <=> After1(t)
        BY <1>0, <3>1, <3>3, MemberAppend
      <4> QED
        BY <2>6, <3>3, <4>1
    <3> QED
      BY <3>2, <3>3
  <2> HIDE DEF After1
  <2>8. CASE w = "timer"
    <3>1. c.do \notin Both
      BY <1>0, <2>2, <2>8 DEF TodoInv, Permissions
    <3>2. todo'["panel"] = todo["panel"]
      BY <1>0, <2>2, <2>8
    <3>3. \A dos : NextOn("panel", dos, t)' <=> NextOn("panel", dos, t)
      BY <3>2 DEF NextOn, Next1
    <3> QED
      BY <2>1, <2>3, <2>4, <2>7, <3>1, <3>3
  <2>9. CASE w = "panel"
    <3>1. todo["panel"] # <<>> /\ Head(todo["panel"]) = c /\ todo'["panel"] = r
      BY <1>0, <2>2, <2>9
    <3>2. \A dos \in SUBSET Both : ~NextOn("panel", dos, t)'
      BY <2>2, <3>1 DEF NextOn, Next1, Fresh, Inner, Announcements
    <3>3. \A dos : NextOn("panel", dos, t) <=> c.do \in dos /\ c.teams = {t}
      BY <2>2, <3>1 DEF NextOn, Next1
    <3>4. Both \in SUBSET Both /\ {"add_permission"} \in SUBSET Both /\ {"remove_permission"} \in SUBSET Both
      OBVIOUS
    <3>5. ~NextOn("panel", {"add_permission"}, t)' /\ ~NextOn("panel", {"remove_permission"}, t)'
      BY <3>2, <3>4
    <3>6. ASSUME HasAllowed' PROVE After1(t)' <=> t \in net.allowed
      <4>1. CASE c.do \in Both /\ c.teams = {t}
        BY <2>3, <2>7, <3>3, <3>6, <4>1
      <4>2. CASE ~(c.do \in Both /\ c.teams = {t})
        BY <2>3, <2>4, <2>7, <3>3, <3>6, <4>2
      <4> QED
        BY <4>1, <4>2
    <3> QED
      BY <2>1, <3>5, <3>6
  <2> QED
    BY <1>0, <2>8, <2>9
<1>6. ASSUME UNCHANGED todo, net'.allowed = net.allowed,
             ASSUME NEW t \in Teams, HasAllowed',
                    HasAllowed => (After1(t) <=> t \in net.allowed)
             PROVE  After1(t)' <=> t \in net.allowed
      PROVE  AllowedInv'
  <2>1. \A dos, t : NextOn("panel", dos, t)' <=> NextOn("panel", dos, t)
    BY <1>6 DEF NextOn, Next1
  <2> HIDE DEF After1
  <2>2. \A t \in Teams : Goal(t)
    BY <1>3, <1>6, <2>1
  <2> QED
    BY <1>2, <2>2
<1>7. CASE ReadState \/ Disconnect \/ ReadBanned \/ WriteDefault
  <2>1. /\ net'.allowed = net.allowed /\ UNCHANGED todo
        /\ gate' \in {"default", "read banned", "connect", "read permissions"}
    BY <1>0, <1>7 DEF ReadState, Disconnect, ReadBanned, WriteDefault, writers, history, Nets
  <2> QED
    BY <1>6, <2>1 DEF HasAllowed
<1>8. CASE ReadPermissions
  <2>1. UNCHANGED <<net, todo>> /\ queue' = <<>> /\ man'.allowed = net.allowed
    BY <1>0, <1>8 DEF ReadPermissions, writers, history, QueueInv, Subscribed, Managers
  <2> QED
    BY <1>6, <2>1, AfterNone
<1>9. CASE Listen
  <2>1. /\ UNCHANGED <<net, todo, missed>>
        /\ gate = "listen" /\ gate' = "apply" /\ queue # <<>> /\ queue' = Tail(queue)
    BY <1>9 DEF Listen, writers, history
  <2>2. IsHandled(man', Head(queue))
    BY <1>9, ListenFacts
  <2>3. HasAllowed' <=> HasAllowed
    BY <2>1 DEF HasAllowed
  <2>4. ASSUME NEW t \in Teams PROVE After1(t)' <=> After1(t)
    <3>1. IF Concerns(Head(queue), t, "add_permission", "remove_permission")
          THEN t \in man'.allowed <=> Head(queue).do = "add_permission"
          ELSE t \in man'.allowed <=> t \in man.allowed
      BY <2>2 DEF IsHandled, Concerns
    <3> QED
      BY <1>0, <2>1, <3>1, MemberTail
  <2> QED
    BY <1>6, <2>1, <2>3, <2>4
<1>10. ASSUME NEW w \in Writers, Write(w) \/ Announce(w) PROVE AllowedInv'
  BY <1>2, <1>4, <1>5, <1>10
<1> QED
  BY <1>1, <1>7, <1>8, <1>9, <1>10, Steps, MildSteps

(* Bans end in time.                                                       *)
LEMMA UntilStep ==
  ASSUME TypeInv, OrderInv, UntilInv, [Next]_vars
  PROVE  UntilInv'
<1>0. /\ TodoInv /\ net \in Nets /\ todo \in [Writers -> Seq(Commands)] /\ tick \in 0..MaxTick /\ MaxTick \in Nat
      /\ raced \in BOOLEAN /\ "panel" \in Writers /\ "timer" \in Writers /\ "panel" # "timer"
      /\ \A w \in Writers : w # "panel" => w = "timer"
  BY FirewallAssumption DEF OrderInv, TypeInv, Nets, Writers
<1>1. net.banned \in SUBSET Teams /\ net.until \in [Teams -> 0..MaxTick] /\ tick \in Nat /\ Elems(<<>>) = {}
  BY <1>0, ElemsEmpty DEF Nets
<1> DEFINE P == Elems(todo["panel"])
           T == Elems(todo["timer"])
           Open(t) == net.until[t] = 0 \/ net.until[t] > tick
           Set(t, cs) == \E c \in cs : c.do = "set until" /\ c.teams = {t}
           Lift(t, cs) == net.until[t] = tick /\ \E c \in cs : LiftsBan(c, t)
           Told(cs) == \A c \in cs : c.do = "set until" => c.until = 0 \/ c.until > tick \/ c.teams \subseteq tooLate
<1>2. ~raced => /\ Told(P) /\ \A c \in T : c.do # "set until"
                /\ \A t \in net.banned \ tooLate : Open(t) \/ Set(t, P) \/ Lift(t, T)
  BY DEF UntilInv
<1>4. ASSUME UNCHANGED <<todo, tick, tooLate>>, net'.banned = net.banned, net'.until = net.until, raced => raced'
      PROVE  UntilInv'
  BY <1>4 DEF UntilInv
<1>5. CASE Panel
  <2>1. PICK s :
          /\ Starts("panel", s)
          /\ \/ UNCHANGED tooLate /\ \A c \in Elems(s) : c.do # "set until"
             \/ \E t \in Teams, n \in 0..MaxTick :
                  /\ tooLate' = IF n # 0 /\ n <= tick THEN tooLate \cup {t} ELSE tooLate \ {t}
                  /\ Bans(Elems(s), t, n)
    BY <1>5, PanelStarts
  <2>2. UNCHANGED <<net, tick>>
    BY <1>5 DEF Panel
  <2> SUFFICES ASSUME ~raced' PROVE UntilInv'
    BY DEF UntilInv
  <2>3. /\ ~raced /\ todo["panel"] = <<>> /\ todo["timer"] = <<>>
        /\ todo'["panel"] = s /\ todo'["timer"] = <<>>
    BY <1>0, <2>1 DEF Starts
  <2>4. \A t \in net.banned \ tooLate : Open(t)
    BY <1>1, <1>2, <2>3
  <2>5. CASE UNCHANGED tooLate /\ \A c \in Elems(s) : c.do # "set until"
    BY <1>1, <2>2, <2>3, <2>4, <2>5 DEF UntilInv
  <2>6. CASE \E t \in Teams, n \in 0..MaxTick :
               /\ tooLate' = IF n # 0 /\ n <= tick THEN tooLate \cup {t} ELSE tooLate \ {t}
               /\ Bans(Elems(s), t, n)
    <3>1. PICK t \in Teams, n \in 0..MaxTick :
               /\ tooLate' = IF n # 0 /\ n <= tick THEN tooLate \cup {t} ELSE tooLate \ {t}
               /\ Bans(Elems(s), t, n)
      BY <2>6
    <3>2. \A c \in Elems(s) : c.do = "set until" => c.until = n /\ c.teams = {t}
      BY <3>1 DEF Bans
    <3>3. n = 0 \/ n > tick \/ {t} \subseteq tooLate'
      BY <1>0, <1>1, <3>1
    <3>4. \E c \in Elems(s) : c.do = "set until" /\ c.teams = {t}
      BY <3>1, <3>2 DEF Bans
    <3>5. \A u \in net.banned \ tooLate' : u = t \/ Open(u)
      BY <2>4, <3>1
    <3>6. \A u \in net'.banned \ tooLate' :
            net'.until[u] = 0 \/ net'.until[u] > tick' \/ \E c \in Elems(todo'["panel"]) : c.do = "set until" /\ c.teams = {u}
      BY <2>2, <2>3, <3>4, <3>5
    <3>7. \A c \in Elems(todo'["panel"]) : c.do = "set until" => c.until = 0 \/ c.until > tick' \/ c.teams \subseteq tooLate'
      BY <2>2, <2>3, <3>2, <3>3
    <3>8. \A c \in Elems(todo'["timer"]) : c.do # "set until"
      BY <1>1, <2>3
    <3> QED
      BY <3>6, <3>7, <3>8 DEF UntilInv
  <2> QED
    BY <2>1, <2>5, <2>6
<1>6. CASE MasterTimer
  <2>1. PICK s : /\ Starts("timer", s)
                 /\ \A c \in Elems(s) : c.do # "set until"
                 /\ \/ tick' = tick
                    \/ tick' = tick + 1 /\ \E c \in Elems(s) : c.do = "smembers"
    BY <1>6, TimerStarts
  <2>2. UNCHANGED <<net, tooLate>>
    BY <1>6 DEF MasterTimer
  <2> SUFFICES ASSUME ~raced' PROVE UntilInv'
    BY DEF UntilInv
  <2>3. /\ ~raced /\ todo["panel"] = <<>> /\ todo["timer"] = <<>>
        /\ todo'["panel"] = <<>> /\ todo'["timer"] = s
    BY <1>0, <2>1 DEF Starts
  <2>4. \A t \in net.banned \ tooLate : Open(t)
    BY <1>1, <1>2, <2>3
  <2>5. \A c \in Elems(todo'["panel"]) : FALSE
    BY <1>1, <2>3
  <2>6. ASSUME NEW t \in net.banned \ tooLate
        PROVE  \/ net.until[t] = 0 \/ net.until[t] > tick'
               \/ net.until[t] = tick' /\ \E c \in Elems(todo'["timer"]) : LiftsBan(c, t)
    <3>1. net.until[t] \in Nat /\ Open(t)
      BY <1>0, <1>1, <2>4
    <3> QED
      <4>1. CASE tick' = tick
        BY <3>1, <4>1
      <4>2. CASE tick' = tick + 1 /\ \E c \in Elems(s) : c.do = "smembers"
        <5>1. \E c \in Elems(todo'["timer"]) : LiftsBan(c, t)
          BY <2>3, <4>2 DEF LiftsBan
        <5>2. net.until[t] > tick => net.until[t] > tick' \/ net.until[t] = tick'
          BY <1>1, <3>1, <4>2
        <5> QED
          BY <3>1, <5>1, <5>2
      <4> QED
        BY <2>1, <4>1, <4>2
  <2> QED
    BY <2>1, <2>2, <2>3, <2>5, <2>6 DEF UntilInv
<1>7. ASSUME NEW w \in Writers, Write(w)
      PROVE  UntilInv'
  <2> SUFFICES ASSUME ~raced' PROVE UntilInv'
    BY DEF UntilInv
  <2>1. UNCHANGED <<tick, tooLate, raced>> /\ ~raced
    BY <1>7 DEF Write, history
  <2>2. PICK c \in Commands, r \in Seq(Commands) :
          /\ c = Head(todo[w]) /\ todo[w] # <<>> /\ c.do \in Writes
          /\ c.do \in OnTeams => \E u \in Teams : c.teams = {u}
          /\ r # <<>> /\ Head(r).do = After(c.do) /\ Head(r).teams = c.teams
          /\ Elems(todo[w]) = {c} \cup Elems(r) /\ Head(r) \in Elems(r)
          /\ todo' = [todo EXCEPT ![w] = r] /\ IsWritten(net', c)
    BY <1>7, WriteFacts
  <2>3. todo'[w] = r /\ \A v \in Writers : v # w => todo[v] = <<>> /\ todo'[v] = <<>>
    BY <1>0, <2>1, <2>2, Alone
  <2>4. /\ net'.banned = IF c.do = "sadd banned" THEN net.banned \cup c.teams
                         ELSE IF c.do = "srem banned" THEN net.banned \ c.teams ELSE net.banned
        /\ \A t \in Teams :
             net'.until[t] = IF c.do = "set until" /\ c.teams = {t} THEN c.until
                             ELSE IF c.do = "del until" /\ c.teams = {t} THEN 0 ELSE net.until[t]
    BY <2>2 DEF IsWritten
  <2>5. w = "panel" => P = {c} \cup Elems(r) /\ Elems(todo'["panel"]) = Elems(r) /\ T = {} /\ Elems(todo'["timer"]) = {}
    BY <1>0, <1>1, <2>2, <2>3
  <2>6. w = "timer" => T = {c} \cup Elems(r) /\ Elems(todo'["timer"]) = Elems(r) /\ P = {} /\ Elems(todo'["panel"]) = {}
    BY <1>0, <1>1, <2>2, <2>3
  <2> HIDE DEF P, T
  <2>7. w = "panel" \/ w = "timer"
    BY <1>0
  <2>8. /\ \A d \in Elems(todo'["panel"]) : d.do = "set until" => d.until = 0 \/ d.until > tick' \/ d.teams \subseteq tooLate'
        /\ \A d \in Elems(todo'["timer"]) : d.do # "set until"
    BY <1>2, <2>1, <2>5, <2>6, <2>7
  <2>9. ASSUME NEW t \in net'.banned \ tooLate
        PROVE  \/ net'.until[t] = 0 \/ net'.until[t] > tick
               \/ \E d \in Elems(todo'["panel"]) : d.do = "set until" /\ d.teams = {t}
               \/ net'.until[t] = tick /\ \E d \in Elems(todo'["timer"]) : LiftsBan(d, t)
    <3>1. t \in Teams
      <4>1. c.teams \in SUBSET Teams
        BY CommandFields
      <4> QED
        BY <1>1, <2>4, <4>1
    <3>2. CASE c.do \in {"set until", "del until"} /\ c.teams = {t}
      <4>1. CASE c.do = "set until"
        <5>1. w = "panel"
          BY <1>2, <2>1, <2>6, <2>7, <4>1
        <5>2. c.until = 0 \/ c.until > tick \/ c.teams \subseteq tooLate
          BY <1>2, <2>1, <2>5, <4>1, <5>1
        <5> QED
          BY <2>4, <3>1, <3>2, <4>1, <5>2
      <4>2. CASE c.do = "del until"
        BY <2>4, <3>1, <3>2, <4>2
      <4> QED
        BY <3>2, <4>1, <4>2
    <3>3. CASE c.do = "sadd banned" /\ c.teams = {t}
      <4>1. Head(r).do = "set until" /\ Head(r).teams = {t}
        BY <2>2, <3>3 DEF After
      <4>2. w = "panel"
        BY <1>2, <2>1, <2>2, <2>6, <2>7, <4>1
      <4> QED
        BY <2>2, <2>5, <4>1, <4>2
    <3>4. CASE ~(c.do \in {"set until", "del until", "sadd banned"} /\ c.teams = {t})
      <4>1. net'.until[t] = net.until[t] /\ t \in net.banned
        <5>1. c.do = "sadd banned" => \E u \in Teams : c.teams = {u}
          BY <2>2 DEF OnTeams, Writes
        <5> QED
          BY <2>4, <3>1, <3>4, <5>1
      <4>2. ~(c.do = "set until" /\ c.teams = {t}) /\ ~LiftsBan(c, t)
        <5>1. c.do # "smembers" /\ c.do # "look"
          BY <2>2 DEF Writes
        <5>2. ~(c.do = "srem banned" /\ c.teams = {t})
          BY <2>4
        <5> QED
          BY <3>4, <5>1, <5>2 DEF LiftsBan
      <4>3. Open(t) \/ Set(t, P) \/ Lift(t, T)
        BY <1>2, <2>1, <4>1
      <4> QED
        BY <2>5, <2>6, <2>7, <4>1, <4>2, <4>3
    <3> QED
      BY <3>2, <3>3, <3>4
  <2> QED
    BY <2>1, <2>8, <2>9 DEF UntilInv
<1>8. ASSUME NEW w \in Writers, Announce(w)
      PROVE  UntilInv'
  <2> SUFFICES ASSUME ~raced' PROVE UntilInv'
    BY DEF UntilInv
  <2>1. UNCHANGED <<net, tick, tooLate, raced>> /\ ~raced
    BY <1>8 DEF Announce
  <2>2. PICK c \in Commands, r \in Seq(Commands) :
          /\ todo[w] # <<>> /\ c.do \in Announcements
          /\ Elems(todo[w]) = {c} \cup Elems(r) /\ todo' = [todo EXCEPT ![w] = r]
    BY <1>8, AnnounceFacts
  <2>3. todo'[w] = r /\ \A v \in Writers : v # w => todo[v] = <<>> /\ todo'[v] = <<>>
    BY <1>0, <2>1, <2>2, Alone
  <2>4. w = "panel" => P = {c} \cup Elems(r) /\ Elems(todo'["panel"]) = Elems(r) /\ T = {} /\ Elems(todo'["timer"]) = {}
    BY <1>0, <1>1, <2>2, <2>3
  <2>5. w = "timer" => T = {c} \cup Elems(r) /\ Elems(todo'["timer"]) = Elems(r) /\ P = {} /\ Elems(todo'["panel"]) = {}
    BY <1>0, <1>1, <2>2, <2>3
  <2>6. c.do # "set until" /\ \A t : ~LiftsBan(c, t)
    BY <2>2 DEF Announcements, LiftsBan
  <2> HIDE DEF P, T
  <2>7. w = "panel" \/ w = "timer"
    BY <1>0
  <2>8. /\ \A d \in Elems(todo'["panel"]) : d.do = "set until" => d.until = 0 \/ d.until > tick' \/ d.teams \subseteq tooLate'
        /\ \A d \in Elems(todo'["timer"]) : d.do # "set until"
    BY <1>2, <2>1, <2>4, <2>5, <2>7
  <2>9. ASSUME NEW t \in net.banned \ tooLate
        PROVE  \/ net.until[t] = 0 \/ net.until[t] > tick
               \/ \E d \in Elems(todo'["panel"]) : d.do = "set until" /\ d.teams = {t}
               \/ net.until[t] = tick /\ \E d \in Elems(todo'["timer"]) : LiftsBan(d, t)
    BY <1>2, <2>1, <2>4, <2>5, <2>6, <2>7
  <2> QED
    BY <2>1, <2>8, <2>9 DEF UntilInv
<1>9. ASSUME NEW w \in Writers, Smembers(w) \/ Look(w)
      PROVE  UntilInv'
  <2> SUFFICES ASSUME ~raced' PROVE UntilInv'
    BY DEF UntilInv
  <2>1. UNCHANGED <<net, tick, tooLate, raced>> /\ ~raced /\ todo[w] # <<>>
    BY <1>9 DEF Smembers, Look, history
  <2> DEFINE c == Head(todo[w])
             R == Elems(Tail(todo[w]))
  <2>2. Elems(todo[w]) = {c} \cup R /\ c.do \in {"smembers", "look"}
    BY <1>9, <2>1, RestFresh DEF Smembers, Look
  <2>3. PICK s : /\ Continues(w, s)
                 /\ \A d \in Elems(s) : d \in R \/ d.do # "set until"
                 /\ R \subseteq Elems(s)
                 /\ \A t \in net.banned : net.until[t] = tick /\ LiftsBan(c, t) => \E d \in Elems(s) : LiftsBan(d, t)
    <3>1. CASE Smembers(w)
      <4>1. PICK s : /\ Continues(w, s)
                     /\ \E d \in Commands : Elems(s) = {d} \cup R /\ d.do = "look" /\ d.teams = net.banned
        BY <3>1, SmembersContinues
      <4>2. PICK d \in Commands : Elems(s) = {d} \cup R /\ d.do = "look" /\ d.teams = net.banned
        BY <4>1
      <4>3. \A t \in net.banned : LiftsBan(d, t)
        BY <4>2 DEF LiftsBan
      <4> QED
        BY <4>1, <4>2, <4>3
    <3>2. CASE Look(w)
      <4>1. PICK s : /\ Continues(w, s)
                     /\ \/ c.teams = {} /\ Elems(s) = R
                        \/ \E t \in c.teams, d \in Commands, es \in SUBSET Commands :
                             /\ Elems(s) = es \cup ({d} \cup R)
                             /\ d.do = "look" /\ d.teams = c.teams \ {t}
                             /\ Lifts(es, t)
        BY <3>2, LookContinues
      <4>2. \A t : LiftsBan(c, t) => t \in c.teams
        BY <3>2 DEF Look, LiftsBan
      <4>3. CASE c.teams = {} /\ Elems(s) = R
        BY <4>1, <4>2, <4>3
      <4>4. CASE \E t \in c.teams, d \in Commands, es \in SUBSET Commands :
                   /\ Elems(s) = es \cup ({d} \cup R)
                   /\ d.do = "look" /\ d.teams = c.teams \ {t}
                   /\ Lifts(es, t)
        <5>1. PICK u \in c.teams, d \in Commands, es \in SUBSET Commands :
                   /\ Elems(s) = es \cup ({d} \cup R)
                   /\ d.do = "look" /\ d.teams = c.teams \ {u}
                   /\ Lifts(es, u)
          BY <4>4
        <5>2. \A e \in es : e.do # "set until"
          BY <5>1 DEF Lifts
        <5>3. ASSUME NEW t \in net.banned, net.until[t] = tick, LiftsBan(c, t) PROVE \E e \in Elems(s) : LiftsBan(e, t)
          <6>1. CASE t = u
            <7>1. \E e \in es : e.do = "srem banned" /\ e.teams = {t}
              BY <5>1, <5>3, <6>1 DEF Lifts, BanIsOver
            <7> QED
              BY <5>1, <7>1 DEF LiftsBan
          <6>2. CASE t # u
            <7>1. LiftsBan(d, t)
              BY <4>2, <5>1, <5>3, <6>2 DEF LiftsBan
            <7> QED
              BY <5>1, <7>1
          <6> QED
            BY <6>1, <6>2
        <5>4. R \subseteq Elems(s) /\ \A e \in Elems(s) : e \in R \/ e.do # "set until"
          BY <5>1, <5>2
        <5> QED
          BY <4>1, <5>3, <5>4
      <4> QED
        BY <4>1, <4>3, <4>4
    <3> QED
      BY <1>9, <3>1, <3>2
  <2>4. todo'[w] = s /\ \A v \in Writers : v # w => todo[v] = <<>> /\ todo'[v] = <<>>
    BY <1>0, <2>1, <2>3, Alone DEF Continues
  <2>5. w = "panel" => P = {c} \cup R /\ Elems(todo'["panel"]) = Elems(s) /\ T = {} /\ Elems(todo'["timer"]) = {}
    BY <1>0, <1>1, <2>2, <2>4
  <2>6. w = "timer" => T = {c} \cup R /\ Elems(todo'["timer"]) = Elems(s) /\ P = {} /\ Elems(todo'["panel"]) = {}
    BY <1>0, <1>1, <2>2, <2>4
  <2>7. (w = "panel" \/ w = "timer") /\ c.do # "set until"
    BY <1>0, <2>2
  <2> HIDE DEF P, T, c, R
  <2>8. /\ \A d \in Elems(todo'["panel"]) : d.do = "set until" => d.until = 0 \/ d.until > tick' \/ d.teams \subseteq tooLate'
        /\ \A d \in Elems(todo'["timer"]) : d.do # "set until"
    BY <1>2, <2>1, <2>3, <2>5, <2>6, <2>7
  <2>9. ASSUME NEW t \in net.banned \ tooLate
        PROVE  \/ net.until[t] = 0 \/ net.until[t] > tick
               \/ \E d \in Elems(todo'["panel"]) : d.do = "set until" /\ d.teams = {t}
               \/ net.until[t] = tick /\ \E d \in Elems(todo'["timer"]) : LiftsBan(d, t)
    BY <1>2, <2>1, <2>3, <2>5, <2>6, <2>7
  <2> QED
    BY <2>1, <2>8, <2>9 DEF UntilInv
<1>10. CASE ReadState \/ ReadBanned \/ ReadPermissions \/ Listen \/ Disconnect
  <2>1. UNCHANGED <<net, todo, tick, tooLate, raced>>
    BY <1>10 DEF ReadState, ReadBanned, ReadPermissions, Listen, Disconnect, writers, history
  <2> QED
    BY <1>4, <2>1
<1>11. CASE WriteDefault
  <2>1. UNCHANGED <<todo, tick, tooLate>> /\ net'.banned = net.banned /\ net'.until = net.until /\ (raced => raced')
    BY <1>0, <1>11 DEF WriteDefault, writers, Nets
  <2> QED
    BY <1>4, <2>1
<1>12. CASE Leaves
  BY <1>4, <1>12 DEF Leaves
<1> QED
  BY <1>5, <1>6, <1>7, <1>8, <1>9, <1>10, <1>11, <1>12, Steps

-----------------------------------------------------------------------------
(* At the start nothing is set and nothing is under way.                   *)
LEMMA InitInv ==
  ASSUME Init
  PROVE  FirewallInv
<1>1. \A w \in Writers : todo[w] = <<>>
  BY DEF Init
<1>2. "panel" \in Writers /\ "timer" \in Writers /\ Elems(<<>>) = {} /\ Ordered(<<>>)
  BY OrderedBase DEF Writers
<1>3. TypeInv
  <2>1. net \in Nets
    BY ZeroType DEF Init, Nets
  <2>2. man \in Managers
    BY ZeroType DEF Init, NewManager, Managers
  <2>3. todo \in [Writers -> Seq(Commands)] /\ queue \in Seq(Commands)
    BY DEF Init
  <2>4. tick \in 0..MaxTick
    BY ZeroType DEF Init
  <2> QED
    BY <2>1, <2>2, <2>3, <2>4 DEF Init, TypeInv, Nets, Managers
<1>4. OrderInv
  BY <1>1, <1>2 DEF Init, OrderInv, TodoInv, QueueInv
<1>5. StateInv /\ BannedInv /\ AllowedInv
  BY <1>1, <1>2 DEF Init, StateInv, BannedInv, AllowedInv, NextOn, Next1, HasState, HasBanned, HasAllowed
<1>6. UntilInv
  BY <1>1, <1>2 DEF Init, UntilInv
<1> QED
  BY <1>3, <1>4, <1>5, <1>6 DEF FirewallInv

(* In every reachable state the keys in Redis, the commands on their way   *)
(* and the announcements in the gateway's queue fit together: every write  *)
(* is followed by its announcement, and what the gateway has, once the     *)
(* announcements it will receive are handled, is what Redis has            *)
(* (VPNControl, manage_iptables).                                          *)
THEOREM FirewallCorrect == Spec => []FirewallInv
<1>1. Init => FirewallInv
  BY InitInv
<1>2. FirewallInv /\ [Next]_vars => FirewallInv'
  BY TypeStep, OrderStep, StateStep, BannedStep, AllowedStep, UntilStep DEF FirewallInv
<1> QED
  BY <1>1, <1>2, PTL DEF Spec

(* When nothing is under way the gateway has the permissions that Redis    *)
(* has, and the state and the bans unless panel and timer overlapped; a    *)
(* gateway that read its keys and then subscribed knows no more if a       *)
(* change fell between (manage_iptables).                                  *)
THEOREM GatewayFollowsCorrect == Spec => []GatewayFollows
<1>1. FirewallInv => GatewayFollows
  <2> SUFFICES ASSUME FirewallInv, Idle, gate = "listen", ~missed
               PROVE  /\ man.allowed = net.allowed
                      /\ ~raced => man.state = net.state /\ man.banned = net.banned
    BY DEF GatewayFollows
  <2>1. /\ queue = <<>> /\ HasState /\ HasBanned /\ HasAllowed
        /\ \A w \in Writers : \A dos, t : ~Next1(w, dos) /\ ~NextOn(w, dos, t)
    BY DEF Idle, HasState, HasBanned, HasAllowed, Next1, NextOn
  <2>2. /\ net.banned \in SUBSET Teams /\ net.allowed \in SUBSET Teams
        /\ man.banned \in SUBSET Teams /\ man.allowed \in SUBSET Teams
    BY DEF FirewallInv, TypeInv
  <2>3. \A t \in Teams : t \in man.allowed <=> t \in net.allowed
    <3>1. "panel" \in Writers
      BY DEF Writers
    <3> QED
      BY <2>1, <3>1, AfterNone DEF FirewallInv, AllowedInv
  <2>4. ~raced => man.state = net.state
    BY <2>1, AfterNone DEF FirewallInv, StateInv
  <2>5. ~raced => \A t \in Teams : t \in man.banned <=> t \in net.banned
    BY <2>1, AfterNone DEF FirewallInv, BannedInv
  <2> QED
    BY <2>2, <2>3, <2>4, <2>5
<1> QED
  BY <1>1, FirewallCorrect, PTL

(* A ban ends with the start of the tick it was given, if it was given     *)
(* before that tick and no operations overlapped (ban_team,                *)
(* unban_for_tick).                                                        *)
THEOREM BanEndsCorrect == Spec => []BanEnds
<1>1. FirewallInv => BanEnds
  <2> SUFFICES ASSUME FirewallInv, Idle, ~raced
               PROVE  \A t \in net.banned \ tooLate : net.until[t] = 0 \/ net.until[t] > tick
    BY DEF BanEnds
  <2>1. Elems(todo["panel"]) = {} /\ Elems(todo["timer"]) = {}
    BY ElemsEmpty DEF Idle, Writers
  <2> QED
    BY <2>1 DEF FirewallInv, UntilInv
<1> QED
  BY <1>1, FirewallCorrect, PTL

-----------------------------------------------------------------------------
(* The chain.                                                              *)

(* The types of the other variables.                                       *)
WorkTypes ==
  /\ running \in BOOLEAN
  /\ registered \in 1..MaxTeams
  /\ chain \in Seq(Rules)
  /\ item \in Commands
  /\ watch \in {"starting", "asleep", "bans", "allows"}
  /\ seen \in [count: 0..MaxTeams, now: 0..MaxTeams, size: 0..MaxTeams]
  /\ late \in 0..MaxTeams
  /\ commands \in 0..MaxCommands /\ disconnects \in 0..MaxDisconnects

(* Permissions come before the rules of the state, which come before bans. *)
Rank(r) ==
  CASE r.kind = "allow" -> 0
    [] r.kind = "no vulnbox" -> 1
    [] r.kind = "teams only" -> 2
    [] r.kind = "closed" -> 3
    [] r.kind = "ban" -> 4
Sorted(ch) == \A i \in 1..Len(ch), j \in 1..Len(ch) : i < j => Rank(ch[i]) <= Rank(ch[j])

(* Announcements but those of a state name one team, and the manager's     *)
(* fields already are what the announcement being handled says.            *)
OneTeam(c) == c.do # "state" => \E t \in Teams : c.teams = {t}
ItemInv ==
  /\ \A c \in Elems(queue) : OneTeam(c)
  /\ gate = "apply" =>
       /\ item.do \in Announcements /\ OneTeam(item)
       /\ item.do = "ban" => item.teams \subseteq man.banned
       /\ item.do = "unban" => item.teams \cap man.banned = {}
       /\ item.do = "add_permission" => item.teams \subseteq man.allowed
       /\ item.do = "remove_permission" => item.teams \cap man.allowed = {}

(* A watcher that rewrites the chain saw more teams than it knew; there    *)
(* was a team before those that were late.                                 *)
WatchInv ==
  /\ watch # "asleep" => Subscribed
  /\ seen.count <= registered /\ late < registered
  /\ watch \in {"bans", "allows"} => seen.count < seen.now /\ seen.now <= registered

(* The announcement being handled concerns a rule, whose place in the      *)
(* chain is then open; a watcher has yet to write rules of that kind.      *)
Pending(dos, r) == gate = "apply" /\ item.do \in dos /\ r.n \in item.teams
Unwritten(kind) == watch = "bans" \/ (watch = "allows" /\ kind = "allow")

StateKinds == {"no vulnbox", "teams only", "closed"}
StateIn(n) ==
  \A r \in Rules : r.kind \in StateKinds => (Holds(chain, r) <=> Holds(StateRules(man.state, n), r))

(* Teams the rules were written for: all there are, but for those that     *)
(* were late or came while the watcher was busy.                           *)
Covers(n) ==
  /\ watch = "starting" => n + late >= registered
  /\ watch \in {"bans", "allows"} => n = seen.now
  /\ watch = "asleep" /\ late <= 1 => n + 1 >= registered

(* No teams have come that the watcher has not seen.                       *)
UpToDate == Subscribed /\ (watch = "asleep" => seen.count = registered)

BanIn(r) == r.kind = "ban" =>
  /\ Unwritten("ban") => ~Holds(chain, r)
  /\ ~Unwritten("ban") /\ ~Pending({"ban", "unban"}, r) => (Holds(chain, r) <=> r.n \in man.banned)
AllowIn(r) == r.kind = "allow" =>
  /\ Unwritten("allow") => ~Holds(chain, r)
  /\ ~Unwritten("allow") /\ ~Pending({"add_permission", "remove_permission"}, r) =>
       (Holds(chain, r) <=> r.n \in man.allowed)

(* The chain is sorted, and has the rules of the manager's state, bans and *)
(* permissions, but for what is under way.                                 *)
RulesInv ==
  /\ Sorted(chain)
  /\ UpToDate =>
       /\ ~(gate = "apply" /\ item.do = "state") => \E n \in 1..MaxTeams : StateIn(n) /\ Covers(n)
       /\ \A r \in Rules : BanIn(r) /\ AllowIn(r)

ChainInv == WorkTypes /\ ItemInv /\ WatchInv /\ RulesInv

-----------------------------------------------------------------------------
(* Rules and chains.                                                       *)

(* A team, a number of teams and one more are numbers of rules.            *)
LEMMA RuleNumbers ==
  /\ MaxTeams \in Nat /\ 0 \in 0..(MaxTeams + 1)
  /\ \A t \in Teams : t \in 0..(MaxTeams + 1) /\ t \in 1..MaxTeams
  /\ \A n \in 1..MaxTeams : n + 1 \in 0..(MaxTeams + 1)
BY FirewallAssumption

(* A rule and its fields.                                                  *)
LEMMA RuleFacts ==
  ASSUME NEW kind \in {"closed", "teams only", "no vulnbox", "ban", "allow"}, NEW n \in 0..(MaxTeams + 1)
  PROVE  /\ Rule(kind, n) \in Rules /\ Rule(kind, n).kind = kind /\ Rule(kind, n).n = n
         /\ \A r \in Rules : r = Rule(kind, n) <=> r.kind = kind /\ r.n = n
<1>1. Rule(kind, n) \in Rules /\ Rule(kind, n).kind = kind /\ Rule(kind, n).n = n
  BY DEF Rule, Rules
<1>2. ASSUME NEW r \in Rules PROVE r = [kind |-> r.kind, n |-> r.n]
  BY DEF Rules
<1>3. ASSUME NEW r \in Rules, r.kind = kind, r.n = n PROVE r = Rule(kind, n)
  BY <1>2, <1>3 DEF Rule
<1> QED
  BY <1>1, <1>3

(* Ranks are between those of permissions and bans.                        *)
LEMMA RankFacts ==
  ASSUME NEW r \in Rules
  PROVE  /\ Rank(r) \in 0..4
         /\ r.kind = "allow" => Rank(r) = 0
         /\ r.kind = "no vulnbox" => Rank(r) = 1
         /\ r.kind = "teams only" => Rank(r) = 2
         /\ r.kind = "closed" => Rank(r) = 3
         /\ r.kind = "ban" => Rank(r) = 4
<1>1. r.kind \in {"closed", "teams only", "no vulnbox", "ban", "allow"}
  BY DEF Rules
<1>2. /\ r.kind = "allow" => Rank(r) = 0
      /\ r.kind = "no vulnbox" => Rank(r) = 1
      /\ r.kind = "teams only" => Rank(r) = 2
      /\ r.kind = "closed" => Rank(r) = 3
      /\ r.kind = "ban" => Rank(r) = 4
  BY Zenon DEF Rank
<1>3. Rank(r) \in {0, 1, 2, 3, 4}
  BY <1>1, <1>2, Zenon
<1>4. \A n \in {0, 1, 2, 3, 4} : n \in 0..4
  OBVIOUS
<1>5. Rank(r) \in 0..4
  BY <1>3, <1>4, Zenon
<1> QED
  BY <1>2, <1>5, Zenon

(* A ban is added at the end.                                              *)
LEMMA BanAdded ==
  ASSUME NEW c \in Seq(Rules), Sorted(c), NEW t \in Teams
  PROVE  /\ ban_rules(c, t) \in Seq(Rules) /\ Sorted(ban_rules(c, t))
         /\ \A r \in Rules : Holds(ban_rules(c, t), r) <=> Holds(c, r) \/ (r.kind = "ban" /\ r.n = t)
<1>1. PICK b \in Rules : b = Rule("ban", t) /\ b.kind = "ban" /\ \A r \in Rules : r = b <=> r.kind = "ban" /\ r.n = t
  <2>1. t \in 0..(MaxTeams + 1) /\ "ban" \in {"closed", "teams only", "no vulnbox", "ban", "allow"}
    BY RuleNumbers
  <2>2. /\ Rule("ban", t) \in Rules /\ Rule("ban", t).kind = "ban"
        /\ \A r \in Rules : r = Rule("ban", t) <=> r.kind = "ban" /\ r.n = t
    BY <2>1, RuleFacts, Zenon
  <2> QED
    BY <2>2, Zenon
<1>2. PICK d : d = ban_rules(c, t)
  OBVIOUS
<1>3. d = IF Holds(c, b) THEN c ELSE Append(c, b)
  BY <1>1, <1>2 DEF ban_rules, iptables_add
<1>4. CASE Holds(c, b)
  BY <1>1, <1>2, <1>3, <1>4
<1>5. CASE ~Holds(c, b)
  <2>1. /\ d \in Seq(Rules) /\ Len(d) = Len(c) + 1 /\ Len(c) \in Nat /\ d[Len(c) + 1] = b
        /\ \A i \in 1..Len(c) : d[i] = c[i] /\ c[i] \in Rules
    BY <1>3, <1>5
  <2>2. ASSUME NEW r \in Rules PROVE Holds(d, r) <=> Holds(c, r) \/ r = b
    BY <2>1 DEF Holds
  <2>3. ASSUME NEW i \in 1..Len(d), NEW j \in 1..Len(d), i < j PROVE Rank(d[i]) <= Rank(d[j])
    <3>1. i \in 1..Len(c) /\ d[i] \in Rules /\ d[i] = c[i]
      BY <2>1, <2>3
    <3>2. CASE j = Len(c) + 1
      <4>1. Rank(d[i]) \in 0..4 /\ Rank(b) = 4
        BY <1>1, <3>1, RankFacts
      <4> QED
        BY <2>1, <3>2, <4>1
    <3>3. CASE j # Len(c) + 1
      <4>1. j \in 1..Len(c)
        BY <2>1, <3>3
      <4> QED
        BY <2>1, <2>3, <3>1, <4>1 DEF Sorted
    <3> QED
      BY <3>2, <3>3
  <2> QED
    BY <1>1, <1>2, <2>1, <2>2, <2>3 DEF Sorted
<1> QED
  BY <1>4, <1>5

(* A permission is added at the front.                                     *)
LEMMA AllowAdded ==
  ASSUME NEW c \in Seq(Rules), Sorted(c), NEW t \in Teams
  PROVE  /\ allow_rules(c, t) \in Seq(Rules) /\ Sorted(allow_rules(c, t))
         /\ \A r \in Rules : Holds(allow_rules(c, t), r) <=> Holds(c, r) \/ (r.kind = "allow" /\ r.n = t)
<1>1. PICK b \in Rules : b = Rule("allow", t) /\ b.kind = "allow" /\ \A r \in Rules : r = b <=> r.kind = "allow" /\ r.n = t
  <2>1. t \in 0..(MaxTeams + 1) /\ "allow" \in {"closed", "teams only", "no vulnbox", "ban", "allow"}
    BY RuleNumbers
  <2>2. /\ Rule("allow", t) \in Rules /\ Rule("allow", t).kind = "allow"
        /\ \A r \in Rules : r = Rule("allow", t) <=> r.kind = "allow" /\ r.n = t
    BY <2>1, RuleFacts, Zenon
  <2> QED
    BY <2>2, Zenon
<1>2. PICK d : d = allow_rules(c, t)
  OBVIOUS
<1>3. d = IF Holds(c, b) THEN c ELSE <<b>> \o c
  BY <1>1, <1>2 DEF allow_rules, iptables_insert
<1>4. CASE Holds(c, b)
  BY <1>1, <1>2, <1>3, <1>4
<1>5. CASE ~Holds(c, b)
  <2>1. /\ d \in Seq(Rules) /\ Len(d) = Len(c) + 1 /\ Len(c) \in Nat /\ d[1] = b
        /\ \A i \in 1..Len(c) : d[i + 1] = c[i] /\ c[i] \in Rules
    BY <1>3, <1>5
  <2>2. ASSUME NEW i \in 1..Len(d), i # 1 PROVE i - 1 \in 1..Len(c) /\ d[i] = c[i - 1]
    <3>1. i - 1 \in 1..Len(c) /\ (i - 1) + 1 = i
      BY <2>1, <2>2
    <3> QED
      BY <1>1, <2>1, <3>1
  <2>3. ASSUME NEW r \in Rules PROVE Holds(d, r) <=> Holds(c, r) \/ r = b
    <3>1. ASSUME Holds(d, r) PROVE Holds(c, r) \/ r = b
      BY <2>1, <2>2, <3>1 DEF Holds
    <3>2. ASSUME Holds(c, r) \/ r = b PROVE Holds(d, r)
      <4>1. CASE r = b
        <5>1. 1 \in 1..Len(d)
          BY <2>1
        <5> QED
          BY <2>1, <4>1, <5>1 DEF Holds
      <4>2. CASE Holds(c, r)
        <5>1. PICK i \in 1..Len(c) : c[i] = r
          BY <4>2 DEF Holds
        <5>2. i + 1 \in 1..Len(d) /\ d[i + 1] = r
          BY <2>1, <5>1
        <5> QED
          BY <5>2 DEF Holds
      <4> QED
        BY <3>2, <4>1, <4>2
    <3> QED
      BY <3>1, <3>2
  <2>4. ASSUME NEW i \in 1..Len(d), NEW j \in 1..Len(d), i < j PROVE Rank(d[i]) <= Rank(d[j])
    <3>1. j - 1 \in 1..Len(c) /\ d[j] = c[j - 1] /\ d[j] \in Rules /\ Rank(d[j]) \in 0..4
      <4>1. j # 1
        BY <2>4
      <4>2. j - 1 \in 1..Len(c) /\ d[j] = c[j - 1]
        BY <2>2, <4>1
      <4> QED
        BY <2>1, <4>2, RankFacts
    <3>2. CASE i = 1
      <4>1. Rank(b) = 0
        BY <1>1, RankFacts
      <4> QED
        BY <2>1, <3>1, <3>2, <4>1
    <3>3. CASE i # 1
      <4>1. i - 1 \in 1..Len(c) /\ d[i] = c[i - 1] /\ i - 1 < j - 1
        BY <2>2, <2>4, <3>3
      <4> QED
        BY <3>1, <4>1 DEF Sorted
    <3> QED
      BY <3>2, <3>3
  <2> QED
    BY <1>1, <1>2, <2>1, <2>3, <2>4 DEF Sorted
<1> QED
  BY <1>4, <1>5

(* Rules are removed wherever they are.                                    *)
LEMMA RuleRemoved ==
  ASSUME NEW c \in Seq(Rules), Sorted(c), NEW b \in Rules
  PROVE  /\ iptables_remove(c, b) \in Seq(Rules) /\ Sorted(iptables_remove(c, b))
         /\ \A r \in Rules : Holds(iptables_remove(c, b), r) <=> Holds(c, r) /\ r # b
<1> DEFINE Value(i, g) == IF i = 0 THEN <<>> ELSE IF c[i] = b THEN g[i - 1] ELSE Append(g[i - 1], c[i])
           Kept(g) == g = [i \in 0..Len(c) |-> Value(i, g)]
<1>1. Len(c) \in Nat /\ \A i \in 1..Len(c) : c[i] \in Rules
  OBVIOUS
<1>2. \E g : Kept(g)
  <2> DEFINE F == [i \in 1..Len(c) |-> [s \in Seq(Rules) |-> IF c[i] = b THEN s ELSE Append(s, c[i])]]
  <2>1. F \in [1..Len(c) -> [Seq(Rules) -> Seq(Rules)]] /\ <<>> \in Seq(Rules)
    BY <1>1
  <2>2. \A i \in 1..Len(c), s \in Seq(Rules) : F[i][s] = IF c[i] = b THEN s ELSE Append(s, c[i])
    BY <1>1
  <2> HIDE DEF F
  <2>3. PICK g \in [0..Len(c) -> Seq(Rules)] : \A i \in 0..Len(c) : g[i] = IF i = 0 THEN <<>> ELSE F[i][g[i - 1]]
    <3>1. PICK n, V, e : n = Len(c) /\ V = Seq(Rules) /\ e = <<>>
      BY <1>1, <2>1
    <3>2. PICK G : G = F
      OBVIOUS
    <3>3. n \in Nat /\ G \in [1..n -> [V -> V]] /\ e \in V
      BY <1>1, <2>1, <3>1, <3>2
    <3>4. \E g \in [0..n -> V] : Recurs(g, n, e, G)
      BY <3>3, RecursionExists
    <3> QED
      BY <3>1, <3>2, <3>4 DEF Recurs
  <2>4. ASSUME NEW i \in 0..Len(c) PROVE g[i] = Value(i, g)
    <3>1. CASE i = 0
      BY <2>3, <3>1
    <3>2. CASE i # 0
      <4>1. i \in 1..Len(c) /\ i - 1 \in 0..Len(c)
        BY <1>1, <3>2
      <4>2. g[i - 1] \in Seq(Rules)
        BY <4>1
      <4> QED
        BY <2>2, <2>3, <3>2, <4>1, <4>2
    <3> QED
      BY <3>1, <3>2
  <2> HIDE DEF Value
  <2>5. Kept(g)
    BY <2>4
  <2> QED
    BY <2>5
<1>3. PICK g : Kept(g) /\ iptables_remove(c, b) = g[Len(c)]
  <2> DEFINE k == CHOOSE g : Kept(g)
  <2>1. iptables_remove(c, b) = k[Len(c)]
    BY DEF iptables_remove
  <2> HIDE DEF Kept
  <2>2. Kept(k)
    BY <1>2
  <2> QED
    BY <2>1, <2>2
<1>4. \A i \in 0..Len(c) : g[i] = Value(i, g)
  BY <1>3
<1> HIDE DEF Kept
<1> DEFINE Good(i) == /\ g[i] \in Seq(Rules) /\ Sorted(g[i])
                      /\ \A r \in Rules : Holds(g[i], r) <=> r # b /\ \E j \in 1..i : c[j] = r
<1>5. Good(0)
  <2>1. g[0] = <<>>
    BY <1>1, <1>4
  <2> QED
    BY <2>1 DEF Sorted, Holds
<1>6. ASSUME NEW i \in 1..Len(c), Good(i - 1) PROVE Good(i)
  <2>1. PICK s \in Seq(Rules) : s = g[i - 1]
    BY <1>6
  <2>2. i \in 0..Len(c) /\ i # 0 /\ i \in Nat /\ c[i] \in Rules
    BY <1>1
  <2>3. g[i] = IF c[i] = b THEN s ELSE Append(s, c[i])
    BY <1>4, <2>1, <2>2
  <2>4. ASSUME NEW r \in Rules
        PROVE  (\E j \in 1..i : c[j] = r) <=> (c[i] = r \/ \E j \in 1..(i - 1) : c[j] = r)
    <3>1. \A j \in 1..i : j = i \/ j \in 1..(i - 1)
      BY <2>2
    <3>2. \A j \in 1..(i - 1) : j \in 1..i
      BY <2>2
    <3>3. i \in 1..i
      BY <2>2
    <3> QED
      BY <3>1, <3>2, <3>3
  <2>5. Sorted(s) /\ \A r \in Rules : Holds(s, r) <=> r # b /\ \E j \in 1..(i - 1) : c[j] = r
    BY <1>6, <2>1
  <2>6. CASE c[i] = b
    BY <2>1, <2>3, <2>4, <2>5, <2>6
  <2>7. CASE c[i] # b
    <3>1. PICK d \in Seq(Rules) : d = g[i] /\ d = Append(s, c[i])
      <4>1. Append(s, c[i]) \in Seq(Rules)
        BY <2>2
      <4> QED
        BY <2>3, <2>7, <4>1
    <3>2. /\ Len(d) = Len(s) + 1 /\ Len(s) \in Nat /\ d[Len(s) + 1] = c[i]
          /\ \A j \in 1..Len(s) : d[j] = s[j] /\ s[j] \in Rules
      BY <2>2, <3>1
    <3>3. ASSUME NEW r \in Rules PROVE Holds(d, r) <=> Holds(s, r) \/ r = c[i]
      BY <3>2 DEF Holds
    <3>4. ASSUME NEW j \in 1..Len(s) PROVE Rank(s[j]) <= Rank(c[i])
      <4>1. s[j] \in Rules /\ Holds(s, s[j])
        BY <3>2 DEF Holds
      <4>2. PICK m \in 1..(i - 1) : c[m] = s[j]
        BY <2>5, <4>1
      <4>3. m \in 1..Len(c) /\ m < i
        BY <1>1, <2>2
      <4> QED
        BY <4>2, <4>3 DEF Sorted
    <3>5. ASSUME NEW j \in 1..Len(d), NEW m \in 1..Len(d), j < m PROVE Rank(d[j]) <= Rank(d[m])
      <4>1. j \in 1..Len(s) /\ d[j] = s[j]
        BY <3>2, <3>5
      <4>2. CASE m = Len(s) + 1
        BY <3>2, <3>4, <4>1, <4>2
      <4>3. CASE m # Len(s) + 1
        <5>1. m \in 1..Len(s)
          BY <3>2, <4>3
        <5> QED
          BY <2>5, <3>2, <3>5, <4>1, <5>1 DEF Sorted
      <4> QED
        BY <4>2, <4>3
    <3>6. Sorted(d)
      BY <3>5 DEF Sorted
    <3> QED
      BY <2>4, <2>5, <2>7, <3>1, <3>3, <3>6
  <2> QED
    BY <2>6, <2>7
<1> HIDE DEF Good
<1>7. Good(Len(c))
  <2> DEFINE T == {j \in 0..Len(c) : ~Good(j)}
  <2> SUFFICES ASSUME ~Good(Len(c)) PROVE FALSE
    OBVIOUS
  <2>1. T \in SUBSET Nat /\ Len(c) \in T
    BY <1>1
  <2>2. PICK m \in T : \A j \in T : m <= j
    BY <2>1, LeastNat
  <2>3. m \in 1..Len(c)
    BY <1>1, <1>5
  <2>4. ~(m - 1 \in T) /\ m - 1 \in 0..Len(c)
    BY <1>1, <2>2, <2>3
  <2>5. Good(m - 1)
    BY <2>4
  <2>6. Good(m)
    BY <1>6, <2>3, <2>5
  <2> QED
    BY <2>2, <2>6
<1> QED
  BY <1>3, <1>7 DEF Good, Holds

(* A chain with the rules of some teams.                                   *)
WithTeams(d, c, kind, ts) ==
  /\ d \in Seq(Rules) /\ Sorted(d)
  /\ \A r \in Rules : Holds(d, r) <=> Holds(c, r) \/ (r.kind = kind /\ r.n \in ts)

(* Rules that are added team by team are those of all teams.               *)
LEMMA TeamByTeam ==
  ASSUME NEW c \in Seq(Rules), Sorted(c), NEW ts \in SUBSET Teams, NEW kind, NEW g, g[{}] = c,
         \A s \in SUBSET ts : s # {} =>
           \E t \in s : WithTeams(g[s \ {t}], c, kind, s \ {t}) => WithTeams(g[s], g[s \ {t}], kind, {t})
  PROVE  WithTeams(g[ts], c, kind, ts)
<1> DEFINE Good(s) == WithTeams(g[s], c, kind, s)
           T == {n \in Nat : \E s \in SUBSET ts : Cardinality(s) = n /\ ~Good(s)}
<1>1. IsFiniteSet(ts)
  <2>1. IsFiniteSet(1..MaxTeams) /\ ts \in SUBSET (1..MaxTeams)
    BY FS_Interval, FirewallAssumption
  <2> QED
    BY <2>1, FS_Subset
<1>2. \A s \in SUBSET ts : IsFiniteSet(s) /\ Cardinality(s) \in Nat
  BY <1>1, FS_Subset, FS_CardinalityType
<1>3. Good({})
  BY DEF WithTeams
<1>4. ASSUME NEW s \in SUBSET ts, NEW t \in s, Good(s \ {t}), WithTeams(g[s], g[s \ {t}], kind, {t}) PROVE Good(s)
  <2>1. PICK d, e : d = g[s] /\ e = g[s \ {t}]
    OBVIOUS
  <2>2. d \in Seq(Rules) /\ Sorted(d)
    BY <1>4, <2>1 DEF WithTeams
  <2>3. ASSUME NEW r \in Rules PROVE Holds(d, r) <=> Holds(c, r) \/ (r.kind = kind /\ r.n \in s)
    <3>1. Holds(d, r) <=> Holds(e, r) \/ (r.kind = kind /\ r.n \in {t})
      BY <1>4, <2>1 DEF WithTeams
    <3>2. Holds(e, r) <=> Holds(c, r) \/ (r.kind = kind /\ r.n \in s \ {t})
      BY <1>4, <2>1 DEF WithTeams
    <3> QED
      BY <3>1, <3>2
  <2> QED
    BY <2>1, <2>2, <2>3 DEF WithTeams
<1> HIDE DEF Good
<1> SUFFICES ASSUME ~Good(ts) PROVE FALSE
  BY DEF Good
<1>5. T \in SUBSET Nat /\ Cardinality(ts) \in T
  BY <1>2
<1>6. PICK m \in T : \A k \in T : m <= k
  BY <1>5, LeastNat
<1>7. PICK s \in SUBSET ts : Cardinality(s) = m /\ ~Good(s)
  OBVIOUS
<1>8. s # {}
  BY <1>3, <1>7
<1>9. PICK t \in s : Good(s \ {t}) => WithTeams(g[s], g[s \ {t}], kind, {t})
  BY <1>8 DEF Good
<1>10. Cardinality(s \ {t}) = m - 1 /\ Cardinality(s \ {t}) \in Nat /\ s \ {t} \in SUBSET ts
  BY <1>2, <1>7, FS_RemoveElement
<1>11. m - 1 \notin T
  BY <1>5, <1>6
<1>12. Good(s \ {t})
  BY <1>10, <1>11
<1> QED
  BY <1>4, <1>7, <1>9, <1>12

(* The bans of some teams.                                                 *)
LEMMA BansAdded ==
  ASSUME NEW c \in Seq(Rules), Sorted(c), NEW ts \in SUBSET Teams
  PROVE  WithTeams(ban_all(c, ts), c, "ban", ts)
<1> DEFINE pick(s) == CHOOSE x \in s : TRUE
           Value(s, g) == IF s = {} THEN c ELSE ban_rules(g[s \ {pick(s)}], pick(s))
           Fold(g) == g = [s \in SUBSET ts |-> Value(s, g)]
<1>1. IsFiniteSet(ts)
  <2>1. IsFiniteSet(1..MaxTeams) /\ ts \in SUBSET (1..MaxTeams)
    BY FS_Interval, FirewallAssumption
  <2> QED
    BY <2>1, FS_Subset
<1>2. ASSUME NEW d \in Seq(Rules), NEW t \in Teams PROVE ban_rules(d, t) \in Seq(Rules)
  <2>1. Rule("ban", t) \in Rules
    BY RuleFacts, RuleNumbers
  <2> QED
    BY <2>1 DEF ban_rules, iptables_add
<1>3. \E g : Fold(g)
  <2> DEFINE F == [t \in ts |-> [d \in Seq(Rules) |-> ban_rules(d, t)]]
  <2>1. F \in [ts -> [Seq(Rules) -> Seq(Rules)]]
    BY <1>2
  <2>2. \A t \in ts, d \in Seq(Rules) : F[t][d] = ban_rules(d, t)
    OBVIOUS
  <2> HIDE DEF F
  <2>3. PICK V, G : V = Seq(Rules) /\ G = F
    OBVIOUS
  <2>4. c \in V /\ G \in [ts -> [V -> V]]
    BY <2>1, <2>3
  <2>5. PICK g \in [SUBSET ts -> V] : FoldsBy(g, ts, c, G)
    BY <1>1, <2>4, FoldExists
  <2>6. ASSUME NEW s \in SUBSET ts PROVE g[s] = Value(s, g)
    <3>1. g[s] = IF s = {} THEN c ELSE G[pick(s)][g[s \ {pick(s)}]]
      BY <2>5 DEF FoldsBy
    <3>2. s # {} => pick(s) \in ts /\ g[s \ {pick(s)}] \in Seq(Rules)
      BY <2>3, <2>5
    <3> QED
      BY <2>2, <2>3, <3>1, <3>2
  <2> HIDE DEF Value
  <2>7. Fold(g)
    BY <2>6
  <2> QED
    BY <2>7
<1>4. PICK g : Fold(g) /\ ban_all(c, ts) = g[ts]
  <2> DEFINE k == CHOOSE g : Fold(g)
  <2>1. ban_all(c, ts) = k[ts]
    BY DEF ban_all, FoldSet, MapThenFoldSet
  <2> HIDE DEF Fold
  <2>2. Fold(k)
    BY <1>3
  <2> QED
    BY <2>1, <2>2
<1>5. \A s \in SUBSET ts : g[s] = Value(s, g)
  BY <1>4
<1>6. g[{}] = c
  BY <1>5
<1>7. ASSUME NEW s \in SUBSET ts, s # {}
      PROVE  \E t \in s : WithTeams(g[s \ {t}], c, "ban", s \ {t}) => WithTeams(g[s], g[s \ {t}], "ban", {t})
  <2>1. PICK t \in s : t = pick(s)
    BY <1>7
  <2>2. g[s] = ban_rules(g[s \ {t}], t)
    BY <1>5, <1>7, <2>1
  <2>3. ASSUME WithTeams(g[s \ {t}], c, "ban", s \ {t}) PROVE WithTeams(g[s], g[s \ {t}], "ban", {t})
    <3>1. PICK d : d = g[s \ {t}] /\ d \in Seq(Rules) /\ Sorted(d)
      BY <2>3 DEF WithTeams
    <3>2. t \in Teams
      OBVIOUS
    <3>3. WithTeams(ban_rules(d, t), d, "ban", {t})
      <4>1. PICK e : e = ban_rules(d, t)
        OBVIOUS
      <4>2. /\ e \in Seq(Rules) /\ Sorted(e)
            /\ \A r \in Rules : Holds(e, r) <=> Holds(d, r) \/ (r.kind = "ban" /\ r.n = t)
        BY <3>1, <3>2, <4>1, BanAdded
      <4> QED
        BY <4>1, <4>2 DEF WithTeams
    <3> QED
      BY <2>2, <3>1, <3>3
  <2> QED
    BY <2>3
<1> HIDE DEF Fold
<1> QED
  BY <1>4, <1>6, <1>7, TeamByTeam

(* The permissions of some teams.                                          *)
LEMMA AllowsAdded ==
  ASSUME NEW c \in Seq(Rules), Sorted(c), NEW ts \in SUBSET Teams
  PROVE  WithTeams(allow_all(c, ts), c, "allow", ts)
<1> DEFINE pick(s) == CHOOSE x \in s : TRUE
           Value(s, g) == IF s = {} THEN c ELSE allow_rules(g[s \ {pick(s)}], pick(s))
           Fold(g) == g = [s \in SUBSET ts |-> Value(s, g)]
<1>1. IsFiniteSet(ts)
  <2>1. IsFiniteSet(1..MaxTeams) /\ ts \in SUBSET (1..MaxTeams)
    BY FS_Interval, FirewallAssumption
  <2> QED
    BY <2>1, FS_Subset
<1>2. ASSUME NEW d \in Seq(Rules), NEW t \in Teams PROVE allow_rules(d, t) \in Seq(Rules)
  <2>1. Rule("allow", t) \in Rules
    BY RuleFacts, RuleNumbers
  <2> QED
    BY <2>1 DEF allow_rules, iptables_insert
<1>3. \E g : Fold(g)
  <2> DEFINE F == [t \in ts |-> [d \in Seq(Rules) |-> allow_rules(d, t)]]
  <2>1. F \in [ts -> [Seq(Rules) -> Seq(Rules)]]
    BY <1>2
  <2>2. \A t \in ts, d \in Seq(Rules) : F[t][d] = allow_rules(d, t)
    OBVIOUS
  <2> HIDE DEF F
  <2>3. PICK V, G : V = Seq(Rules) /\ G = F
    OBVIOUS
  <2>4. c \in V /\ G \in [ts -> [V -> V]]
    BY <2>1, <2>3
  <2>5. PICK g \in [SUBSET ts -> V] : FoldsBy(g, ts, c, G)
    BY <1>1, <2>4, FoldExists
  <2>6. ASSUME NEW s \in SUBSET ts PROVE g[s] = Value(s, g)
    <3>1. g[s] = IF s = {} THEN c ELSE G[pick(s)][g[s \ {pick(s)}]]
      BY <2>5 DEF FoldsBy
    <3>2. s # {} => pick(s) \in ts /\ g[s \ {pick(s)}] \in Seq(Rules)
      BY <2>3, <2>5
    <3> QED
      BY <2>2, <2>3, <3>1, <3>2
  <2> HIDE DEF Value
  <2>7. Fold(g)
    BY <2>6
  <2> QED
    BY <2>7
<1>4. PICK g : Fold(g) /\ allow_all(c, ts) = g[ts]
  <2> DEFINE k == CHOOSE g : Fold(g)
  <2>1. allow_all(c, ts) = k[ts]
    BY DEF allow_all, FoldSet, MapThenFoldSet
  <2> HIDE DEF Fold
  <2>2. Fold(k)
    BY <1>3
  <2> QED
    BY <2>1, <2>2
<1>5. \A s \in SUBSET ts : g[s] = Value(s, g)
  BY <1>4
<1>6. g[{}] = c
  BY <1>5
<1>7. ASSUME NEW s \in SUBSET ts, s # {}
      PROVE  \E t \in s : WithTeams(g[s \ {t}], c, "allow", s \ {t}) => WithTeams(g[s], g[s \ {t}], "allow", {t})
  <2>1. PICK t \in s : t = pick(s)
    BY <1>7
  <2>2. g[s] = allow_rules(g[s \ {t}], t)
    BY <1>5, <1>7, <2>1
  <2>3. ASSUME WithTeams(g[s \ {t}], c, "allow", s \ {t}) PROVE WithTeams(g[s], g[s \ {t}], "allow", {t})
    <3>1. PICK d : d = g[s \ {t}] /\ d \in Seq(Rules) /\ Sorted(d)
      BY <2>3 DEF WithTeams
    <3>2. t \in Teams
      OBVIOUS
    <3>3. WithTeams(allow_rules(d, t), d, "allow", {t})
      <4>1. PICK e : e = allow_rules(d, t)
        OBVIOUS
      <4>2. /\ e \in Seq(Rules) /\ Sorted(e)
            /\ \A r \in Rules : Holds(e, r) <=> Holds(d, r) \/ (r.kind = "allow" /\ r.n = t)
        BY <3>1, <3>2, <4>1, AllowAdded
      <4> QED
        BY <4>1, <4>2 DEF WithTeams
    <3> QED
      BY <2>2, <3>1, <3>3
  <2> QED
    BY <2>3
<1> HIDE DEF Fold
<1> QED
  BY <1>4, <1>6, <1>7, TeamByTeam

(* The rules of a state.                                                   *)
LEMMA StateRulesFacts ==
  ASSUME NEW v \in NetStates, NEW n \in 1..MaxTeams
  PROVE  /\ StateRules(v, n) \in Seq(Rules) /\ Sorted(StateRules(v, n))
         /\ Closed \in Rules /\ TeamsOnly \in Rules /\ Rule("no vulnbox", n + 1) \in Rules
         /\ \A r \in Rules : Holds(StateRules(v, n), r) <=>
              \/ v # "on" /\ r = Closed
              \/ v \in {"team", "team-no-vulnbox"} /\ r = TeamsOnly
              \/ v = "team-no-vulnbox" /\ r = Rule("no vulnbox", n + 1)
<1>1. PICK a \in Rules, b \in Rules, d \in Rules :
        /\ a = Closed /\ b = TeamsOnly /\ d = Rule("no vulnbox", n + 1)
        /\ Rank(a) = 3 /\ Rank(b) = 2 /\ Rank(d) = 1
  <2>1. 0 \in 0..(MaxTeams + 1) /\ n + 1 \in 0..(MaxTeams + 1)
    BY RuleNumbers
  <2>2. Closed \in Rules /\ Closed.kind = "closed"
    BY <2>1, RuleFacts, Zenon DEF Closed
  <2>3. TeamsOnly \in Rules /\ TeamsOnly.kind = "teams only"
    BY <2>1, RuleFacts, Zenon DEF TeamsOnly
  <2>4. Rule("no vulnbox", n + 1) \in Rules /\ Rule("no vulnbox", n + 1).kind = "no vulnbox"
    BY <2>1, RuleFacts, Zenon
  <2>5. Rank(Closed) = 3 /\ Rank(TeamsOnly) = 2 /\ Rank(Rule("no vulnbox", n + 1)) = 1
    BY <2>2, <2>3, <2>4, RankFacts, Zenon
  <2> QED
    BY <2>2, <2>3, <2>4, <2>5, Zenon
<1>2. PICK s : s = StateRules(v, n)
  OBVIOUS
<1>3. Rank(a) = 3 /\ Rank(b) = 2 /\ Rank(d) = 1
  BY <1>1, Zenon
<1>4. CASE v = "on"
  <2>1. s = <<>>
    BY <1>2, <1>4 DEF StateRules
  <2>2. s \in Seq(Rules) /\ Sorted(s) /\ \A r \in Rules : ~Holds(s, r)
    BY <2>1 DEF Sorted, Holds
  <2> QED
    BY <1>1, <1>2, <1>4, <2>2
<1>5. CASE v = "team"
  <2>1. s = <<b, a>>
    BY <1>1, <1>2, <1>5 DEF StateRules
  <2>2. Len(s) = 2 /\ s[1] = b /\ s[2] = a /\ s \in Seq(Rules) /\ \A i \in 1..2 : i = 1 \/ i = 2
    BY <2>1
  <2>3. Sorted(s)
    BY <1>3, <2>2 DEF Sorted
  <2>4. \A r : Holds(s, r) <=> r = a \/ r = b
    BY <2>2 DEF Holds
  <2> QED
    BY <1>1, <1>2, <1>5, <2>2, <2>3, <2>4
<1>6. CASE v = "team-no-vulnbox"
  <2>1. s = <<d, b, a>>
    BY <1>1, <1>2, <1>6 DEF StateRules
  <2>2. Len(s) = 3 /\ s[1] = d /\ s[2] = b /\ s[3] = a /\ s \in Seq(Rules) /\ \A i \in 1..3 : i = 1 \/ i = 2 \/ i = 3
    BY <2>1
  <2>3. Sorted(s)
    BY <1>3, <2>2 DEF Sorted
  <2>4. \A r : Holds(s, r) <=> r = a \/ r = b \/ r = d
    BY <2>2 DEF Holds
  <2> QED
    BY <1>1, <1>2, <1>6, <2>2, <2>3, <2>4
<1>7. CASE v = "off"
  <2>1. s = <<a>>
    BY <1>1, <1>2, <1>7 DEF StateRules
  <2>2. Len(s) = 1 /\ s[1] = a /\ s \in Seq(Rules) /\ \A i \in 1..1 : i = 1
    BY <2>1
  <2>3. Sorted(s)
    BY <1>3, <2>2 DEF Sorted
  <2>4. \A r : Holds(s, r) <=> r = a
    BY <2>2 DEF Holds
  <2> QED
    BY <1>1, <1>2, <1>7, <2>2, <2>3, <2>4
<1> QED
  BY <1>4, <1>5, <1>6, <1>7 DEF NetStates

(* They are neither bans nor permissions.                                  *)
LEMMA StateRulesKinds ==
  ASSUME NEW v \in NetStates, NEW n \in 1..MaxTeams, NEW r \in Rules, Holds(StateRules(v, n), r)
  PROVE  r.kind \in StateKinds /\ r.kind # "ban" /\ r.kind # "allow"
<1>1. 0 \in 0..(MaxTeams + 1) /\ n + 1 \in 0..(MaxTeams + 1)
  BY RuleNumbers
<1>2. Closed.kind = "closed" /\ TeamsOnly.kind = "teams only" /\ Rule("no vulnbox", n + 1).kind = "no vulnbox"
  BY <1>1, RuleFacts, Zenon DEF Closed, TeamsOnly
<1>3. r = Closed \/ r = TeamsOnly \/ r = Rule("no vulnbox", n + 1)
  BY StateRulesFacts
<1>4. r.kind = "closed" \/ r.kind = "teams only" \/ r.kind = "no vulnbox"
  BY <1>2, <1>3, Zenon
<1> QED
  BY <1>4 DEF StateKinds

(* A rewritten chain.                                                      *)
Exactly(c, m, n) ==
  \A r \in Rules : Holds(c, r) <=> \/ Holds(StateRules(m.state, n), r)
                                   \/ r.kind = "ban" /\ r.n \in m.banned
                                   \/ r.kind = "allow" /\ r.n \in m.allowed
(* A chain written afresh is sorted and has exactly the rules it should.   *)
LEMMA Rewritten ==
  ASSUME NEW m \in [state: NetStates, banned: SUBSET Teams, allowed: SUBSET Teams], NEW n \in 1..MaxTeams
  PROVE  /\ rewrite_chain(m, n) \in Seq(Rules) /\ Sorted(rewrite_chain(m, n))
         /\ Exactly(rewrite_chain(m, n), m, n)
<1>1. m.state \in NetStates /\ m.banned \in SUBSET Teams /\ m.allowed \in SUBSET Teams
  OBVIOUS
<1>2. PICK s : s = StateRules(m.state, n) /\ s \in Seq(Rules) /\ Sorted(s)
  BY <1>1, StateRulesFacts
<1>3. PICK b : b = ban_all(s, m.banned) /\ WithTeams(b, s, "ban", m.banned)
  BY <1>1, <1>2, BansAdded
<1>4. b \in Seq(Rules) /\ Sorted(b)
  BY <1>3 DEF WithTeams
<1>5. PICK c : c = allow_all(b, m.allowed) /\ WithTeams(c, b, "allow", m.allowed)
  BY <1>1, <1>4, AllowsAdded
<1>6. rewrite_chain(m, n) = c
  BY <1>2, <1>3, <1>5 DEF rewrite_chain
<1> QED
  BY <1>2, <1>3, <1>5, <1>6 DEF WithTeams, Exactly

-----------------------------------------------------------------------------
(* What a chain lets pass.                                                 *)

(* What the rules match.                                                   *)
LEMMA MatchesFacts ==
  ASSUME NEW r \in Rules, NEW p \in Packets
  PROVE  /\ r.kind = "closed" => Matches(r, p)
         /\ r.kind = "teams only" => (Matches(r, p) <=> p.with \in {"own network", "own vulnbox"})
         /\ r.kind = "no vulnbox" => (Matches(r, p) <=> p.with = "own vulnbox" /\ p.team <= r.n)
         /\ r.kind = "ban" => (Matches(r, p) <=> p.team = r.n)
         /\ r.kind = "allow" => (Matches(r, p) <=> p.team = r.n /\ p.with = "gameserver")
BY Zenon DEF Matches

(* In a sorted chain the matching rule of least rank decides.              *)
Decides(c, p, r) ==
  /\ Holds(c, r) /\ Matches(r, p)
  /\ \A q \in Rules : Holds(c, q) /\ Matches(q, p) => Rank(r) <= Rank(q)
(* It accepts what no rule matches and what an accepting rule decides.     *)
LEMMA AcceptedSorted ==
  ASSUME NEW c \in Seq(Rules), Sorted(c), NEW p \in Packets
  PROVE  Accepted(c, p) <=>
           \/ \A r \in Rules : Holds(c, r) => ~Matches(r, p)
           \/ \E r \in Rules : r.kind \in {"teams only", "allow"} /\ Decides(c, p, r)
<1>1. Len(c) \in Nat /\ \A i \in 1..Len(c) : c[i] \in Rules /\ Holds(c, c[i])
  BY DEF Holds
<1>2. CASE \A i \in 1..Len(c) : ~Matches(c[i], p)
  <2>1. \A r \in Rules : Holds(c, r) => ~Matches(r, p)
    BY <1>2 DEF Holds
  <2>2. Accepted(c, p)
    BY <1>2 DEF Accepted
  <2> QED
    BY <2>1, <2>2
<1>3. ASSUME NEW j \in 1..Len(c), Matches(c[j], p)
      PROVE  Accepted(c, p) <=> \/ \A r \in Rules : Holds(c, r) => ~Matches(r, p)
                                \/ \E r \in Rules : r.kind \in {"teams only", "allow"} /\ Decides(c, p, r)
  <2> DEFINE T == {i \in 1..Len(c) : Matches(c[i], p)}
  <2>1. T \in SUBSET Nat /\ j \in T
    BY <1>1, <1>3
  <2>2. PICK m \in T : \A i \in T : m <= i
    BY <2>1, LeastNat
  <2>3. PICK f \in Rules : f = c[m] /\ Matches(f, p) /\ Holds(c, f)
    BY <1>1
  <2>4. ASSUME NEW q \in Rules, Holds(c, q), Matches(q, p) PROVE Rank(f) <= Rank(q)
    <3>1. PICK i \in 1..Len(c) : c[i] = q
      BY <2>4 DEF Holds
    <3>2. i \in T /\ m <= i
      BY <2>2, <2>4, <3>1
    <3>3. CASE i = m
      <4>1. Rank(f) \in 0..4 /\ q = f
        BY <2>3, <3>1, <3>3, RankFacts, Zenon
      <4> QED
        BY <4>1
    <3>4. CASE i # m
      BY <1>1, <2>3, <3>1, <3>2, <3>4 DEF Sorted
    <3> QED
      BY <3>3, <3>4
  <2>5. Decides(c, p, f)
    BY <2>3, <2>4 DEF Decides
  <2>6. Accepted(c, p) <=> f.kind \in {"teams only", "allow"}
    <3>1. m \in 1..Len(c) /\ \A i \in 1..(m - 1) : ~Matches(c[i], p)
      <4>1. ASSUME NEW i \in 1..(m - 1), Matches(c[i], p) PROVE FALSE
        <5>1. i \in 1..Len(c) /\ i < m
          BY <1>1
        <5> QED
          BY <2>2, <4>1, <5>1
      <4> QED
        BY <4>1
    <3>2. \A i \in 1..Len(c) : Matches(c[i], p) /\ (\A k \in 1..(i - 1) : ~Matches(c[k], p)) => i = m
      <4>1. ASSUME NEW i \in 1..Len(c), Matches(c[i], p), \A k \in 1..(i - 1) : ~Matches(c[k], p) PROVE i = m
        <5>1. i \in T /\ m <= i
          BY <2>2, <4>1
        <5>2. ~(m \in 1..(i - 1))
          BY <4>1
        <5> QED
          BY <1>1, <5>1, <5>2
      <4> QED
        BY <4>1
    <3> QED
      BY <2>3, <3>1, <3>2 DEF Accepted
  <2>7. ASSUME NEW r \in Rules, r.kind \in {"teams only", "allow"}, Decides(c, p, r)
        PROVE  f.kind \in {"teams only", "allow"}
    <3>1. Rank(r) <= Rank(f) /\ Rank(f) <= Rank(r)
      BY <2>3, <2>4, <2>7 DEF Decides
    <3>2. Rank(r) = 2 \/ Rank(r) = 0
      BY <2>7, RankFacts, Zenon
    <3>3. Rank(f) = 2 \/ Rank(f) = 0
      <4>1. Rank(f) \in 0..4
        BY RankFacts, Zenon
      <4> QED
        BY <3>1, <3>2, <4>1
    <3>4. f.kind \in {"closed", "teams only", "no vulnbox", "ban", "allow"}
      BY DEF Rules
    <3>5. f.kind # "closed" /\ f.kind # "no vulnbox" /\ f.kind # "ban"
      <4>1. /\ f.kind = "closed" => Rank(f) = 3
            /\ f.kind = "no vulnbox" => Rank(f) = 1
            /\ f.kind = "ban" => Rank(f) = 4
        BY RankFacts, Zenon
      <4>2. Rank(f) # 3 /\ Rank(f) # 1 /\ Rank(f) # 4
        BY <3>3
      <4> QED
        BY <4>1, <4>2, Zenon
    <3> QED
      BY <3>4, <3>5, Zenon
  <2> QED
    BY <2>3, <2>5, <2>6, <2>7
<1> QED
  BY <1>2, <1>3

(* A chain with exactly the rules of the manager's state, bans and         *)
(* permissions lets pass what they say.                                    *)
LEMMA ExactPasses ==
  ASSUME NEW c \in Seq(Rules), Sorted(c), NEW n \in 1..MaxTeams,
         man \in [state: NetStates, banned: SUBSET Teams, allowed: SUBSET Teams],
         Exactly(c, man, n), NEW p \in Packets, p.team <= n + 1
  PROVE  Accepted(c, p) <=> MayPass(p)
<1>1. /\ man.state \in NetStates /\ man.banned \in SUBSET Teams /\ man.allowed \in SUBSET Teams
      /\ p.team \in 1..MaxTeams /\ p.team \in 0..(MaxTeams + 1)
      /\ p.with \in {"own network", "own vulnbox", "gameserver", "other team"}
  <2>1. p.team \in 1..MaxTeams /\ p.with \in {"own network", "own vulnbox", "gameserver", "other team"}
    BY DEF Packets
  <2>2. p.team \in 0..(MaxTeams + 1)
    <3>1. \A k \in 1..MaxTeams : k \in 0..(MaxTeams + 1)
      BY FirewallAssumption
    <3> QED
      BY <2>1, <3>1, Zenon
  <2> QED
    BY <2>1, <2>2
<1> DEFINE Found(r) == Holds(c, r) /\ Matches(r, p)
           Has(r) == Holds(StateRules(man.state, n), r)
           Own == p.with \in {"own network", "own vulnbox"}
           Permitted == p.with = "gameserver" /\ p.team \in man.allowed
<1>2. PICK a \in Rules, b \in Rules, d \in Rules :
        /\ a = Closed /\ a.kind = "closed"
        /\ b = TeamsOnly /\ b.kind = "teams only"
        /\ d = Rule("no vulnbox", n + 1) /\ d.kind = "no vulnbox" /\ d.n = n + 1
  <2>1. 0 \in 0..(MaxTeams + 1) /\ n + 1 \in 0..(MaxTeams + 1)
    BY RuleNumbers
  <2>2. Closed \in Rules /\ Closed.kind = "closed"
    BY <2>1, RuleFacts, Zenon DEF Closed
  <2>3. TeamsOnly \in Rules /\ TeamsOnly.kind = "teams only"
    BY <2>1, RuleFacts, Zenon DEF TeamsOnly
  <2>4. LET d == Rule("no vulnbox", n + 1) IN d \in Rules /\ d.kind = "no vulnbox" /\ d.n = n + 1
    BY <2>1, RuleFacts, Zenon
  <2> QED
    BY <2>2, <2>3, <2>4, Zenon
<1>3. PICK x \in Rules, y \in Rules :
        /\ x.kind = "allow" /\ x.n = p.team
        /\ y.kind = "ban" /\ y.n = p.team
        /\ \A r \in Rules : r.kind = "ban" /\ r.n = p.team => r = y
  <2>1. LET x == Rule("allow", p.team) IN x \in Rules /\ x.kind = "allow" /\ x.n = p.team
    BY <1>1, RuleFacts, Zenon
  <2>2. LET y == Rule("ban", p.team)
        IN y \in Rules /\ y.kind = "ban" /\ y.n = p.team /\ \A r \in Rules : r.kind = "ban" /\ r.n = p.team => r = y
    <3>1. /\ Rule("ban", p.team) \in Rules /\ Rule("ban", p.team).kind = "ban" /\ Rule("ban", p.team).n = p.team
          /\ \A r \in Rules : r = Rule("ban", p.team) <=> r.kind = "ban" /\ r.n = p.team
      BY <1>1, RuleFacts, Zenon
    <3> QED
      BY <3>1, Zenon
  <2> QED
    BY <2>1, <2>2, Zenon
<1>4. \A r \in Rules : Has(r) <=> \/ man.state # "on" /\ r = a
                                  \/ man.state \in {"team", "team-no-vulnbox"} /\ r = b
                                  \/ man.state = "team-no-vulnbox" /\ r = d
  BY <1>1, <1>2, StateRulesFacts, ZenonT(60)
<1>5. \A r \in Rules : Holds(c, r) <=> \/ Has(r)
                                       \/ r.kind = "ban" /\ r.n \in man.banned
                                       \/ r.kind = "allow" /\ r.n \in man.allowed
  BY DEF Exactly
<1>6. \A r \in Rules : Has(r) => r.kind \in StateKinds /\ r.kind # "ban" /\ r.kind # "allow"
  BY <1>1, StateRulesKinds, Zenon
<1>7. Matches(a, p) /\ (Matches(b, p) <=> Own) /\ (Matches(d, p) <=> p.with = "own vulnbox")
  <2>1. Matches(a, p) /\ (Matches(b, p) <=> Own) /\ (Matches(d, p) <=> p.with = "own vulnbox" /\ p.team <= d.n)
    BY <1>2, MatchesFacts, Zenon
  <2>2. p.team <= d.n
    BY <1>2
  <2> QED
    BY <2>1, <2>2, Zenon
<1>8. Matches(y, p) /\ (p.with = "gameserver" => Matches(x, p))
  BY <1>3, MatchesFacts, Zenon
<1>9. \A r \in Rules : r.kind \in {"closed", "teams only", "no vulnbox", "ban", "allow"}
  BY DEF Rules
<1>10. Rank(a) = 3 /\ Rank(b) = 2 /\ Rank(d) = 1 /\ Rank(x) = 0
  BY <1>2, <1>3, RankFacts, Zenon
<1>11. \A r \in Rules : /\ Rank(r) \in 0..4 /\ (r.kind = "ban" => Rank(r) = 4)
                        /\ (r.kind = "allow" /\ Found(r) => Permitted)
  <2> TAKE r \in Rules
  <2>1. Rank(r) \in 0..4 /\ (r.kind = "ban" => Rank(r) = 4)
    BY RankFacts, Zenon
  <2>2. ASSUME r.kind = "allow", Found(r) PROVE Permitted
    <3>1. p.team = r.n /\ p.with = "gameserver"
      BY <2>2, MatchesFacts, Zenon
    <3>2. r.n \in man.allowed
      BY <1>5, <1>6, <2>2
    <3> QED
      BY <3>1, <3>2
  <2> QED
    BY <2>1, <2>2
<1>12. Accepted(c, p) <=> \/ \A r \in Rules : ~Found(r)
                          \/ \E r \in Rules : r.kind \in {"teams only", "allow"} /\ Decides(c, p, r)
  BY AcceptedSorted, Zenon
<1>13. \A r \in Rules : Decides(c, p, r) <=> Found(r) /\ \A q \in Rules : Found(q) => Rank(r) <= Rank(q)
  BY Zenon DEF Decides
<1> HIDE DEF Found, Has
<1>14. \A r \in Rules : Found(r) <=> Holds(c, r) /\ Matches(r, p)
  BY DEF Found
<1>15. CASE Permitted
  <2>1. Found(x)
    BY <1>3, <1>5, <1>8, <1>14, <1>15
  <2>2. Decides(c, p, x)
    BY <1>10, <1>11, <1>13, <2>1
  <2>3. MayPass(p)
    BY <1>15 DEF MayPass
  <2> QED
    BY <1>3, <1>12, <2>2, <2>3
<1>16. ASSUME ~Permitted, man.state # "on" PROVE Found(a) /\ \A r \in Rules : Found(r) /\ r.kind \in {"teams only", "allow"} => r = b
  <2>1. Found(a)
    BY <1>4, <1>5, <1>7, <1>14, <1>16
  <2>2. ASSUME NEW r \in Rules, Found(r), r.kind \in {"teams only", "allow"} PROVE r = b
    <3>1. r.kind = "teams only"
      BY <1>11, <1>16, <2>2
    <3>2. Has(r)
      BY <1>5, <1>14, <2>2, <3>1
    <3> QED
      BY <1>2, <1>4, <3>1, <3>2
  <2> QED
    BY <2>1, <2>2
<1>17. ASSUME ~Permitted, man.state = "on" PROVE Accepted(c, p) <=> MayPass(p)
  <2>1. \A r \in Rules : Found(r) => r = y /\ p.team \in man.banned
    <3> TAKE r \in Rules
    <3> SUFFICES ASSUME Found(r) PROVE r = y /\ p.team \in man.banned
      OBVIOUS
    <3>1. ~Has(r) /\ r.kind # "allow"
      BY <1>4, <1>11, <1>17
    <3>2. r.kind = "ban" /\ r.n \in man.banned
      BY <1>5, <1>14, <3>1
    <3>3. p.team = r.n
      BY <1>14, <3>2, MatchesFacts, Zenon
    <3> QED
      BY <1>3, <3>2, <3>3
  <2>2. p.team \in man.banned => Found(y)
    BY <1>3, <1>5, <1>8, <1>14
  <2>3. y.kind \notin {"teams only", "allow"}
    BY <1>3
  <2>4. Accepted(c, p) <=> ~(p.team \in man.banned)
    BY <1>12, <1>13, <2>1, <2>2, <2>3, Zenon
  <2>5. MayPass(p) <=> ~(p.team \in man.banned)
    BY <1>17 DEF MayPass
  <2> QED
    BY <2>4, <2>5
<1>18. ASSUME ~Permitted, man.state # "on" PROVE Accepted(c, p) <=> Decides(c, p, b)
  BY <1>2, <1>12, <1>13, <1>16, <1>18, Zenon
<1>19. ASSUME ~Permitted, man.state = "off" PROVE Accepted(c, p) <=> MayPass(p)
  <2>1. ~Found(b)
    BY <1>2, <1>4, <1>5, <1>14, <1>19
  <2>2. ~MayPass(p)
    BY <1>19 DEF MayPass
  <2> QED
    BY <1>13, <1>18, <1>19, <2>1, <2>2
<1>20. ASSUME ~Permitted, man.state = "team" PROVE Accepted(c, p) <=> MayPass(p)
  <2>1. Found(b) <=> Own
    BY <1>4, <1>5, <1>7, <1>14, <1>20
  <2>2. ASSUME NEW q \in Rules, Found(q) PROVE Rank(b) <= Rank(q)
    <3>1. q.kind # "allow"
      BY <1>11, <1>20, <2>2
    <3>2. q = a \/ q = b \/ q.kind = "ban"
      BY <1>4, <1>5, <1>14, <1>20, <2>2, <3>1
    <3> QED
      BY <1>10, <1>11, <3>2
  <2>3. Decides(c, p, b) <=> Own
    BY <1>13, <2>1, <2>2
  <2>4. MayPass(p) <=> Own
    BY <1>20 DEF MayPass
  <2> QED
    BY <1>18, <1>20, <2>3, <2>4
<1>21. ASSUME ~Permitted, man.state = "team-no-vulnbox" PROVE Accepted(c, p) <=> MayPass(p)
  <2>1. (Found(b) <=> Own) /\ (Found(d) <=> p.with = "own vulnbox")
    BY <1>4, <1>5, <1>7, <1>14, <1>21
  <2>2. ASSUME NEW q \in Rules, Found(q) PROVE q = d \/ Rank(b) <= Rank(q)
    <3>1. q.kind # "allow"
      BY <1>11, <1>21, <2>2
    <3>2. q = a \/ q = b \/ q = d \/ q.kind = "ban"
      BY <1>4, <1>5, <1>14, <1>21, <2>2, <3>1
    <3> QED
      BY <1>10, <1>11, <3>2
  <2>3. ~(Rank(b) <= Rank(d))
    BY <1>10
  <2>4. Decides(c, p, b) <=> Own /\ p.with # "own vulnbox"
    BY <1>13, <2>1, <2>2, <2>3
  <2>5. Own /\ p.with # "own vulnbox" <=> p.with = "own network"
    OBVIOUS
  <2>6. MayPass(p) <=> p.with = "own network"
    BY <1>21 DEF MayPass
  <2> QED
    BY <1>18, <1>21, <2>4, <2>5, <2>6
<1> QED
  BY <1>1, <1>15, <1>17, <1>19, <1>20, <1>21 DEF NetStates

(* The rules of such a chain, kind by kind.                                *)
LEMMA ExactKinds ==
  ASSUME NEW m, m.state \in NetStates, NEW n \in 1..MaxTeams, NEW c, Exactly(c, m, n), NEW r \in Rules
  PROVE  /\ r.kind \in StateKinds => (Holds(c, r) <=> Holds(StateRules(m.state, n), r))
         /\ r.kind = "ban" => (Holds(c, r) <=> r.n \in m.banned)
         /\ r.kind = "allow" => (Holds(c, r) <=> r.n \in m.allowed)
<1>1. Holds(StateRules(m.state, n), r) => r.kind # "ban" /\ r.kind # "allow"
  BY StateRulesKinds
<1>2. r.kind \in StateKinds => r.kind # "ban" /\ r.kind # "allow"
  BY DEF StateKinds
<1> QED
  BY <1>1, <1>2 DEF Exactly

(* The rules of a team.                                                    *)
LEMMA TeamRules ==
  ASSUME NEW t \in Teams, NEW kind \in {"ban", "allow"}
  PROVE  Rule(kind, t) \in Rules /\ \A r \in Rules : r = Rule(kind, t) <=> r.kind = kind /\ r.n = t
<1>1. t \in 0..(MaxTeams + 1)
  BY RuleNumbers
<1>2. CASE kind = "ban"
  <2>1. /\ Rule("ban", t) \in Rules /\ Rule("ban", t).kind = "ban" /\ Rule("ban", t).n = t
        /\ \A r \in Rules : r = Rule("ban", t) <=> r.kind = "ban" /\ r.n = t
    BY <1>1, RuleFacts, Zenon
  <2> QED
    BY <1>2, <2>1, Zenon
<1>3. CASE kind = "allow"
  <2>1. /\ Rule("allow", t) \in Rules /\ Rule("allow", t).kind = "allow" /\ Rule("allow", t).n = t
        /\ \A r \in Rules : r = Rule("allow", t) <=> r.kind = "allow" /\ r.n = t
    BY <1>1, RuleFacts, Zenon
  <2> QED
    BY <1>3, <2>1, Zenon
<1> QED
  BY <1>2, <1>3, Zenon

-----------------------------------------------------------------------------
(* The steps of the gateway and the watcher.                               *)

(* Sets of teams are small.                                                *)
LEMMA FewTeams == ASSUME NEW ts \in SUBSET Teams PROVE Cardinality(ts) \in 0..MaxTeams
<1>1. IsFiniteSet(1..MaxTeams) /\ Cardinality(1..MaxTeams) = MaxTeams /\ ts \in SUBSET (1..MaxTeams) /\ MaxTeams \in Nat
  BY FS_Interval, FirewallAssumption
<1>2. Cardinality(ts) <= MaxTeams /\ IsFiniteSet(ts)
  BY <1>1, FS_Subset
<1>3. Cardinality(ts) \in Nat
  BY <1>2, FS_CardinalityType
<1> QED
  BY <1>1, <1>2, <1>3

(* The variables the gateway and its watcher work on, all but the queue.   *)
atwork == <<registered, gate, man, chain, item, watch, seen, late>>

(* Steps of the writers do not touch them.                                 *)
LEMMA WritersElsewhere ==
  ASSUME TypeInv, WorkTypes,
         Panel \/ MasterTimer \/ UNCHANGED vars \/ \E w \in Writers : Write(w) \/ Announce(w) \/ Smembers(w) \/ Look(w)
  PROVE  UNCHANGED atwork /\ WorkTypes'
<1>1. MaxCommands \in Nat /\ commands \in 0..MaxCommands /\ running \in BOOLEAN
  BY FirewallAssumption DEF WorkTypes
<1>2. CASE Panel
  <2>1. UNCHANGED <<atwork, running, disconnects>> /\ commands < MaxCommands /\ commands' = commands + 1
    BY <1>2 DEF Panel, atwork, watcher
  <2>2. commands' \in 0..MaxCommands
    BY <1>1, <2>1
  <2> QED
    BY <2>1, <2>2 DEF WorkTypes, atwork
<1>3. CASE MasterTimer
  <2>1. UNCHANGED <<atwork, disconnects>>
    BY <1>3 DEF MasterTimer, atwork, watcher
  <2>2. commands' \in 0..MaxCommands /\ running' \in BOOLEAN
    <3>1. commands' = commands \/ (commands < MaxCommands /\ commands' = commands + 1)
      BY <1>3 DEF MasterTimer, on_start_ctf, on_start_tick, on_end_ctf, on_open_vulnbox_access
    <3>2. running' \in BOOLEAN
      BY <1>1, <1>3 DEF MasterTimer, on_start_ctf, on_start_tick, on_end_ctf, on_open_vulnbox_access
    <3> QED
      BY <1>1, <3>1, <3>2
  <2> QED
    BY <2>1, <2>2 DEF WorkTypes, atwork
<1>4. CASE UNCHANGED vars
  BY <1>4 DEF vars, writers, watcher, history, atwork, WorkTypes
<1>5. ASSUME NEW w \in Writers, Write(w) \/ Announce(w) \/ Smembers(w) \/ Look(w) PROVE UNCHANGED atwork /\ WorkTypes'
  <2>1. UNCHANGED <<atwork, running, commands, disconnects>>
    BY <1>5 DEF Write, Announce, Smembers, Look, atwork, watcher, history
  <2> QED
    BY <2>1 DEF WorkTypes, atwork
<1> QED
  BY <1>2, <1>3, <1>4, <1>5

(* Then the chain stays as it should be.                                   *)
LEMMA ElsewhereKeeps ==
  ASSUME WatchInv, RulesInv, UNCHANGED atwork
  PROVE  WatchInv' /\ RulesInv'
<1>1. UNCHANGED <<registered, gate, man, chain, item, watch, seen, late>>
  BY DEF atwork
<1>2. UpToDate' <=> UpToDate
  BY <1>1 DEF UpToDate, Subscribed
<1>3. \A n : (StateIn(n)' <=> StateIn(n)) /\ (Covers(n)' <=> Covers(n))
  BY <1>1 DEF StateIn, Covers
<1>4. \A r : (BanIn(r)' <=> BanIn(r)) /\ (AllowIn(r)' <=> AllowIn(r))
  BY <1>1 DEF BanIn, AllowIn, Unwritten, Pending
<1>5. RulesInv'
  BY <1>1, <1>2, <1>3, <1>4 DEF RulesInv
<1>6. WatchInv'
  BY <1>1 DEF WatchInv, Subscribed
<1> QED
  BY <1>5, <1>6

(* A gateway that is not subscribed only has to keep the chain sorted.     *)
LEMMA ConnectSteps ==
  ASSUME TypeInv, WorkTypes, WatchInv, RulesInv,
         ReadState \/ WriteDefault \/ ReadBanned \/ ReadPermissions \/ Disconnect
  PROVE  WorkTypes' /\ WatchInv' /\ RulesInv' /\ gate' # "apply"
<1>1. /\ UNCHANGED <<registered, chain, item, running, commands, late>> /\ ~Subscribed' /\ gate' # "apply"
      /\ \/ UNCHANGED <<watch, seen, disconnects>> /\ ~Subscribed
         \/ watch' = "asleep" /\ seen' = Unseen /\ disconnects' = disconnects + 1 /\ disconnects < MaxDisconnects
  BY DEF ReadState, WriteDefault, ReadBanned, ReadPermissions, Disconnect, writers, watcher, history, Subscribed
<1>2. watch' = "asleep"
  BY <1>1 DEF WatchInv
<1>3. disconnects' \in 0..MaxDisconnects /\ MaxTeams \in Nat \ {0}
  BY <1>1, FirewallAssumption DEF WorkTypes
<1>4. seen' \in [count: 0..MaxTeams, now: 0..MaxTeams, size: 0..MaxTeams] /\ seen'.count <= registered
  <2>1. Unseen \in [count: 0..MaxTeams, now: 0..MaxTeams, size: 0..MaxTeams] /\ Unseen.count = 0 /\ registered \in 1..MaxTeams
    BY <1>3 DEF Unseen, WorkTypes
  <2> QED
    BY <1>1, <2>1 DEF WorkTypes, WatchInv
<1>5. WorkTypes'
  BY <1>1, <1>2, <1>3, <1>4 DEF WorkTypes
<1>6. WatchInv'
  BY <1>1, <1>2, <1>4 DEF WatchInv
<1>7. RulesInv'
  BY <1>1 DEF RulesInv, UpToDate
<1> QED
  BY <1>1, <1>5, <1>6, <1>7

(* A team that registers is one the watcher has not counted.               *)
LEMMA RegisterStep ==
  ASSUME TypeInv, WorkTypes, WatchInv, RulesInv, RegisterTeam
  PROVE  WorkTypes' /\ WatchInv' /\ RulesInv'
<1>1. /\ UNCHANGED <<gate, man, chain, item, running, commands, watch, seen, disconnects>>
      /\ registered < MaxTeams /\ registered' = registered + 1
      /\ late' = IF watch = "starting" THEN late + 1 ELSE late
  BY DEF RegisterTeam, writers, watcher
<1>2. /\ registered \in 1..MaxTeams /\ late \in 0..MaxTeams /\ late < registered /\ MaxTeams \in Nat
      /\ seen \in [count: 0..MaxTeams, now: 0..MaxTeams, size: 0..MaxTeams] /\ seen.count <= registered
  BY FirewallAssumption DEF WorkTypes, WatchInv
<1>3. registered' \in 1..MaxTeams /\ late' \in 0..MaxTeams /\ late' < registered'
  BY <1>1, <1>2
<1>4. seen.count \in Nat /\ seen.now \in Nat
  BY <1>2
<1>5. WorkTypes'
  BY <1>1, <1>3 DEF WorkTypes
<1>6. WatchInv'
  BY <1>1, <1>2, <1>3, <1>4 DEF WatchInv, Subscribed
<1>7. UpToDate' => UpToDate /\ watch # "asleep"
  BY <1>1, <1>2, <1>4 DEF UpToDate, Subscribed
<1>8. ASSUME NEW n \in 1..MaxTeams, Covers(n), watch # "asleep" PROVE Covers(n)'
  BY <1>1, <1>2, <1>8 DEF Covers
<1>9. \A n : StateIn(n)' <=> StateIn(n)
  BY <1>1 DEF StateIn
<1>10. \A r : (BanIn(r)' <=> BanIn(r)) /\ (AllowIn(r)' <=> AllowIn(r))
  BY <1>1 DEF BanIn, AllowIn, Unwritten, Pending
<1>11. RulesInv'
  BY <1>1, <1>7, <1>8, <1>9, <1>10 DEF RulesInv
<1> QED
  BY <1>5, <1>6, <1>11

(* The watcher's first count.                                              *)
LEMMA StartsStep ==
  ASSUME TypeInv, WorkTypes, WatchInv, RulesInv, WatcherStarts
  PROVE  WorkTypes' /\ WatchInv' /\ RulesInv'
<1>1. /\ UNCHANGED <<registered, gate, man, chain, item, running, commands, late, disconnects>>
      /\ Subscribed /\ watch = "starting" /\ watch' = "asleep" /\ seen' = [Unseen EXCEPT !.count = registered]
  BY DEF WatcherStarts, writers, history
<1>2. registered \in 1..MaxTeams /\ MaxTeams \in Nat /\ late \in 0..MaxTeams /\ late < registered
  BY FirewallAssumption DEF WorkTypes, WatchInv
<1>3. seen' \in [count: 0..MaxTeams, now: 0..MaxTeams, size: 0..MaxTeams] /\ seen'.count = registered
  BY <1>1, <1>2 DEF Unseen
<1>4. WorkTypes'
  BY <1>1, <1>3 DEF WorkTypes
<1>5. WatchInv'
  BY <1>1, <1>2, <1>3 DEF WatchInv
<1>6. UpToDate
  BY <1>1 DEF UpToDate
<1>7. ASSUME NEW n \in 1..MaxTeams, Covers(n) PROVE Covers(n)'
  BY <1>1, <1>2, <1>7 DEF Covers
<1>8. \A n : StateIn(n)' <=> StateIn(n)
  BY <1>1 DEF StateIn
<1>9. \A r : (BanIn(r)' <=> BanIn(r)) /\ (AllowIn(r)' <=> AllowIn(r))
  BY <1>1 DEF BanIn, AllowIn, Unwritten, Pending
<1>10. RulesInv'
  BY <1>1, <1>6, <1>7, <1>8, <1>9 DEF RulesInv
<1> QED
  BY <1>4, <1>5, <1>10

(* The first chain of a gateway.                                           *)
LEMMA FirstChainStep ==
  ASSUME TypeInv, WorkTypes, WatchInv, RulesInv, init_firewall
  PROVE  WorkTypes' /\ WatchInv' /\ RulesInv'
<1>1. /\ UNCHANGED <<registered, man, item, running, commands, seen, disconnects>> /\ gate' = "listen"
      /\ watch' = "starting" /\ late' = 0 /\ chain' = rewrite_chain(man, registered)
  BY DEF init_firewall, writers
<1>2. /\ registered \in 1..MaxTeams /\ MaxTeams \in Nat /\ 0 \in 0..MaxTeams
      /\ man \in [state: NetStates, banned: SUBSET Teams, allowed: SUBSET Teams] /\ man.state \in NetStates
  <2>1. registered \in 1..MaxTeams /\ MaxTeams \in Nat /\ 0 \in 0..MaxTeams
    BY FirewallAssumption DEF WorkTypes
  <2>2. man \in [state: NetStates, banned: SUBSET Teams, allowed: SUBSET Teams]
    BY DEF TypeInv
  <2> QED
    BY <2>1, <2>2
<1>3. chain' \in Seq(Rules) /\ Sorted(chain') /\ Exactly(chain', man, registered)
  BY <1>1, <1>2, Rewritten
<1>4. WorkTypes'
  BY <1>1, <1>2, <1>3 DEF WorkTypes
<1>5. WatchInv'
  BY <1>1, <1>2 DEF WatchInv, Subscribed
<1>6. StateIn(registered)' /\ Covers(registered)' /\ \A r \in Rules : BanIn(r)' /\ AllowIn(r)'
  <2>1. Covers(registered)'
    BY <1>1, <1>2 DEF Covers
  <2>2. ASSUME NEW r \in Rules
        PROVE  /\ r.kind \in StateKinds => (Holds(chain', r) <=> Holds(StateRules(man.state, registered), r))
               /\ r.kind = "ban" => (Holds(chain', r) <=> r.n \in man.banned)
               /\ r.kind = "allow" => (Holds(chain', r) <=> r.n \in man.allowed)
    BY <1>2, <1>3, ExactKinds
  <2>3. StateIn(registered)'
    BY <1>1, <2>2 DEF StateIn
  <2>4. \A r \in Rules : BanIn(r)' /\ AllowIn(r)'
    BY <1>1, <2>2 DEF BanIn, AllowIn, Unwritten
  <2> QED
    BY <2>1, <2>3, <2>4
<1>7. RulesInv'
  BY <1>1, <1>2, <1>3, <1>6 DEF RulesInv
<1> QED
  BY <1>4, <1>5, <1>7

(* The manager's fields change, the chain does not yet.                    *)
LEMMA ListenStep ==
  ASSUME TypeInv, OrderInv, WorkTypes, ItemInv, WatchInv, RulesInv, Listen
  PROVE  WorkTypes' /\ ItemInv' /\ WatchInv' /\ RulesInv'
<1>1. /\ UNCHANGED <<registered, chain, running, commands, watch, seen, late, disconnects>>
      /\ gate = "listen" /\ gate' = "apply" /\ item' = Head(queue)
  BY DEF Listen, writers, watcher, history
<1>2. PICK c \in Commands : /\ c = Head(queue) /\ c.do \in Announcements /\ queue' = Tail(queue)
                            /\ Elems(Tail(queue)) \subseteq Elems(queue) /\ IsHandled(man', c) /\ c \in Elems(queue)
  <2>1. /\ queue # <<>> /\ Head(queue) \in Commands /\ Head(queue).do \in Announcements /\ queue' = Tail(queue)
        /\ Elems(Tail(queue)) \subseteq Elems(queue) /\ IsHandled(man', Head(queue))
    BY ListenFacts
  <2>2. Head(queue) \in Elems(queue)
    <3>1. queue \in Seq(Commands)
      BY DEF TypeInv
    <3>2. Elems(queue) = {Head(queue)} \cup Elems(Tail(queue))
      BY <2>1, <3>1, ElemsTail
    <3> QED
      BY <3>2
  <2> QED
    BY <2>1, <2>2
<1>3. OneTeam(c)
  BY <1>2 DEF ItemInv
<1>4. /\ man'.state = IF c.do = "state" THEN c.state ELSE man.state
      /\ man'.banned = IF c.do = "ban" THEN man.banned \cup c.teams
                       ELSE IF c.do = "unban" THEN man.banned \ c.teams ELSE man.banned
      /\ man'.allowed = IF c.do = "add_permission" THEN man.allowed \cup c.teams
                        ELSE IF c.do = "remove_permission" THEN man.allowed \ c.teams ELSE man.allowed
  BY <1>2 DEF IsHandled
<1>5. WorkTypes'
  BY <1>1, <1>2 DEF WorkTypes
<1>6. ItemInv'
  <2>1. item' = c /\ \A d \in Elems(queue') : OneTeam(d)
    BY <1>1, <1>2 DEF ItemInv
  <2>2. /\ c.do = "ban" => c.teams \subseteq man'.banned
        /\ c.do = "unban" => c.teams \cap man'.banned = {}
        /\ c.do = "add_permission" => c.teams \subseteq man'.allowed
        /\ c.do = "remove_permission" => c.teams \cap man'.allowed = {}
    BY <1>4
  <2> QED
    BY <1>2, <1>3, <2>1, <2>2 DEF ItemInv, OneTeam
<1>7. WatchInv'
  BY <1>1 DEF WatchInv, Subscribed
<1>8. UpToDate' => UpToDate
  BY <1>1 DEF UpToDate, Subscribed
<1>9. \A n : Covers(n)' <=> Covers(n)
  BY <1>1 DEF Covers
<1>10. c.do # "state" => \A n : StateIn(n)' <=> StateIn(n)
  BY <1>1, <1>4 DEF StateIn
<1>11. ASSUME NEW r \in Rules, BanIn(r) PROVE BanIn(r)'
  <2>1. r.kind = "ban" /\ ~Unwritten("ban") => (Holds(chain, r) <=> r.n \in man.banned)
    BY <1>1, <1>11 DEF BanIn, Pending
  <2>2. ~Pending({"ban", "unban"}, r)' => (r.n \in man'.banned <=> r.n \in man.banned)
    BY <1>1, <1>2, <1>4 DEF Pending
  <2> QED
    BY <1>1, <1>11, <2>1, <2>2 DEF BanIn, Unwritten
<1>12. ASSUME NEW r \in Rules, AllowIn(r) PROVE AllowIn(r)'
  <2>1. r.kind = "allow" /\ ~Unwritten("allow") => (Holds(chain, r) <=> r.n \in man.allowed)
    BY <1>1, <1>12 DEF AllowIn, Pending
  <2>2. ~Pending({"add_permission", "remove_permission"}, r)' => (r.n \in man'.allowed <=> r.n \in man.allowed)
    BY <1>1, <1>2, <1>4 DEF Pending
  <2> QED
    BY <1>1, <1>12, <2>1, <2>2 DEF AllowIn, Unwritten
<1>13. RulesInv'
  <2>1. ~(gate = "apply" /\ item.do = "state")
    BY <1>1
  <2>2. ~(gate' = "apply" /\ item'.do = "state") => c.do # "state"
    BY <1>1, <1>2
  <2> QED
    BY <1>1, <1>8, <1>9, <1>10, <1>11, <1>12, <2>1, <2>2 DEF RulesInv
<1> QED
  BY <1>5, <1>6, <1>7, <1>13

(* The chain follows the manager's fields.                                 *)
LEMMA ApplyStep ==
  ASSUME TypeInv, WorkTypes, ItemInv, WatchInv, RulesInv, ApplyRules
  PROVE  WorkTypes' /\ WatchInv' /\ RulesInv'
<1>1. /\ UNCHANGED <<registered, man, running, commands, watch, seen, disconnects>> /\ Unlocked
      /\ gate = "apply" /\ gate' = "listen" /\ item' = NoItem
      /\ late' = IF item.do = "state" THEN 0 ELSE late
  BY DEF ApplyRules, writers, watcher
<1>2. /\ registered \in 1..MaxTeams /\ MaxTeams \in Nat /\ 0 \in 0..MaxTeams /\ late \in 0..MaxTeams
      /\ man \in [state: NetStates, banned: SUBSET Teams, allowed: SUBSET Teams] /\ man.state \in NetStates
      /\ chain \in Seq(Rules) /\ Sorted(chain) /\ late < registered
  <2>1. registered \in 1..MaxTeams /\ MaxTeams \in Nat /\ 0 \in 0..MaxTeams /\ late \in 0..MaxTeams
    BY FirewallAssumption DEF WorkTypes
  <2>2. man \in [state: NetStates, banned: SUBSET Teams, allowed: SUBSET Teams]
    BY DEF TypeInv
  <2>3. chain \in Seq(Rules) /\ Sorted(chain) /\ late < registered
    BY DEF WorkTypes, RulesInv, WatchInv
  <2> QED
    BY <2>1, <2>2, <2>3
<1>3. NoItem \in Commands
  BY CmdType, ZeroType DEF NoItem
<1>4. watch # "bans" /\ watch # "allows" /\ \A kind : ~Unwritten(kind)
  BY <1>1 DEF Unlocked, Unwritten
<1>5. WatchInv'
  BY <1>1, <1>2 DEF WatchInv, Subscribed
<1>6. (chain' \in Seq(Rules)) => WorkTypes'
  BY <1>1, <1>2, <1>3 DEF WorkTypes
<1>7. UpToDate' => UpToDate
  BY <1>1 DEF UpToDate, Subscribed
<1>8. CASE item.do = "state"
  <2>1. chain' = rewrite_chain(man, registered)
    BY <1>8 DEF ApplyRules
  <2>2. chain' \in Seq(Rules) /\ Sorted(chain') /\ Exactly(chain', man, registered)
    BY <1>2, <2>1, Rewritten
  <2>3. Covers(registered)'
    BY <1>1, <1>2, <1>4, <1>8 DEF Covers
  <2>4. ASSUME NEW r \in Rules
        PROVE  /\ r.kind \in StateKinds => (Holds(chain', r) <=> Holds(StateRules(man.state, registered), r))
               /\ r.kind = "ban" => (Holds(chain', r) <=> r.n \in man.banned)
               /\ r.kind = "allow" => (Holds(chain', r) <=> r.n \in man.allowed)
    BY <1>2, <2>2, ExactKinds
  <2>5. StateIn(registered)'
    BY <1>1, <2>4 DEF StateIn
  <2>6. \A r \in Rules : BanIn(r)' /\ AllowIn(r)'
    BY <1>1, <1>4, <2>4 DEF BanIn, AllowIn, Unwritten
  <2>7. RulesInv'
    BY <1>1, <1>2, <2>2, <2>3, <2>5, <2>6 DEF RulesInv
  <2> QED
    BY <1>5, <1>6, <2>2, <2>7
<1>9. CASE item.do # "state"
  <2>1. PICK t \in Teams : item.teams = {t} /\ TeamOf(item) = t
    <3>1. PICK t \in Teams : item.teams = {t}
      BY <1>1, <1>9 DEF ItemInv, OneTeam
    <3> QED
      BY <3>1, TeamOfOne
  <2> DEFINE Changed(kind, in) ==
               /\ chain' \in Seq(Rules) /\ Sorted(chain')
               /\ \A r \in Rules : IF r.kind = kind /\ r.n = t THEN Holds(chain', r) <=> in
                                   ELSE Holds(chain', r) <=> Holds(chain, r)
  <2>2. \E kind \in {"ban", "allow"}, in \in BOOLEAN :
          /\ Changed(kind, in)
          /\ kind = "ban" => item.do \in {"ban", "unban"} /\ (t \in man.banned <=> in)
          /\ kind = "allow" => item.do \in {"add_permission", "remove_permission"} /\ (t \in man.allowed <=> in)
    <3>1. CASE item.do = "ban"
      <4>1. chain' = ban_rules(chain, t)
        BY <2>1, <3>1 DEF ApplyRules
      <4>2. Changed("ban", TRUE)
        BY <1>2, <4>1, BanAdded
      <4>3. t \in man.banned
        BY <1>1, <2>1, <3>1 DEF ItemInv
      <4> QED
        BY <3>1, <4>2, <4>3
    <3>2. CASE item.do = "unban"
      <4>1. chain' = iptables_remove(chain, Rule("ban", t))
        BY <2>1, <3>2 DEF ApplyRules, unban_rules
      <4>2. Changed("ban", FALSE)
        <5>1. PICK b \in Rules : b = Rule("ban", t) /\ \A r \in Rules : r = b <=> r.kind = "ban" /\ r.n = t
          BY TeamRules
        <5> QED
          BY <1>2, <4>1, <5>1, RuleRemoved
      <4>3. t \notin man.banned
        BY <1>1, <2>1, <3>2 DEF ItemInv
      <4> QED
        BY <3>2, <4>2, <4>3
    <3>3. CASE item.do = "add_permission"
      <4>1. chain' = allow_rules(chain, t)
        BY <2>1, <3>3 DEF ApplyRules
      <4>2. Changed("allow", TRUE)
        BY <1>2, <4>1, AllowAdded
      <4>3. t \in man.allowed
        BY <1>1, <2>1, <3>3 DEF ItemInv
      <4> QED
        BY <3>3, <4>2, <4>3
    <3>4. CASE item.do = "remove_permission"
      <4>1. chain' = iptables_remove(chain, Rule("allow", t))
        BY <2>1, <3>4 DEF ApplyRules, disallow_rules
      <4>2. Changed("allow", FALSE)
        <5>1. PICK b \in Rules : b = Rule("allow", t) /\ \A r \in Rules : r = b <=> r.kind = "allow" /\ r.n = t
          BY TeamRules
        <5> QED
          BY <1>2, <4>1, <5>1, RuleRemoved
      <4>3. t \notin man.allowed
        BY <1>1, <2>1, <3>4 DEF ItemInv
      <4> QED
        BY <3>4, <4>2, <4>3
    <3> QED
      BY <1>1, <1>9, <3>1, <3>2, <3>3, <3>4 DEF ItemInv, Announcements
  <2>3. PICK kind \in {"ban", "allow"}, in \in BOOLEAN :
          /\ Changed(kind, in)
          /\ kind = "ban" => item.do \in {"ban", "unban"} /\ (t \in man.banned <=> in)
          /\ kind = "allow" => item.do \in {"add_permission", "remove_permission"} /\ (t \in man.allowed <=> in)
    BY <2>2
  <2>4. \A n : Covers(n)' <=> Covers(n)
    BY <1>1, <1>9 DEF Covers
  <2>5. ASSUME NEW r \in Rules, r.kind \in StateKinds PROVE Holds(chain', r) <=> Holds(chain, r)
    BY <2>3, <2>5 DEF StateKinds
  <2>6. \A n : StateIn(n)' <=> StateIn(n)
    BY <1>1, <2>5 DEF StateIn
  <2>7. ASSUME NEW r \in Rules, BanIn(r) PROVE BanIn(r)'
    <3>1. r.kind = "ban" /\ ~(item.do \in {"ban", "unban"} /\ r.n = t) => (Holds(chain, r) <=> r.n \in man.banned)
      BY <1>4, <2>1, <2>7 DEF BanIn, Pending
    <3>2. r.kind = "ban" => (Holds(chain', r) <=> r.n \in man.banned)
      BY <2>3, <3>1
    <3> QED
      BY <1>1, <1>4, <3>2 DEF BanIn, Unwritten
  <2>8. ASSUME NEW r \in Rules, AllowIn(r) PROVE AllowIn(r)'
    <3>1. r.kind = "allow" /\ ~(item.do \in {"add_permission", "remove_permission"} /\ r.n = t) => (Holds(chain, r) <=> r.n \in man.allowed)
      BY <1>4, <2>1, <2>8 DEF AllowIn, Pending
    <3>2. r.kind = "allow" => (Holds(chain', r) <=> r.n \in man.allowed)
      BY <2>3, <3>1
    <3> QED
      BY <1>1, <1>4, <3>2 DEF AllowIn, Unwritten
  <2>9. RulesInv'
    <3>1. ~(gate = "apply" /\ item.do = "state")
      BY <1>9
    <3> QED
      BY <1>7, <2>3, <2>4, <2>6, <2>7, <2>8, <3>1 DEF RulesInv
  <2> QED
    BY <1>5, <1>6, <2>3, <2>9
<1> QED
  BY <1>8, <1>9

(* The watcher writes the rules of the state.                              *)
LEMMA WakesStep ==
  ASSUME TypeInv, WorkTypes, WatchInv, RulesInv, WatcherWakes
  PROVE  WorkTypes' /\ WatchInv' /\ RulesInv'
<1>1. /\ UNCHANGED <<registered, gate, man, item, running, commands, disconnects>> /\ Subscribed
      /\ watch = "asleep" /\ watch' = "bans" /\ late' = 0 /\ registered # seen.count
      /\ chain' = StateRules(man.state, registered)
      /\ seen' = [seen EXCEPT !.now = registered, !.size = Cardinality(man.banned)]
  BY DEF WatcherWakes, writers
<1>2. man \in [state: NetStates, banned: SUBSET Teams, allowed: SUBSET Teams]
  BY DEF TypeInv
<1>3. man.state \in NetStates /\ man.banned \in SUBSET Teams
  BY <1>2
<1>4. /\ registered \in 1..MaxTeams /\ MaxTeams \in Nat /\ 0 \in 0..MaxTeams
      /\ seen \in [count: 0..MaxTeams, now: 0..MaxTeams, size: 0..MaxTeams]
  BY FirewallAssumption DEF WorkTypes
<1>5. PICK k \in 0..MaxTeams : k = Cardinality(man.banned)
  BY <1>3, FewTeams
<1>6. /\ seen' \in [count: 0..MaxTeams, now: 0..MaxTeams, size: 0..MaxTeams]
      /\ seen'.now = registered /\ seen'.count = seen.count
  <2>1. seen' = [seen EXCEPT !.now = registered, !.size = k]
    BY <1>1, <1>5
  <2>2. registered \in 0..MaxTeams
    BY <1>4
  <2>3. seen' = [count |-> seen.count, now |-> registered, size |-> k]
    BY <1>4, <2>1
  <2> QED
    BY <1>4, <1>5, <2>2, <2>3
<1>7. chain' \in Seq(Rules) /\ Sorted(chain')
  BY <1>1, <1>3, <1>4, StateRulesFacts
<1>8. WorkTypes'
  BY <1>1, <1>4, <1>6, <1>7 DEF WorkTypes
<1>9. WatchInv'
  <2>1. seen.count \in Nat /\ seen.count <= registered
    BY <1>4 DEF WatchInv
  <2> QED
    BY <1>1, <1>4, <1>6, <2>1 DEF WatchInv, Subscribed
<1>10. StateIn(registered)' /\ Covers(registered)'
  BY <1>1, <1>6 DEF StateIn, Covers
<1>11. ASSUME NEW r \in Rules PROVE BanIn(r)' /\ AllowIn(r)'
  <2>1. Holds(chain', r) => r.kind # "ban" /\ r.kind # "allow"
    BY <1>1, <1>3, <1>4, StateRulesKinds
  <2> QED
    BY <1>1, <2>1 DEF BanIn, AllowIn, Unwritten
<1>12. RulesInv'
  BY <1>1, <1>4, <1>7, <1>10, <1>11 DEF RulesInv
<1> QED
  BY <1>8, <1>9, <1>12

(* An iteration that failed leaves a chain that will be rewritten.         *)
LEMMA InterruptedStep ==
  ASSUME TypeInv, WorkTypes, WatchInv, watch \in {"bans", "allows"}, NEW S, Interrupted(S),
         \A c \in S : c \in Seq(Rules) /\ Sorted(c),
         UNCHANGED <<registered, gate, item, running, commands, disconnects, late>>
  PROVE  WorkTypes' /\ WatchInv' /\ RulesInv'
<1>1. chain' \in Seq(Rules) /\ Sorted(chain') /\ watch' = "asleep" /\ seen' = [Unseen EXCEPT !.count = seen.count]
  BY DEF Interrupted
<1>2. /\ registered \in 1..MaxTeams /\ MaxTeams \in Nat /\ 0 \in 0..MaxTeams
      /\ seen \in [count: 0..MaxTeams, now: 0..MaxTeams, size: 0..MaxTeams]
  BY FirewallAssumption DEF WorkTypes
<1>3. seen' \in [count: 0..MaxTeams, now: 0..MaxTeams, size: 0..MaxTeams] /\ seen'.count = seen.count
  BY <1>1, <1>2 DEF Unseen
<1>4. seen.count < registered
  <2>1. seen.count \in Nat /\ seen.now \in Nat /\ seen.count < seen.now /\ seen.now <= registered
    BY <1>2 DEF WatchInv
  <2> QED
    BY <1>2, <2>1
<1>5. WorkTypes'
  BY <1>1, <1>3 DEF WorkTypes
<1>6. WatchInv'
  BY <1>1, <1>2, <1>3, <1>4 DEF WatchInv, Subscribed
<1>7. ~UpToDate'
  BY <1>1, <1>2, <1>3, <1>4 DEF UpToDate
<1> QED
  BY <1>1, <1>5, <1>6, <1>7 DEF RulesInv

(* The watcher writes the bans.                                            *)
LEMMA BansStep ==
  ASSUME TypeInv, WorkTypes, WatchInv, RulesInv, WatcherBans
  PROVE  WorkTypes' /\ WatchInv' /\ RulesInv'
<1>1. UNCHANGED <<registered, gate, man, item, running, commands, disconnects, late>> /\ watch = "bans"
  BY DEF WatcherBans, writers, history
<1>2. man \in [state: NetStates, banned: SUBSET Teams, allowed: SUBSET Teams]
  BY DEF TypeInv
<1>3. /\ man.state \in NetStates /\ man.banned \in SUBSET Teams /\ man.allowed \in SUBSET Teams
      /\ chain \in Seq(Rules) /\ Sorted(chain) /\ item.teams \in SUBSET Teams
  <2>1. item \in Commands /\ chain \in Seq(Rules) /\ Sorted(chain)
    BY DEF WorkTypes, RulesInv
  <2> QED
    BY <1>2, <2>1, CommandFields
<1>4. CASE Cardinality(man.banned) = seen.size
  <2>1. /\ chain' = ban_all(chain, man.banned) /\ watch' = "allows"
        /\ seen' = [seen EXCEPT !.size = Cardinality(man.allowed)]
    BY <1>4 DEF WatcherBans
  <2>2. WithTeams(chain', chain, "ban", man.banned)
    BY <1>3, <2>1, BansAdded
  <2>3. /\ registered \in 1..MaxTeams /\ MaxTeams \in Nat
        /\ seen \in [count: 0..MaxTeams, now: 0..MaxTeams, size: 0..MaxTeams]
    BY FirewallAssumption DEF WorkTypes
  <2>4. PICK k \in 0..MaxTeams : k = Cardinality(man.allowed)
    BY <1>3, FewTeams
  <2>5. /\ seen' \in [count: 0..MaxTeams, now: 0..MaxTeams, size: 0..MaxTeams]
        /\ seen'.now = seen.now /\ seen'.count = seen.count
    BY <2>1, <2>3, <2>4
  <2>6. WorkTypes'
    BY <1>1, <2>1, <2>2, <2>5 DEF WorkTypes, WithTeams
  <2>7. WatchInv'
    BY <1>1, <2>1, <2>5 DEF WatchInv, Subscribed
  <2>8. UpToDate
    BY <1>1 DEF UpToDate, WatchInv
  <2>9. \A n : Covers(n)' <=> Covers(n)
    BY <1>1, <2>1, <2>5 DEF Covers
  <2>10. ASSUME NEW r \in Rules
         PROVE  /\ r.kind # "ban" => (Holds(chain', r) <=> Holds(chain, r))
                /\ r.kind = "ban" => (Holds(chain', r) <=> Holds(chain, r) \/ r.n \in man.banned)
    BY <2>2 DEF WithTeams
  <2>11. \A n : StateIn(n)' <=> StateIn(n)
    BY <1>1, <2>10 DEF StateIn, StateKinds
  <2>12. ASSUME NEW r \in Rules PROVE BanIn(r)' /\ AllowIn(r)'
    <3>1. BanIn(r) /\ AllowIn(r) /\ Unwritten("ban") /\ Unwritten("allow")
      BY <1>1, <2>8 DEF RulesInv, Unwritten
    <3>2. r.kind = "ban" \/ r.kind = "allow" => ~Holds(chain, r)
      BY <3>1 DEF BanIn, AllowIn
    <3>3. r.kind = "ban" => (Holds(chain', r) <=> r.n \in man.banned)
      BY <2>10, <3>2
    <3>4. r.kind = "allow" => ~Holds(chain', r)
      BY <2>10, <3>2
    <3>5. ~Unwritten("ban")' /\ Unwritten("allow")'
      BY <2>1 DEF Unwritten
    <3> QED
      BY <1>1, <3>3, <3>4, <3>5 DEF BanIn, AllowIn
  <2>13. RulesInv'
    BY <1>1, <2>2, <2>8, <2>9, <2>11, <2>12 DEF RulesInv, WithTeams
  <2> QED
    BY <2>6, <2>7, <2>13
<1>5. CASE Cardinality(man.banned) # seen.size
  <2> DEFINE S == {ban_all(chain, ts) : ts \in SUBSET (man.banned \cup item.teams)}
  <2>1. Interrupted(S)
    BY <1>5 DEF WatcherBans
  <2>2. ASSUME NEW c \in S PROVE c \in Seq(Rules) /\ Sorted(c)
    <3>1. PICK ts \in SUBSET (man.banned \cup item.teams) : c = ban_all(chain, ts)
      OBVIOUS
    <3>2. ts \in SUBSET Teams
      BY <1>3
    <3>3. WithTeams(ban_all(chain, ts), chain, "ban", ts)
      BY <1>3, <3>2, BansAdded
    <3> QED
      BY <3>1, <3>3 DEF WithTeams
  <2> HIDE DEF S
  <2> QED
    BY <1>1, <2>1, <2>2, InterruptedStep
<1> QED
  BY <1>4, <1>5

(* The watcher writes the permissions.                                     *)
LEMMA AllowsStep ==
  ASSUME TypeInv, WorkTypes, WatchInv, RulesInv, WatcherAllows
  PROVE  WorkTypes' /\ WatchInv' /\ RulesInv'
<1>1. UNCHANGED <<registered, gate, man, item, running, commands, disconnects, late>> /\ watch = "allows"
  BY DEF WatcherAllows, writers, history
<1>2. man \in [state: NetStates, banned: SUBSET Teams, allowed: SUBSET Teams]
  BY DEF TypeInv
<1>3. /\ man.state \in NetStates /\ man.banned \in SUBSET Teams /\ man.allowed \in SUBSET Teams
      /\ chain \in Seq(Rules) /\ Sorted(chain) /\ item.teams \in SUBSET Teams
  <2>1. item \in Commands /\ chain \in Seq(Rules) /\ Sorted(chain)
    BY DEF WorkTypes, RulesInv
  <2> QED
    BY <1>2, <2>1, CommandFields
<1>4. CASE Cardinality(man.allowed) = seen.size
  <2>1. /\ chain' = allow_all(chain, man.allowed) /\ watch' = "asleep"
        /\ seen' = [Unseen EXCEPT !.count = seen.now]
    BY <1>4 DEF WatcherAllows
  <2>2. WithTeams(chain', chain, "allow", man.allowed)
    BY <1>3, <2>1, AllowsAdded
  <2>3. /\ registered \in 1..MaxTeams /\ MaxTeams \in Nat /\ 0 \in 0..MaxTeams
        /\ seen \in [count: 0..MaxTeams, now: 0..MaxTeams, size: 0..MaxTeams]
    BY FirewallAssumption DEF WorkTypes
  <2>4. /\ seen' \in [count: 0..MaxTeams, now: 0..MaxTeams, size: 0..MaxTeams] /\ seen'.count = seen.now
        /\ seen.now <= registered
    BY <1>1, <2>1, <2>3 DEF Unseen, WatchInv
  <2>5. WorkTypes'
    BY <1>1, <2>1, <2>2, <2>4 DEF WorkTypes, WithTeams
  <2>6. WatchInv'
    BY <1>1, <2>1, <2>4 DEF WatchInv
  <2>7. UpToDate
    BY <1>1 DEF UpToDate, WatchInv
  <2>8. ASSUME NEW n \in 1..MaxTeams, Covers(n), UpToDate' PROVE Covers(n)'
    <3>1. n = seen.now /\ seen.now = registered
      BY <1>1, <2>1, <2>4, <2>8 DEF Covers, UpToDate
    <3> QED
      BY <1>1, <2>1, <2>3, <3>1 DEF Covers
  <2>9. ASSUME NEW r \in Rules
        PROVE  /\ r.kind # "allow" => (Holds(chain', r) <=> Holds(chain, r))
               /\ r.kind = "allow" => (Holds(chain', r) <=> Holds(chain, r) \/ r.n \in man.allowed)
    BY <2>2 DEF WithTeams
  <2>10. \A n : StateIn(n)' <=> StateIn(n)
    BY <1>1, <2>9 DEF StateIn, StateKinds
  <2>11. ASSUME NEW r \in Rules PROVE BanIn(r)' /\ AllowIn(r)'
    <3>1. BanIn(r) /\ AllowIn(r) /\ ~Unwritten("ban") /\ Unwritten("allow")
      BY <1>1, <2>7 DEF RulesInv, Unwritten
    <3>2. ~Unwritten("ban")' /\ ~Unwritten("allow")' /\ (Pending({"ban", "unban"}, r)' <=> Pending({"ban", "unban"}, r))
      BY <1>1, <2>1 DEF Unwritten, Pending
    <3>3. r.kind = "allow" => ~Holds(chain, r)
      BY <3>1 DEF AllowIn
    <3>4. r.kind = "allow" => (Holds(chain', r) <=> r.n \in man.allowed)
      BY <2>9, <3>3
    <3>5. AllowIn(r)'
      BY <1>1, <3>2, <3>4 DEF AllowIn
    <3>6. BanIn(r)'
      BY <1>1, <2>9, <3>1, <3>2 DEF BanIn
    <3> QED
      BY <3>5, <3>6
  <2>12. RulesInv'
    BY <1>1, <2>2, <2>7, <2>8, <2>10, <2>11 DEF RulesInv, WithTeams
  <2> QED
    BY <2>5, <2>6, <2>12
<1>5. CASE Cardinality(man.allowed) # seen.size
  <2> DEFINE S == {allow_all(chain, ts) : ts \in SUBSET (man.allowed \cup item.teams)}
  <2>1. Interrupted(S)
    BY <1>5 DEF WatcherAllows
  <2>2. ASSUME NEW c \in S PROVE c \in Seq(Rules) /\ Sorted(c)
    <3>1. PICK ts \in SUBSET (man.allowed \cup item.teams) : c = allow_all(chain, ts)
      OBVIOUS
    <3>2. ts \in SUBSET Teams
      BY <1>3
    <3>3. WithTeams(allow_all(chain, ts), chain, "allow", ts)
      BY <1>3, <3>2, AllowsAdded
    <3> QED
      BY <3>1, <3>3 DEF WithTeams
  <2> HIDE DEF S
  <2> QED
    BY <1>1, <2>1, <2>2, InterruptedStep
<1> QED
  BY <1>4, <1>5

(* The announcements in the queue, and the one being handled.              *)
LEMMA ItemStep ==
  ASSUME TypeInv, OrderInv, ItemInv, WorkTypes, [Next]_vars, ~Listen
  PROVE  ItemInv'
<1>1. gate' = "apply" => gate = "apply" /\ UNCHANGED <<item, man>>
  BY DEF Next, vars, writers, watcher, history, Panel, MasterTimer, RegisterTeam, Write, Announce, Smembers, Look,
         Gateway, ReadState, WriteDefault, ReadBanned, ReadPermissions, init_firewall, ApplyRules, Disconnect,
         Watcher, WatcherStarts, WatcherWakes, WatcherBans, WatcherAllows
<1>2. \/ queue' = queue \/ queue' = <<>> \/ \E w \in Writers : Announce(w)
  BY DEF Next, vars, writers, watcher, history, Panel, MasterTimer, RegisterTeam, Write, Smembers, Look,
         Gateway, ReadState, WriteDefault, ReadBanned, ReadPermissions, init_firewall, ApplyRules, Disconnect,
         Watcher, WatcherStarts, WatcherWakes, WatcherBans, WatcherAllows
<1>3. \A c \in Elems(queue') : OneTeam(c)
  <2>1. CASE queue' = queue
    BY <2>1 DEF ItemInv
  <2>2. CASE queue' = <<>>
    BY <2>2, ElemsEmpty
  <2>3. ASSUME NEW w \in Writers, Announce(w) PROVE \A c \in Elems(queue') : OneTeam(c)
    <3>1. PICK c \in Commands : /\ c = Head(todo[w]) /\ c.do \in Announcements
                                /\ c.do \in OnTeams => \E t \in Teams : c.teams = {t}
      BY <2>3, AnnounceFacts
    <3>2. OneTeam(c)
      <4>1. c.do \in Announcements /\ c.do # "state" => c.do \in OnTeams
        BY DEF Announcements, OnTeams, Writes
      <4> QED
        BY <3>1, <4>1 DEF OneTeam
    <3>3. queue' = queue \/ queue' = Append(queue, c)
      BY <2>3, <3>1 DEF Announce
    <3>4. Elems(Append(queue, c)) = Elems(queue) \cup {c}
      <4>1. queue \in Seq(Commands)
        BY DEF TypeInv
      <4> QED
        BY <4>1, ElemsAppend
    <3> QED
      BY <3>2, <3>3, <3>4 DEF ItemInv
  <2> QED
    BY <1>2, <2>1, <2>2, <2>3
<1> QED
  BY <1>1, <1>3 DEF ItemInv, OneTeam

(* Every step keeps the chain as it should be.                             *)
LEMMA ChainStep ==
  ASSUME TypeInv, OrderInv, ChainInv, [Next]_vars
  PROVE  ChainInv'
<1>1. WorkTypes /\ ItemInv /\ WatchInv /\ RulesInv
  BY DEF ChainInv
<1>2. CASE Listen
  BY <1>1, <1>2, ListenStep DEF ChainInv
<1>3. ASSUME ~Listen PROVE ItemInv'
  BY <1>1, <1>3, ItemStep
<1>4. ~Listen => WorkTypes' /\ WatchInv' /\ RulesInv'
  BY <1>1, WritersElsewhere, ElsewhereKeeps, ConnectSteps, RegisterStep,
     FirstChainStep, ApplyStep, StartsStep, WakesStep, BansStep, AllowsStep DEF Next, Gateway, Watcher
<1> QED
  BY <1>2, <1>3, <1>4 DEF ChainInv

(* At the start there is no chain.                                         *)
LEMMA ChainInit == ASSUME Init PROVE ChainInv
<1>1. MaxTeams \in Nat \ {0} /\ MaxCommands \in Nat /\ MaxDisconnects \in Nat
  BY FirewallAssumption
<1>2. Unseen \in [count: 0..MaxTeams, now: 0..MaxTeams, size: 0..MaxTeams] /\ Unseen.count = 0
  BY <1>1 DEF Unseen
<1>3. NoItem \in Commands
  BY CmdType, ZeroType DEF NoItem
<1>4. WorkTypes
  <2>1. 1 \in 1..MaxTeams /\ 0 \in 0..MaxTeams /\ 0 \in 0..MaxCommands /\ 0 \in 0..MaxDisconnects
    BY <1>1
  <2>2. <<>> \in Seq(Rules)
    OBVIOUS
  <2> QED
    BY <1>2, <1>3, <2>1, <2>2, Zenon DEF Init, WorkTypes
<1>5. ItemInv
  BY ElemsEmpty DEF Init, ItemInv
<1>6. WatchInv
  BY <1>2 DEF Init, WatchInv
<1>7. RulesInv
  BY DEF Init, RulesInv, Sorted, UpToDate, Subscribed
<1> QED
  BY <1>4, <1>5, <1>6, <1>7 DEF ChainInv

(* Whatever announcements, rewrites and interrupted rewrites it has been   *)
(* through, the chain lets pass exactly what the manager's state, bans and *)
(* permissions say once both threads have nothing left to do, unless two   *)
(* teams registered before the watcher's first count; and all variables    *)
(* keep their types (IpTablesManager, NewTeamWatcher).                     *)
THEOREM ChainCorrect == Spec => []ChainIsExact
<1>1. FirewallInv /\ ChainInv => ChainIsExact
  <2> SUFFICES ASSUME FirewallInv, ChainInv PROVE ChainIsExact
    OBVIOUS
  <2>1. TypeInv /\ WorkTypes /\ WatchInv /\ RulesInv
    BY DEF FirewallInv, ChainInv
  <2>2. TypeOK
    BY <2>1 DEF TypeOK, TypeInv, WorkTypes
  <2>3. ASSUME gate = "listen", watch = "asleep", seen.count = registered, late <= 1,
               NEW p \in Packets, p.team <= registered
        PROVE  Accepted(chain, p) <=> MayPass(p)
    <3>1. UpToDate
      BY <2>3 DEF UpToDate, Subscribed
    <3>2. PICK n \in 1..MaxTeams : StateIn(n) /\ Covers(n)
      BY <2>1, <2>3, <3>1 DEF RulesInv
    <3>3. registered \in 1..MaxTeams /\ MaxTeams \in Nat /\ n + 1 >= registered
      BY <2>1, <2>3, <3>2, FirewallAssumption DEF Covers, WorkTypes
    <3>4. p.team <= n + 1
      <4>1. p.team \in 1..MaxTeams
        BY DEF Packets
      <4> QED
        BY <2>3, <3>3, <4>1
    <3>5. chain \in Seq(Rules) /\ Sorted(chain) /\ man \in [state: NetStates, banned: SUBSET Teams, allowed: SUBSET Teams]
      BY <2>1 DEF WorkTypes, RulesInv, TypeInv
    <3>6. ASSUME NEW r \in Rules
          PROVE  Holds(chain, r) <=> \/ Holds(StateRules(man.state, n), r)
                                     \/ r.kind = "ban" /\ r.n \in man.banned
                                     \/ r.kind = "allow" /\ r.n \in man.allowed
      <4>1. BanIn(r) /\ AllowIn(r) /\ \A kind, dos : ~Unwritten(kind) /\ ~Pending(dos, r)
        BY <2>1, <2>3, <3>1 DEF RulesInv, Unwritten, Pending
      <4>2. /\ r.kind = "ban" => (Holds(chain, r) <=> r.n \in man.banned)
            /\ r.kind = "allow" => (Holds(chain, r) <=> r.n \in man.allowed)
            /\ r.kind \in StateKinds => (Holds(chain, r) <=> Holds(StateRules(man.state, n), r))
        BY <3>2, <4>1 DEF BanIn, AllowIn, StateIn
      <4>3. Holds(StateRules(man.state, n), r) => r.kind \in StateKinds /\ r.kind # "ban" /\ r.kind # "allow"
        BY <3>5, StateRulesKinds
      <4>4. r.kind = "ban" \/ r.kind = "allow" \/ r.kind \in StateKinds
        BY DEF Rules, StateKinds
      <4>5. r.kind \in StateKinds => r.kind # "ban" /\ r.kind # "allow"
        BY DEF StateKinds
      <4> QED
        BY <4>2, <4>3, <4>4, <4>5, Zenon
    <3>7. Exactly(chain, man, n)
      BY <3>6 DEF Exactly
    <3> QED
      BY <3>4, <3>5, <3>7, ExactPasses
  <2> QED
    BY <2>2, <2>3 DEF ChainIsExact
<1>2. Init => ChainInv
  BY ChainInit
<1>3. FirewallInv /\ ChainInv /\ [Next]_vars => ChainInv'
  BY ChainStep DEF FirewallInv
<1> QED
  BY <1>1, <1>2, <1>3, FirewallCorrect, PTL DEF Spec

=============================================================================
