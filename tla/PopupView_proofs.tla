------------------------ MODULE PopupView_proofs ------------------------
(***************************************************************************)
(* Proofs about PopupView, for any numbers of logins, cards, requests and  *)
(* announcements.  The popup is good (Good) when its fields fit together   *)
(* and everything it holds is among what d admits; each handler of         *)
(* PopupView has a lemma that says it keeps the popup good, and the steps  *)
(* follow from the lemmas of the handlers they call.  The second part says *)
(* what is on its way to the popup (Env), and chooses for d what is of the *)
(* session that is open and not older than the popup's own changes.  The   *)
(* third follows the migration of the old cards (Migr).                    *)
(***************************************************************************)
EXTENDS PopupView, FiniteSetTheorems, SequenceTheorems, WellFoundedInduction, TLAPS

(***************************************************************************)
(* What the popup is at every moment                                       *)
(***************************************************************************)
\* The elements of a sequence; that something is a sequence of its elements.
Elems(s) == {s[i] : i \in DOMAIN s}
IsSeq(s) == s \in Seq(Elems(s))
Maybe(S) == S \cup {None}

\* The fields of the popup, and the counters of its requests.
Field == {"screens", "unlocked", "slips", "lockBtn", "busy", "tab", "rows", "list", "detail", "form",
          "dialogs", "cards", "migration", "left", "known", "waiting", "old", "timers", "resume",
          "sent", "inbox"}
Counter == {"view", "render", "revision", "cache", "session", "logins"}

\* What an answer may bring: the data of a session that was open.
OpenSession == {s \in Session : s % 2 # 0}
ListData == [session : OpenSession, of : [Login -> Version]]
LoginData == [id : Login, version : Version, session : OpenSession]
CardData == [session : OpenSession, changes : Nat, of : [Item -> Maybe(Card)]]

\* d says which lists, logins and cards the popup may hold at the moment: what
\* its operations do is proved for any such choice of d.
Admits(d) ==
    /\ d.lists \subseteq ListData /\ d.logins \subseteq d.forms /\ d.forms \subseteq LoginData
    /\ d.cards \subseteq CardData
    /\ d.lists \subseteq d.rows /\ d.cards \subseteq d.rows /\ None \notin d.rows
    /\ \A x \in d.lists, l \in Login : [x EXCEPT !.of[l] = Gone] \in d.lists

\* What may grow old.
HeldOf(p) == (IF p.list = None THEN {} ELSE {"list"})
        \cup (IF p.detail.login = None THEN {} ELSE {"detail"})
        \cup (IF p.form.from = None THEN {} ELSE {"form"})

\* The dialogs, and what each is about.
CardDialog == {"edit card", "delete card"}
LoginDialog == {"delete row", "delete login"}
Dialogs(d) == [kind : LoginDialog, id : Login, of : {None}]
              \cup [kind : {"add card"}, id : {None}, of : {None}]
              \cup [kind : CardDialog, id : Item, of : d.rows]

\* The fields that hold nothing of the vault.
Shape(p) ==
    /\ DOMAIN p = Field
    /\ p.screens \subseteq {"boot", "login", "list", "detail", "form"}
    /\ p.slips \subseteq {"overlaid", "astray", "deaf"}
    /\ p.unlocked \in BOOLEAN /\ p.lockBtn \in BOOLEAN /\ p.busy \in BOOLEAN
    /\ p.tab \in Tabs /\ p.migration \in {"no", "running", "done"}
    /\ p.left \in Seq(Card) /\ p.known \subseteq Maybe(Card)
    /\ p.resume \in Maybe(Login)

\* The popup holds only what d admits; what is old, and what has a timer, is held.
Holds(p, d) ==
    /\ p.rows \in [kind : Tabs \cup {"blank", "loading", "reload", "failed"}, of : Maybe(d.rows)]
    /\ p.list \in Maybe(d.lists)
    /\ p.cards \in Maybe(d.cards)
    /\ p.detail \in [id : Maybe(Login), login : Maybe(d.logins), revealed : BOOLEAN]
    /\ p.form \in [editing : Maybe(Login), from : Maybe(d.forms), saving : BOOLEAN]
    /\ p.dialogs \subseteq Dialogs(d)
    /\ p.old \subseteq HeldOf(p) /\ p.timers \subseteq HeldOf(p)
    /\ p.detail.revealed => p.detail.login # None

\* The login on the screen and the one in the form are those that were chosen.
Chosen(p) ==
    /\ p.detail.login # None => p.detail.login.id = p.detail.id
    /\ p.form.from # None => p.form.from.id = p.form.editing
    /\ "detail" \in p.screens => p.detail.id # None

\* The rows are of the section that is selected.
Shown(p) ==
    /\ p.rows.kind = "passwords" => p.tab = "passwords"
    /\ p.rows.kind = "cards" => ("list" \in p.screens => p.tab = "cards")

\* The view is unlocked, or went astray: only then may anything be held.
Lit(p) == p.unlocked \/ "astray" \in p.slips

\* Nothing of the vault is held or shown.
Empty(p) ==
    /\ p.list = None /\ p.detail.login = None /\ p.form.from = None /\ p.cards = None /\ p.rows.of = None
    /\ p.dialogs = {} /\ p.screens \subseteq {"boot", "login"}

\* A view that is not lit is empty.
Closed(p) ==
    /\ ~Lit(p) => Empty(p) /\ ~p.lockBtn
    /\ "login" \in p.screens => ~p.unlocked \/ "overlaid" \in p.slips

\* The requests the popup makes.
Kinds(c) ==
    /\ DOMAIN c = {"what", "use", "arg", "chain", "fresh", "got"}
    /\ c.fresh \subseteq Counter
    /\ c.what \in {"bootstrap", "status", "resume", "login", "logout", "list", "login entry", "items", "local", "forget local"}
                  \cup Mutations \cup ItemMutations
    /\ c.use = "migrate" => c.what \in {"local", "forget local", "items", "create item"}
    /\ c.what \in {"local", "forget local"} => c.use \in {"migrate", "dead"}
    /\ c.what = "items" => c.got \in Maybe(CardData) /\ c.use \in {"render", "edit", "delete", "migrate", "dead"}
    /\ c.what = "items" /\ c.use \in {"edit", "delete"} => c.arg \in Item
    /\ c.what = "login entry" => c.arg \in Login /\ c.use \in {"show", "restore", "refresh", "reveal", "edit", "dead"}
    /\ c.what \in {"update", "delete"} => c.arg \in Login
    /\ c.what = "create item" => c.arg \in Card
    /\ c.what = "update item" => c.arg \in [id : Item, card : Card]
    /\ c.what = "delete item" => c.arg \in Item
    /\ c.what \in Mutations => c.got \in Maybe(Session)

\* A request whose answer opens something: while the counter it compares has not
\* moved, the view is lit.
NeedsView(c) ==
    \/ c.what \in {"list", "login entry", "resume"} \cup Mutations \cup {"update item", "delete item"}
    \/ c.what = "create item" /\ c.use # "migrate"
    \/ c.what = "items" /\ c.use \in {"edit", "delete"}

NeedsRender(c) ==
    \/ c.what = "resume"
    \/ c.what = "items" /\ c.use = "render"
    \/ c.what = "login entry" /\ c.use = "restore"

Opens(c) ==
    \/ NeedsView(c) /\ "view" \in c.fresh
    \/ NeedsRender(c) /\ "render" \in c.fresh
    \/ c.what = "items" /\ c.use # "migrate" /\ "cache" \in c.fresh

\* A request that carries a list to show later carries one that d admits, for as
\* long as its answer may show it; and it asks for the login that is open.
Carries(c, id, d) ==
    /\ c.what = "resume" => c.arg \in Maybe(ListData) /\ ("render" \in c.fresh => c.arg \in Maybe(d.lists))
    /\ c.what = "login entry" /\ c.use = "restore" =>
          c.got \in Maybe(ListData) /\ ("render" \in c.fresh => c.got \in Maybe(d.lists))
    /\ c.what = "login entry" /\ {"render", "revision"} \subseteq c.fresh => c.arg = id

\* A request of a popup whose view is lit or not, and whose login is id.
CallOk(c, lit, id, d) ==
    /\ Kinds(c)
    /\ c.use # "dead" => (Opens(c) => lit) /\ Carries(c, id, d)

\* The answer r to the request c has the type that c asks for.
AnswerOk(c, r) ==
    /\ DOMAIN r = {"code", "data"} /\ r.code \in {"ok", "lost", "changed", "error"}
    /\ c.what \in Storage \cup {"logout"} => r.code = "ok"
    /\ r.code = "ok" =>
       /\ c.what = "list" => r.data \in Maybe(ListData)
       /\ c.what = "login entry" => r.data \in Maybe(LoginData) /\ (r.data # None => r.data.id = c.arg)
       /\ c.what = "bootstrap" => r.data \in [unlocked : BOOLEAN, snapshot : Maybe(ListData)]
       /\ c.what = "items" => r.data \in CardData
       /\ c.what = "local" => r.data \in Seq(Card)
       /\ c.what \in Mutations => r.data \in [login : Login, version : Version]
       /\ c.what \in ItemMutations => r.data \in Nat

\* What r brings, and the popup will hold, is admitted.
Fits(c, r, d) == r.code = "ok" =>
    /\ c.what = "list" /\ Fresh(c, {"view", "render"}) => r.data \in Maybe(d.lists)
    /\ c.what = "login entry" /\ Fresh(c, {"view", "render", "revision"}) => r.data \in Maybe(d.logins)
    /\ c.what = "bootstrap" /\ Fresh(c, {"view"}) /\ r.data.unlocked => r.data.snapshot \in Maybe(d.lists)
    /\ c.what = "items" /\ c.use # "migrate" /\ Fresh(c, {"view"}) =>
          /\ c.use = "render" => (Fresh(c, {"render"}) => r.data \in d.rows)
          /\ c.use # "render" => r.data \in d.rows
          /\ Fresh(c, {"cache"}) => r.data \in d.cards

\* What the browser still has to hand to the popup.
IsAnswer(e) == DOMAIN e = {"kind", "call", "result"} /\ e.kind = "answer"
InboxOk(e, lit, id, d) ==
    \/ IsAnswer(e) /\ e.call.use # "dead" /\ CallOk(e.call, lit, id, d) /\ AnswerOk(e.call, e.result)
    \/ e \in [kind : {"invalidated", "cache"}, updated : SUBSET Key, invalid : SUBSET Key]
    \/ e = TokenChanged

\* A request for cards that waits for the migration.
Waits(c) == c.what = "items" /\ c.use \in {"render", "edit", "delete"} /\ c.got = None

\* All requests, wherever they are.
AsksSent(s, lit, id, d) == IsSeq(s) /\ \A c \in Elems(s) : CallOk(c, lit, id, d)
AsksWaiting(s, lit, id, d) == IsSeq(s) /\ \A c \in Elems(s) : CallOk(c, lit, id, d) /\ Waits(c)
AsksInbox(s, lit, id, d) == IsSeq(s) /\ \A e \in Elems(s) : InboxOk(e, lit, id, d)

Asks(p, d) ==
    /\ AsksSent(p.sent, Lit(p), p.detail.id, d)
    /\ AsksWaiting(p.waiting, Lit(p), p.detail.id, d)
    /\ AsksInbox(p.inbox, Lit(p), p.detail.id, d)

\* The popup is as it should be.
Good(p, d) == Shape(p) /\ Holds(p, d) /\ Chosen(p) /\ Closed(p) /\ Asks(p, d)

(***************************************************************************)
(* Parts of a popup that some change leaves alone                          *)
(***************************************************************************)
\* The fields each part of Good is about.
ViewF == {"screens", "unlocked", "slips", "lockBtn", "busy", "tab", "rows", "list", "detail", "form",
          "dialogs", "cards", "migration", "left", "known", "old", "timers", "resume"}
ShapeF == {"screens", "unlocked", "slips", "lockBtn", "busy", "tab", "migration", "left", "known", "resume"}
HoldsF == {"rows", "list", "cards", "detail", "form", "dialogs", "old", "timers"}
ChosenF == {"screens", "detail", "form"}
ShownF == {"screens", "rows", "tab"}
ClosedF == {"screens", "unlocked", "slips", "lockBtn", "rows", "list", "detail", "form", "dialogs", "cards"}
AsksF == {"sent", "waiting", "inbox", "unlocked", "slips", "detail"}

\* q is a popup, and has the fields F of p.
Agree(p, q, F) == DOMAIN q = Field /\ \A f \in F : q[f] = p[f]

\* The step from p to q keeps the popup as it should be, does not put out a view
\* that was lit, and forgets no slip.
Sound(p, q, d) == Good(q, d) /\ (Shown(p) => Shown(q)) /\ (Lit(p) => Lit(q)) /\ p.slips \subseteq q.slips

\* The same request, or the same after counters moved.
SameCall(c, s) ==
    /\ c.what = s.what /\ c.use = s.use /\ c.arg = s.arg /\ c.got = s.got
    /\ c.fresh \subseteq s.fresh

\* The same event, or an answer to the same request.
SameEvent(e, f) ==
    \/ e = f
    \/ e.kind = "answer" /\ f.kind = "answer" /\ e.result = f.result /\ SameCall(e.call, f.call)

\* Nothing has been read for the request yet.
Began(c) == c.what = "items" => c.got = None
NewCall(c, lit, id, d) == CallOk(c, lit, id, d) /\ Began(c)

\* What is on its way in p was on its way in b: only counters moved, and requests were
\* added that have just begun.
Follows(p, b) ==
    /\ DOMAIN p.inbox = DOMAIN b.inbox
    /\ \A k \in DOMAIN p.inbox : SameEvent(p.inbox[k], b.inbox[k])
    /\ \A c \in Elems(p.sent) : Began(c) \/ \E s \in Elems(b.sent) : SameCall(c, s)

\* A step that is sound and leaves what is on its way to the popup as it was.
Keeps(p, q, d) == Sound(p, q, d) /\ \A b : Follows(p, b) => Follows(q, b)

\* No request has the counters cs any more.
Cut(p, cs) ==
    /\ \A c \in Elems(p.sent) : c.fresh \cap cs = {}
    /\ \A c \in Elems(p.waiting) : c.fresh \cap cs = {}
    /\ \A e \in Elems(p.inbox) : e.kind = "answer" => e.call.fresh \cap cs = {}

Calls == {"sent", "waiting", "inbox"}

(***************************************************************************)
(* Sequences                                                               *)
(***************************************************************************)
\* Append adds one element.
LEMMA Appended ==
  ASSUME NEW s, IsSeq(s), NEW x
  PROVE  IsSeq(Append(s, x)) /\ Elems(Append(s, x)) = Elems(s) \cup {x}
<1> DEFINE t == Append(s, x)  S == Elems(s) \cup {x}
<1>1. s \in Seq(S)
  BY DEF IsSeq
<1>2. Len(t) = Len(s) + 1 /\ t \in Seq(S) /\ \A i \in 1 .. Len(s) : t[i] = s[i]
  BY <1>1
<1>3. t[Len(s) + 1] = x /\ Len(s) \in Nat /\ DOMAIN s = 1 .. Len(s) /\ DOMAIN t = 1 .. Len(t)
  BY <1>1, <1>2
<1>4. Elems(t) \subseteq S
  BY <1>2 DEF Elems
<1>5. S \subseteq Elems(t)
  <2> SUFFICES ASSUME NEW y \in S PROVE \E i \in DOMAIN t : t[i] = y
    BY DEF Elems
  <2>1. CASE y = x
    BY <1>2, <1>3, <2>1
  <2>2. CASE y \in Elems(s)
    <3>1. PICK i \in DOMAIN s : s[i] = y
      BY <2>2 DEF Elems
    <3> QED
      BY <1>2, <1>3, <3>1
  <2> QED
    BY <2>1, <2>2
<1>6. Elems(t) = S
  BY <1>4, <1>5
<1> QED
  BY <1>2, <1>6 DEF IsSeq

\* Tail leaves the elements but the first.
LEMMA Tailed ==
  ASSUME NEW s, IsSeq(s), s # <<>>
  PROVE  IsSeq(Tail(s)) /\ Elems(Tail(s)) \subseteq Elems(s) /\ Head(s) \in Elems(s)
<1> DEFINE t == Tail(s)
<1>1. s \in Seq(Elems(s))
  BY DEF IsSeq
<1>2. t \in Seq(Elems(s)) /\ Head(s) \in Elems(s)
  BY <1>1
<1> HIDE DEF t
<1>3. Elems(t) \subseteq Elems(s)
  BY <1>2 DEF Elems
<1>4. Len(t) \in Nat /\ DOMAIN t = 1 .. Len(t)
  BY <1>2
<1>5. t \in Seq(Elems(t))
  BY <1>2, <1>4, SeqDef DEF Elems
<1>6. IsSeq(t)
  BY <1>5 DEF IsSeq
<1> QED
  BY <1>2, <1>3, <1>6 DEF t

\* A function on the domain of a sequence is a sequence.
LEMMA Mapped ==
  ASSUME NEW s, IsSeq(s), NEW t, DOMAIN t = DOMAIN s, t = [i \in DOMAIN t |-> t[i]]
  PROVE  IsSeq(t) /\ Len(t) = Len(s)
<1>1. s \in Seq(Elems(s))
  BY DEF IsSeq
<1>2. Len(s) \in Nat /\ DOMAIN s = 1 .. Len(s)
  BY <1>1
<1>3. t \in [1 .. Len(s) -> Elems(t)]
  BY <1>2 DEF Elems
<1>4. t \in Seq(Elems(t))
  BY <1>2, <1>3
<1> QED
  BY <1>2, <1>3, <1>4 DEF IsSeq

\* What is left when one element is taken out.
LEMMA Removed ==
  ASSUME NEW s, IsSeq(s), NEW i \in DOMAIN s
  PROVE  LET t == SubSeq(s, 1, i - 1) \o SubSeq(s, i + 1, Len(s))
         IN  IsSeq(t) /\ Elems(t) \subseteq Elems(s)
<1> DEFINE t == SubSeq(s, 1, i - 1) \o SubSeq(s, i + 1, Len(s))
<1>1. s \in Seq(Elems(s)) /\ Len(s) \in Nat /\ DOMAIN s = 1 .. Len(s)
  BY DEF IsSeq
<1>2. SubSeq(s, 1, i - 1) \in Seq(Elems(s)) /\ SubSeq(s, i + 1, Len(s)) \in Seq(Elems(s))
  BY <1>1
<1>3. t \in Seq(Elems(s))
  BY <1>2
<1> HIDE DEF t
<1>4. Elems(t) \subseteq Elems(s)
  BY <1>3 DEF Elems
<1>5. Len(t) \in Nat /\ DOMAIN t = 1 .. Len(t)
  BY <1>3
<1>6. t \in Seq(Elems(t))
  BY <1>3, <1>5, SeqDef DEF Elems
<1>7. IsSeq(t)
  BY <1>6 DEF IsSeq
<1> QED
  BY <1>4, <1>7 DEF t

(***************************************************************************)
(* Each part of Good is about some fields only                             *)
(***************************************************************************)
\* Shape is about the fields ShapeF.
LEMMA ShapeKept ==
  ASSUME NEW p, NEW q, Agree(p, q, ShapeF), Shape(p)
  PROVE  Shape(q) /\ p.slips = q.slips
BY DEF Agree, ShapeF, Shape

\* Holds is about the fields HoldsF.
LEMMA HoldsKept ==
  ASSUME NEW p, NEW q, NEW d, Agree(p, q, HoldsF), Holds(p, d) PROVE Holds(q, d)
BY DEF Agree, HoldsF, Holds, HeldOf

\* Chosen is about the fields ChosenF.
LEMMA ChosenKept ==
  ASSUME NEW p, NEW q, Agree(p, q, ChosenF), Chosen(p) PROVE Chosen(q)
BY DEF Agree, ChosenF, Chosen

\* Shown is about the fields ShownF.
LEMMA ShownKept ==
  ASSUME NEW p, NEW q, Agree(p, q, ShownF), Shown(p) PROVE Shown(q)
BY DEF Agree, ShownF, Shown

\* Closed is about the fields ClosedF.
LEMMA ClosedKept ==
  ASSUME NEW p, NEW q, Agree(p, q, ClosedF), Closed(p) PROVE Closed(q)
BY DEF Agree, ClosedF, Closed, Lit, Empty

\* Counters that move twice have moved.
LEMMA SameCalls ==
  ASSUME NEW a, NEW b, NEW c, SameCall(a, b), SameCall(b, c)
  PROVE  SameCall(a, c)
BY DEF SameCall

\* The same for events.
LEMMA SameEvents ==
  ASSUME NEW a, NEW b, NEW c, SameEvent(a, b), SameEvent(b, c)
  PROVE  SameEvent(a, c)
BY SameCalls DEF SameEvent

\* What changes only so goes on following what came before.
LEMMA StillFollows ==
  ASSUME NEW p, NEW q, DOMAIN q.inbox = DOMAIN p.inbox,
         \A k \in DOMAIN q.inbox : SameEvent(q.inbox[k], p.inbox[k]),
         \A c \in Elems(q.sent) : Began(c) \/ \E s \in Elems(p.sent) : SameCall(c, s)
  PROVE  \A b : Follows(p, b) => Follows(q, b)
<1> SUFFICES ASSUME NEW b, Follows(p, b) PROVE Follows(q, b)
  OBVIOUS
<1>1. DOMAIN q.inbox = DOMAIN b.inbox
  BY DEF Follows
<1>2. \A k \in DOMAIN q.inbox : SameEvent(q.inbox[k], b.inbox[k])
  BY SameEvents DEF Follows
<1>3. ASSUME NEW c \in Elems(q.sent), ~Began(c)
      PROVE  \E s \in Elems(b.sent) : SameCall(c, s)
  <2>1. PICK s \in Elems(p.sent) : SameCall(c, s)
    BY <1>3
  <2>2. ~Began(s)
    BY <1>3, <2>1 DEF Began, SameCall
  <2>3. PICK x \in Elems(b.sent) : SameCall(s, x)
    BY <2>2 DEF Follows
  <2> QED
    BY <2>1, <2>3, SameCalls
<1> QED
  BY <1>1, <1>2, <1>3 DEF Follows

\* Follows is about the requests sent and the events only.
LEMMA FollowsKept ==
  ASSUME NEW p, NEW q, q.sent = p.sent, q.inbox = p.inbox
  PROVE  \A b : Follows(p, b) => Follows(q, b)
BY DEF Follows

\* Asks is about the fields AsksF.
LEMMA AsksKept ==
  ASSUME NEW p, NEW q, NEW d, Agree(p, q, AsksF), Asks(p, d)
  PROVE  Asks(q, d) /\ \A b : Follows(p, b) => Follows(q, b)
<1>1. Asks(q, d)
  BY DEF Agree, AsksF, Asks, Lit
<1>2. q.sent = p.sent /\ q.inbox = p.inbox
  BY DEF Agree, AsksF
<1> QED
  BY <1>1, <1>2, FollowsKept

\* A change of requests only keeps what is not about them.
LEMMA Kept ==
  ASSUME NEW p, NEW q, NEW d, Agree(p, q, ViewF), Good(p, d)
  PROVE  Shape(q) /\ Holds(q, d) /\ Chosen(q) /\ Closed(q) /\ (Shown(p) => Shown(q)) /\ (Lit(p) <=> Lit(q))
         /\ p.slips = q.slips
<1>1. Agree(p, q, ShapeF) /\ Agree(p, q, HoldsF) /\ Agree(p, q, ChosenF) /\ Agree(p, q, ClosedF)
      /\ Agree(p, q, ShownF)
  BY DEF Agree, ViewF, ShapeF, HoldsF, ChosenF, ClosedF, ShownF
<1>2. Lit(p) <=> Lit(q)
  BY DEF Agree, ViewF, Lit
<1> QED
  BY <1>1, <1>2, ShapeKept, HoldsKept, ChosenKept, ClosedKept, ShownKept DEF Good

(***************************************************************************)
(* Requests when counters move                                             *)
(***************************************************************************)
\* A request remains one when counters move.
LEMMA CallStale ==
  ASSUME NEW c, NEW lit, NEW id, NEW d, CallOk(c, lit, id, d), NEW cs
  PROVE  LET s == Stale(c, cs) IN
         /\ CallOk(s, lit, id, d) /\ (Waits(c) => Waits(s)) /\ s.use = c.use /\ s.what = c.what
         /\ s.arg = c.arg /\ s.got = c.got /\ s.fresh = c.fresh \ cs
<1> DEFINE s == Stale(c, cs)
<1>1. DOMAIN s = DOMAIN c /\ s.what = c.what /\ s.use = c.use /\ s.arg = c.arg /\ s.chain = c.chain
      /\ s.got = c.got /\ s.fresh = c.fresh \ cs
  BY DEF Stale, CallOk, Kinds
<1> HIDE DEF s
<1>2. Kinds(s)
  BY <1>1 DEF CallOk, Kinds
<1>3. c.use # "dead" => (Opens(s) => lit) /\ Carries(s, id, d)
  BY <1>1 DEF CallOk, Opens, NeedsView, NeedsRender, Carries
<1> QED
  BY <1>1, <1>2, <1>3 DEF s, CallOk, Waits

\* It remains one when the view is lit.
LEMMA CallLit ==
  ASSUME NEW c, NEW lit, NEW lit2, NEW id, NEW d, CallOk(c, lit, id, d), lit => lit2
  PROVE  CallOk(c, lit2, id, d)
BY DEF CallOk

\* Once the render counter has moved, it remains one whatever login is opened.
LEMMA CallMoved ==
  ASSUME NEW c, NEW lit, NEW lit2, NEW id, NEW id2, NEW d, CallOk(c, lit, id, d), lit => lit2,
         c.fresh \cap {"render"} = {}
  PROVE  CallOk(c, lit2, id2, d)
BY DEF CallOk, Carries

\* Once all counters have moved, it remains one whatever happens to the view, and
\* whatever is admitted.
LEMMA CallCleared ==
  ASSUME NEW c, NEW lit, NEW lit2, NEW id, NEW id2, NEW d, NEW d2, CallOk(c, lit, id, d),
         c.fresh \cap {"view", "render", "cache"} = {}
  PROVE  CallOk(c, lit2, id2, d2)
BY DEF CallOk, Carries, Opens

\* The same for all requests, when the view is lit.
LEMMA AsksLit ==
  ASSUME NEW p, NEW q, NEW d, Asks(p, d), Agree(p, q, Calls), Lit(p) => Lit(q), q.detail.id = p.detail.id
  PROVE  Asks(q, d) /\ \A b : Follows(p, b) => Follows(q, b)
<1>1. AsksSent(q.sent, Lit(q), q.detail.id, d)
  BY CallLit DEF Asks, AsksSent, Agree, Calls
<1>2. AsksWaiting(q.waiting, Lit(q), q.detail.id, d)
  BY CallLit DEF Asks, AsksWaiting, Agree, Calls
<1>3. AsksInbox(q.inbox, Lit(q), q.detail.id, d)
  BY CallLit DEF Asks, AsksInbox, Agree, Calls, InboxOk
<1>4. q.sent = p.sent /\ q.inbox = p.inbox
  BY DEF Agree, Calls
<1> QED
  BY <1>1, <1>2, <1>3, <1>4, FollowsKept DEF Asks

\* The same for all requests, when the render counter has moved.
LEMMA AsksMoved ==
  ASSUME NEW p, NEW q, NEW d, Asks(p, d), Agree(p, q, Calls), Lit(p) => Lit(q), Cut(p, {"render"})
  PROVE  Asks(q, d) /\ \A b : Follows(p, b) => Follows(q, b)
<1>1. AsksSent(q.sent, Lit(q), q.detail.id, d)
  BY CallMoved DEF Asks, AsksSent, Agree, Calls, Cut
<1>2. AsksWaiting(q.waiting, Lit(q), q.detail.id, d)
  BY CallMoved DEF Asks, AsksWaiting, Agree, Calls, Cut
<1>3. AsksInbox(q.inbox, Lit(q), q.detail.id, d)
  BY CallMoved DEF Asks, AsksInbox, Agree, Calls, InboxOk, Cut, IsAnswer
<1>4. q.sent = p.sent /\ q.inbox = p.inbox
  BY DEF Agree, Calls
<1> QED
  BY <1>1, <1>2, <1>3, <1>4, FollowsKept DEF Asks

\* The same for all requests, when all counters have moved.
LEMMA AsksCleared ==
  ASSUME NEW p, NEW q, NEW d, NEW d2, Asks(p, d), Agree(p, q, Calls), Cut(p, {"view", "render", "cache"})
  PROVE  Asks(q, d2) /\ \A b : Follows(p, b) => Follows(q, b)
<1>1. AsksSent(q.sent, Lit(q), q.detail.id, d2)
  BY CallCleared DEF Asks, AsksSent, Agree, Calls, Cut
<1>2. AsksWaiting(q.waiting, Lit(q), q.detail.id, d2)
  BY CallCleared DEF Asks, AsksWaiting, Agree, Calls, Cut
<1>3. AsksInbox(q.inbox, Lit(q), q.detail.id, d2)
  BY CallCleared DEF Asks, AsksInbox, Agree, Calls, InboxOk, Cut, IsAnswer
<1>4. q.sent = p.sent /\ q.inbox = p.inbox
  BY DEF Agree, Calls
<1> QED
  BY <1>1, <1>2, <1>3, <1>4, FollowsKept DEF Asks

\* Cut is about the requests only.
LEMMA CutKept ==
  ASSUME NEW p, NEW q, NEW cs, Agree(p, q, Calls), Cut(p, cs) PROVE Cut(q, cs)
BY DEF Agree, Calls, Cut

(***************************************************************************)
(* Requests are sent, and counters move                                    *)
(***************************************************************************)
\* SendCall: a request that is one may be sent.
LEMMA SendGood ==
  ASSUME NEW p, NEW d, Good(p, d), NEW c, NewCall(c, Lit(p), p.detail.id, d)
  PROVE  LET q == SendCall(p, c) IN
         Keeps(p, q, d) /\ Agree(p, q, ViewF \cup {"waiting", "inbox"}) /\ q.sent = Append(p.sent, c)
<1> DEFINE q == SendCall(p, c)
<1>1. Agree(p, q, ViewF \cup {"waiting", "inbox"}) /\ q.sent = Append(p.sent, c)
  BY DEF Good, Shape, SendCall, Field, ViewF, Agree
<1> HIDE DEF q
<1>2. Agree(p, q, ViewF) /\ Agree(p, q, {"waiting", "inbox", "detail"}) /\ (Lit(q) <=> Lit(p))
  BY <1>1 DEF Agree, ViewF, Lit
<1>3. AsksSent(q.sent, Lit(q), q.detail.id, d)
  BY <1>1, <1>2, Appended, CallLit DEF NewCall, AsksSent, Good, Asks, Agree
<1>4. Asks(q, d)
  BY <1>2, <1>3, CallLit DEF Good, Asks, Agree, AsksWaiting, AsksInbox, InboxOk
<1>5. \A b : Follows(p, b) => Follows(q, b)
  <2>1. q.inbox = p.inbox /\ Elems(q.sent) = Elems(p.sent) \cup {c}
    BY <1>1, <1>2, Appended DEF Good, Asks, AsksSent, Agree
  <2> QED
    BY <2>1, StillFollows DEF NewCall, SameCall, SameEvent
<1> QED
  BY <1>1, <1>2, <1>4, <1>5, Kept DEF Keeps, Sound, Good, q

\* Bump: requests remain requests, and lose the counters that moved.
LEMMA BumpAsks ==
  ASSUME NEW p, NEW d, DOMAIN p = Field, Asks(p, d), NEW cs
  PROVE  LET q == Bump(p, cs) IN
         /\ Asks(q, d) /\ Agree(p, q, ViewF) /\ Cut(q, cs) /\ \A x : Cut(p, x) => Cut(q, x)
         /\ \A b : Follows(p, b) => Follows(q, b)
<1> DEFINE q == Bump(p, cs)
<1>1. Agree(p, q, ViewF)
      /\ q.sent = [i \in DOMAIN p.sent |-> Stale(p.sent[i], cs)]
      /\ q.waiting = [i \in DOMAIN p.waiting |-> Stale(p.waiting[i], cs)]
      /\ q.inbox = [i \in DOMAIN p.inbox |-> StaleAnswer(p.inbox[i], cs)]
  <2>1. Agree(p, q, ViewF)
    BY DEF Bump, Field, ViewF, Agree
  <2>2. q.sent = [i \in DOMAIN p.sent |-> Stale(p.sent[i], cs)]
        /\ q.waiting = [i \in DOMAIN p.waiting |-> Stale(p.waiting[i], cs)]
        /\ q.inbox = [i \in DOMAIN p.inbox |-> StaleAnswer(p.inbox[i], cs)]
    BY DEF Bump, Field
  <2> QED
    BY <2>1, <2>2
<1> HIDE DEF q
<1>2. (Lit(q) <=> Lit(p)) /\ q.detail.id = p.detail.id
  BY <1>1 DEF Agree, ViewF, Lit
<1> DEFINE lit == Lit(p)  id == p.detail.id
<1>3. AsksSent(p.sent, lit, id, d) /\ AsksWaiting(p.waiting, lit, id, d) /\ AsksInbox(p.inbox, lit, id, d)
  BY DEF Asks
<1> HIDE DEF lit, id
<1>4. \A c \in Elems(q.sent) : \E b \in Elems(p.sent) : c = Stale(b, cs)
  BY <1>1 DEF Elems
<1>5. \A c \in Elems(q.waiting) : \E b \in Elems(p.waiting) : c = Stale(b, cs)
  BY <1>1 DEF Elems
<1>6. \A e \in Elems(q.inbox) : \E b \in Elems(p.inbox) : e = StaleAnswer(b, cs)
  BY <1>1 DEF Elems
<1>7. IsSeq(q.sent) /\ IsSeq(q.waiting) /\ IsSeq(q.inbox)
  <2>1. IsSeq(p.sent) /\ IsSeq(p.waiting) /\ IsSeq(p.inbox)
    BY <1>3 DEF AsksSent, AsksWaiting, AsksInbox
  <2> QED
    BY <1>1, <2>1, Mapped
<1>8. AsksSent(q.sent, lit, id, d)
  BY <1>3, <1>4, <1>7, CallStale DEF AsksSent
<1>9. AsksWaiting(q.waiting, lit, id, d)
  BY <1>3, <1>5, <1>7, CallStale DEF AsksWaiting
<1>10. ASSUME NEW e \in Elems(q.inbox)
       PROVE  InboxOk(e, lit, id, d) /\ (e.kind = "answer" => e.call.fresh \cap cs = {})
  <2>1. PICK b \in Elems(p.inbox) : e = StaleAnswer(b, cs)
    BY <1>6
  <2>2. InboxOk(b, lit, id, d)
    BY <1>3 DEF AsksInbox
  <2>3. CASE b.kind = "answer"
    <3>1. IsAnswer(b) /\ b.call.use # "dead" /\ CallOk(b.call, lit, id, d) /\ AnswerOk(b.call, b.result)
      BY <2>2, <2>3 DEF InboxOk, TokenChanged, Event
    <3>2. e = [b EXCEPT !.call = Stale(b.call, cs)]
      BY <2>1, <2>3 DEF StaleAnswer
    <3>3. IsAnswer(e) /\ e.call = Stale(b.call, cs) /\ e.result = b.result
      BY <3>1, <3>2 DEF IsAnswer
    <3>4. CallOk(e.call, lit, id, d) /\ e.call.use = b.call.use /\ e.call.what = b.call.what
          /\ e.call.arg = b.call.arg /\ e.call.fresh = b.call.fresh \ cs
      BY <3>1, <3>3, CallStale
    <3>5. AnswerOk(e.call, e.result)
      BY <3>1, <3>3, <3>4 DEF AnswerOk
    <3> QED
      BY <3>1, <3>3, <3>4, <3>5 DEF InboxOk
  <2>4. CASE b.kind # "answer"
    BY <2>1, <2>2, <2>4 DEF StaleAnswer
  <2> QED
    BY <2>3, <2>4
<1>11. AsksInbox(q.inbox, lit, id, d)
  BY <1>7, <1>10 DEF AsksInbox
<1>12. Asks(q, d)
  BY <1>2, <1>8, <1>9, <1>11, CallLit DEF Asks, lit, id, AsksSent, AsksWaiting, AsksInbox, InboxOk
<1>13. Cut(q, cs)
  <2>1. \A c \in Elems(q.sent) : c.fresh \cap cs = {}
    BY <1>3, <1>4, CallStale DEF AsksSent
  <2>2. \A c \in Elems(q.waiting) : c.fresh \cap cs = {}
    BY <1>3, <1>5, CallStale DEF AsksWaiting
  <2> QED
    BY <2>1, <2>2, <1>10 DEF Cut
<1>14. ASSUME NEW x, Cut(p, x) PROVE Cut(q, x)
  <2>1. \A c \in Elems(q.sent) : c.fresh \cap x = {}
    BY <1>3, <1>4, <1>14, CallStale DEF AsksSent, Cut
  <2>2. \A c \in Elems(q.waiting) : c.fresh \cap x = {}
    BY <1>3, <1>5, <1>14, CallStale DEF AsksWaiting, Cut
  <2>3. ASSUME NEW e \in Elems(q.inbox), e.kind = "answer" PROVE e.call.fresh \cap x = {}
    <3>1. PICK b \in Elems(p.inbox) : e = StaleAnswer(b, cs)
      BY <1>6
    <3>2. InboxOk(b, lit, id, d)
      BY <1>3 DEF AsksInbox
    <3>3. CASE b.kind = "answer"
      <4>1. IsAnswer(b) /\ CallOk(b.call, lit, id, d)
        BY <3>2, <3>3 DEF InboxOk, TokenChanged, Event
      <4>2. e.call = Stale(b.call, cs)
        BY <3>1, <3>3, <4>1 DEF IsAnswer, StaleAnswer
      <4> QED
        BY <3>3, <4>1, <4>2, <1>14, CallStale DEF Cut
    <3> QED
      BY <2>3, <3>1, <3>3 DEF StaleAnswer
  <2> QED
    BY <2>1, <2>2, <2>3 DEF Cut
<1>15. \A x : Cut(p, x) => Cut(q, x)
  BY <1>14
<1>16. \A b : Follows(p, b) => Follows(q, b)
  <2>1. \A c \in Elems(q.sent) : \E s \in Elems(p.sent) : SameCall(c, s)
    BY <1>3, <1>4, CallStale DEF AsksSent, SameCall
  <2>2. DOMAIN q.inbox = DOMAIN p.inbox
    BY <1>1
  <2>3. ASSUME NEW k \in DOMAIN q.inbox PROVE SameEvent(q.inbox[k], p.inbox[k])
    <3> DEFINE b == p.inbox[k]  e == q.inbox[k]
    <3>1. e = StaleAnswer(b, cs) /\ InboxOk(b, lit, id, d)
      BY <1>1, <1>3, <2>2 DEF AsksInbox, Elems
    <3> HIDE DEF b, e
    <3>2. CASE b.kind = "answer"
      <4>1. IsAnswer(b) /\ CallOk(b.call, lit, id, d)
        BY <3>1, <3>2 DEF InboxOk, TokenChanged, Event
      <4>2. e.kind = "answer" /\ e.result = b.result /\ e.call = Stale(b.call, cs)
        BY <3>1, <3>2, <4>1 DEF IsAnswer, StaleAnswer
      <4>3. SameCall(e.call, b.call)
        BY <4>1, <4>2, CallStale DEF SameCall
      <4> QED
        BY <3>2, <4>2, <4>3 DEF SameEvent, b, e
    <3>3. CASE b.kind # "answer"
      BY <3>1, <3>3 DEF StaleAnswer, SameEvent, b, e
    <3> QED
      BY <3>2, <3>3
  <2> QED
    BY <2>1, <2>2, <2>3, StillFollows
<1> QED
  BY <1>1, <1>12, <1>13, <1>15, <1>16 DEF q

\* Bump keeps the popup good.
LEMMA BumpGood ==
  ASSUME NEW p, NEW d, Good(p, d), NEW cs
  PROVE  LET q == Bump(p, cs) IN
         Keeps(p, q, d) /\ Agree(p, q, ViewF) /\ Cut(q, cs) /\ \A x : Cut(p, x) => Cut(q, x)
<1> DEFINE q == Bump(p, cs)
<1>1. DOMAIN p = Field /\ Asks(p, d)
  BY DEF Good, Shape
<1>2. /\ Asks(q, d) /\ Agree(p, q, ViewF) /\ Cut(q, cs) /\ \A x : Cut(p, x) => Cut(q, x)
      /\ \A b : Follows(p, b) => Follows(q, b)
  BY <1>1, BumpAsks
<1> HIDE DEF q
<1> QED
  BY <1>2, Kept DEF Keeps, Sound, Good, q

ScreenSet == {"boot", "login", "list", "detail", "form"}

(***************************************************************************)
(* Screens, rows and dialogs                                               *)
(***************************************************************************)
\* Show: a screen of the vault is shown only while the view is lit, that of one
\* login only when one is chosen.
LEMMA ShowGood ==
  ASSUME NEW p, NEW d, Good(p, d), NEW x \in ScreenSet,
         x \in {"list", "detail", "form"} => Lit(p),
         x = "detail" => p.detail.id # None,
         x = "login" => ~p.unlocked \/ "overlaid" \in p.slips
  PROVE  LET q == Show(p, x) IN
         /\ Good(q, d) /\ Agree(p, q, Field \ {"screens"}) /\ q.screens = p.screens \cup {x}
         /\ \A b : Follows(p, b) => Follows(q, b)
         /\ Shown(p) /\ (x = "list" /\ p.rows.kind = "cards" => p.tab = "cards") => Shown(q)
<1> DEFINE q == Show(p, x)
<1>1. Agree(p, q, Field \ {"screens"}) /\ q.screens = p.screens \cup {x}
  BY DEF Good, Shape, Show, Field, Agree
<1> HIDE DEF q
<1>2. Agree(p, q, HoldsF) /\ Agree(p, q, AsksF) /\ (Lit(p) <=> Lit(q))
  BY <1>1 DEF Agree, Field, HoldsF, AsksF, Lit
<1>3. Shape(q)
  BY <1>1 DEF Good, Shape, Agree, Field, ScreenSet
<1>4. Chosen(q)
  BY <1>1 DEF Good, Chosen, Agree, Field, ScreenSet
<1>5. Closed(q)
  BY <1>1, <1>2 DEF Good, Closed, Empty, Agree, Field, ScreenSet
<1>6. Shown(p) /\ (x = "list" /\ p.rows.kind = "cards" => p.tab = "cards") => Shown(q)
  BY <1>1 DEF Shown, Agree, Field
<1> QED
  BY <1>1, <1>2, <1>3, <1>4, <1>5, <1>6, HoldsKept, AsksKept DEF Good, q

\* Hide keeps the popup good.
LEMMA HideGood ==
  ASSUME NEW p, NEW d, Good(p, d), NEW x
  PROVE  LET q == Hide(p, x) IN
         Keeps(p, q, d) /\ Agree(p, q, Field \ {"screens"}) /\ q.screens = p.screens \ {x}
<1> DEFINE q == Hide(p, x)
<1>1. Agree(p, q, Field \ {"screens"}) /\ q.screens = p.screens \ {x}
  BY DEF Good, Shape, Hide, Field, Agree
<1> HIDE DEF q
<1>2. Agree(p, q, HoldsF) /\ Agree(p, q, AsksF) /\ (Lit(p) <=> Lit(q)) /\ q.slips = p.slips
  BY <1>1 DEF Agree, Field, HoldsF, AsksF, Lit
<1>3. Shape(q)
  BY <1>1 DEF Good, Shape, Agree, Field
<1>4. Chosen(q)
  BY <1>1 DEF Good, Chosen, Agree, Field
<1>5. Closed(q)
  BY <1>1, <1>2 DEF Good, Closed, Empty, Agree, Field
<1>6. Shown(p) => Shown(q)
  BY <1>1 DEF Shown, Agree, Field
<1> QED
  BY <1>1, <1>2, <1>3, <1>4, <1>5, <1>6, HoldsKept, AsksKept DEF Good, Keeps, Sound, q

RowKinds == Tabs \cup {"blank", "loading", "reload", "failed"}

\* Paint: rows that are admitted, and of the section that is selected.
LEMMA PaintGood ==
  ASSUME NEW p, NEW d, Good(p, d), NEW kind \in RowKinds, NEW data \in Maybe(d.rows),
         ~Lit(p) => data = None
  PROVE  LET q == Paint(p, kind, data) IN
         /\ Good(q, d) /\ Agree(p, q, Field \ {"rows"}) /\ q.rows = Rows(kind, data)
         /\ \A b : Follows(p, b) => Follows(q, b)
         /\ (Lit(p) <=> Lit(q)) /\ q.slips = p.slips
         /\ (kind = "passwords" => p.tab = "passwords")
            /\ (kind = "cards" => ("list" \in p.screens => p.tab = "cards")) => Shown(q)
<1> DEFINE q == Paint(p, kind, data)
<1>1. Agree(p, q, Field \ {"rows"}) /\ q.rows = Rows(kind, data)
  BY DEF Good, Shape, Paint, Field, Agree
<1> HIDE DEF q
<1>2. Agree(p, q, ShapeF) /\ Agree(p, q, ChosenF) /\ Agree(p, q, AsksF) /\ (Lit(p) <=> Lit(q))
      /\ q.slips = p.slips
  BY <1>1 DEF Agree, Field, ShapeF, ChosenF, AsksF, Lit
<1>3. Holds(q, d)
  BY <1>1 DEF Good, Holds, HeldOf, Agree, Field, RowKinds, Rows
<1>4. Closed(q)
  BY <1>1, <1>2 DEF Good, Closed, Empty, Agree, Field, Rows
<1>5. (kind = "passwords" => p.tab = "passwords")
      /\ (kind = "cards" => ("list" \in p.screens => p.tab = "cards")) => Shown(q)
  BY <1>1 DEF Shown, Agree, Field, Rows
<1> QED
  BY <1>1, <1>2, <1>3, <1>4, <1>5, ShapeKept, ChosenKept, AsksKept DEF Good, q

\* Slip notes what happened, and changes nothing else.
LEMMA SlipGood ==
  ASSUME NEW p, NEW d, Good(p, d), NEW what \in {"overlaid", "astray", "deaf"}
  PROVE  LET q == Slip(p, what) IN
         Keeps(p, q, d) /\ Agree(p, q, Field \ {"slips"}) /\ q.slips = p.slips \cup {what}
<1> DEFINE q == Slip(p, what)
<1>1. Agree(p, q, Field \ {"slips"}) /\ q.slips = p.slips \cup {what}
  BY DEF Good, Shape, Slip, Field, Agree
<1> HIDE DEF q
<1>2. Agree(p, q, HoldsF) /\ Agree(p, q, ChosenF) /\ Agree(p, q, ShownF) /\ Agree(p, q, Calls)
      /\ (Lit(p) => Lit(q)) /\ q.detail.id = p.detail.id
  BY <1>1 DEF Agree, Field, HoldsF, ChosenF, ShownF, Calls, Lit
<1>3. Shape(q)
  BY <1>1 DEF Good, Shape, Agree, Field
<1>4. Closed(q)
  BY <1>1, <1>2 DEF Good, Closed, Empty, Agree, Field
<1> QED
  BY <1>1, <1>2, <1>3, <1>4, HoldsKept, ChosenKept, ShownKept, AsksLit DEF Good, Keeps, Sound, q

\* Finish gives the lock button back: when nothing is unlocked, that is a slip.
LEMMA FinishGood ==
  ASSUME NEW p, NEW d, Good(p, d), NEW chain
  PROVE  LET q == Finish(p, chain) IN
         Keeps(p, q, d) /\ Agree(p, q, Field \ {"slips", "lockBtn", "busy"})
<1> DEFINE q == Finish(p, chain)  r == IF p.unlocked THEN p ELSE Slip(p, "astray")
<1>1. CASE chain # "unlock"
  BY <1>1 DEF Finish, Keeps, Sound, Agree, Good, Shape
<1>2. CASE chain = "unlock"
  <2>1. Keeps(p, r, d) /\ Agree(p, r, Field \ {"slips"}) /\ Lit(r)
    <3>1. CASE p.unlocked
      BY <3>1 DEF Keeps, Sound, Agree, Good, Shape, Lit
    <3>2. CASE ~p.unlocked
      <4>1. r = Slip(p, "astray")
        BY <3>2
      <4>2. Keeps(p, r, d) /\ Agree(p, r, Field \ {"slips"}) /\ r.slips = p.slips \cup {"astray"}
        BY <4>1, SlipGood
      <4> QED
        BY <4>2 DEF Lit
    <3> QED
      BY <3>1, <3>2
  <2>2. q = [r EXCEPT !.lockBtn = TRUE, !.busy = FALSE]
    BY <1>2 DEF Finish
  <2> HIDE DEF r
  <2>3. Agree(r, q, Field \ {"lockBtn", "busy"}) /\ q.lockBtn = TRUE /\ q.busy = FALSE
    BY <2>1, <2>2 DEF Keeps, Sound, Good, Shape, Agree, Field
  <2> HIDE DEF q
  <2>4. Agree(r, q, HoldsF) /\ Agree(r, q, ChosenF) /\ Agree(r, q, ShownF) /\ Agree(r, q, AsksF)
        /\ Agree(p, q, Field \ {"slips", "lockBtn", "busy"}) /\ Lit(q)
        /\ q.slips = r.slips
    BY <2>1, <2>3 DEF Agree, Field, HoldsF, ChosenF, ShownF, AsksF, Lit
  <2>5. Shape(q)
    BY <2>1, <2>3 DEF Keeps, Sound, Good, Shape, Agree, Field
  <2>6. Closed(q)
    BY <2>1, <2>3 DEF Keeps, Sound, Good, Closed, Lit, Agree, Field
  <2> QED
    BY <2>1, <2>4, <2>5, <2>6, HoldsKept, ChosenKept, ShownKept, AsksKept DEF Good, Keeps, Sound, q
<1> QED
  BY <1>1, <1>2

\* ForgetCards (invalidateEntityCache) leaves no request that may fill the cache.
LEMMA ForgetCardsGood ==
  ASSUME NEW p, NEW d, Good(p, d)
  PROVE  LET q == ForgetCards(p) IN
         /\ Keeps(p, q, d) /\ Agree(p, q, ViewF \ {"cards"}) /\ q.cards = None /\ Cut(q, {"cache"})
         /\ \A x : Cut(p, x) => Cut(q, x)
<1> DEFINE r == Bump(p, {"cache"})  q == ForgetCards(p)
<1>1. Keeps(p, r, d) /\ Agree(p, r, ViewF) /\ Cut(r, {"cache"}) /\ \A x : Cut(p, x) => Cut(r, x)
  BY BumpGood
<1>2. q = [r EXCEPT !.cards = None]
  BY DEF ForgetCards
<1> HIDE DEF r
<1>3. Agree(r, q, Field \ {"cards"}) /\ q.cards = None
  BY <1>1, <1>2 DEF Keeps, Sound, Good, Shape, Agree, Field
<1> HIDE DEF q
<1>4. Agree(r, q, ShapeF) /\ Agree(r, q, ChosenF) /\ Agree(r, q, ShownF) /\ Agree(r, q, AsksF)
      /\ Agree(r, q, Calls) /\ Agree(p, q, ViewF \ {"cards"}) /\ (Lit(r) <=> Lit(q))
  BY <1>1, <1>3 DEF Agree, Field, ViewF, ShapeF, ChosenF, ShownF, AsksF, Calls, Lit
<1>5. Holds(q, d)
  BY <1>1, <1>3 DEF Keeps, Sound, Good, Holds, HeldOf, Agree, Field, Maybe
<1>6. Closed(q)
  BY <1>1, <1>3 DEF Keeps, Sound, Good, Closed, Empty, Lit, Agree, Field
<1>7. \A x : Cut(r, x) => Cut(q, x)
  BY <1>4, CutKept
<1> QED
  BY <1>1, <1>3, <1>4, <1>5, <1>6, <1>7, ShapeKept, ChosenKept, ShownKept, AsksKept DEF Good, Keeps, Sound, q

\* OpenDialog: only while the view is lit.
LEMMA OpenDialogGood ==
  ASSUME NEW p, NEW d, Good(p, d), Lit(p), NEW kind, NEW id, NEW data,
         [kind |-> kind, id |-> id, of |-> data] \in Dialogs(d)
  PROVE  LET q == OpenDialog(p, kind, id, data) IN
         Keeps(p, q, d) /\ Agree(p, q, Field \ {"dialogs"})
<1> DEFINE q == OpenDialog(p, kind, id, data)
<1>1. Agree(p, q, Field \ {"dialogs"})
      /\ q.dialogs = p.dialogs \cup {[kind |-> kind, id |-> id, of |-> data]}
  BY DEF Good, Shape, OpenDialog, Field, Agree
<1> HIDE DEF q
<1>2. Agree(p, q, ShapeF) /\ Agree(p, q, ChosenF) /\ Agree(p, q, ShownF) /\ Agree(p, q, AsksF)
      /\ Lit(q)
  BY <1>1 DEF Agree, Field, ShapeF, ChosenF, ShownF, AsksF, Lit
<1>3. Holds(q, d)
  BY <1>1 DEF Good, Holds, HeldOf, Agree, Field
<1>4. Closed(q)
  BY <1>1 DEF Good, Closed, Lit, Agree, Field
<1> QED
  BY <1>1, <1>2, <1>3, <1>4, ShapeKept, ChosenKept, ShownKept, AsksKept DEF Good, Keeps, Sound, q

(***************************************************************************)
(* The list and one login                                                  *)
(***************************************************************************)
\* ListInvalidate leaves no list.
LEMMA ListInvalidateGood ==
  ASSUME NEW p, NEW d, Good(p, d)
  PROVE  LET q == ListInvalidate(p) IN
         Keeps(p, q, d) /\ Agree(p, q, Field \ {"list", "old", "timers", "rows"}) /\ q.list = None
<1> DEFINE q == ListInvalidate(p)
<1>1. Agree(p, q, Field \ {"list", "old", "timers", "rows"}) /\ q.list = None
      /\ q.old = p.old \ {"list"} /\ q.timers = p.timers \ {"list"}
      /\ (q.rows = p.rows \/ q.rows = Rows("reload", None))
  BY DEF Good, Shape, ListInvalidate, Paint, Field, Agree
<1> HIDE DEF q
<1>2. Agree(p, q, ShapeF) /\ Agree(p, q, ChosenF) /\ Agree(p, q, AsksF) /\ (Lit(p) <=> Lit(q))
  BY <1>1 DEF Agree, Field, ShapeF, ChosenF, AsksF, Lit
<1>3. Holds(q, d)
  <2>1. q.rows \in [kind : Tabs \cup {"blank", "loading", "reload", "failed"}, of : Maybe(d.rows)]
    BY <1>1 DEF Good, Holds, Rows, Maybe
  <2>2. q.old \subseteq HeldOf(q) /\ q.timers \subseteq HeldOf(q)
    BY <1>1 DEF Good, Holds, HeldOf, Agree, Field
  <2> QED
    BY <1>1, <2>1, <2>2 DEF Good, Holds, Agree, Field, Maybe
<1>4. Closed(q)
  BY <1>1, <1>2 DEF Good, Closed, Empty, Agree, Field, Rows
<1>5. Shown(p) => Shown(q)
  BY <1>1 DEF Shown, Agree, Field, Rows
<1> QED
  BY <1>1, <1>2, <1>3, <1>4, <1>5, ShapeKept, ChosenKept, AsksKept DEF Good, Keeps, Sound, q

\* ListApply shows a list that is admitted, while the view is lit.
LEMMA ListApplyGood ==
  ASSUME NEW p, NEW d, Admits(d), Good(p, d), NEW s \in d.lists, Lit(p)
  PROVE  LET q == ListApply(p, s) IN
         /\ Keeps(p, q, d) /\ Agree(p, q, Field \ {"list", "old", "timers", "rows"})
         /\ OnPasswords(p) => Shown(q)
<1> DEFINE q == ListApply(p, s)
<1>1. Agree(p, q, Field \ {"list", "old", "timers", "rows"}) /\ q.list = s
      /\ q.old = p.old \ {"list"} /\ q.timers = p.timers \cup {"list"}
      /\ q.rows = (IF OnPasswords(p) THEN Rows("passwords", s) ELSE p.rows)
  BY DEF Good, Shape, ListApply, Paint, Field, Agree
<1> HIDE DEF q
<1>2. Agree(p, q, ShapeF) /\ Agree(p, q, ChosenF) /\ Agree(p, q, AsksF) /\ Lit(q)
  BY <1>1 DEF Agree, Field, ShapeF, ChosenF, AsksF, Lit
<1>3. Holds(q, d)
  <2>1. q.rows \in [kind : Tabs \cup {"blank", "loading", "reload", "failed"}, of : Maybe(d.rows)]
    BY <1>1 DEF Good, Holds, Rows, Maybe, Admits, Tabs
  <2>2. s # None
    BY DEF Admits
  <2>3. q.old \subseteq HeldOf(q) /\ q.timers \subseteq HeldOf(q)
    BY <1>1, <2>2 DEF Good, Holds, HeldOf, Agree, Field
  <2> QED
    BY <1>1, <2>1, <2>3 DEF Good, Holds, Agree, Field, Maybe
<1>4. Closed(q)
  BY <1>1, <1>2 DEF Good, Closed, Agree, Field
<1>5. (Shown(p) => Shown(q)) /\ (OnPasswords(p) => Shown(q))
  BY <1>1 DEF Shown, Agree, Field, Rows, OnPasswords
<1> QED
  BY <1>1, <1>2, <1>3, <1>4, <1>5, ShapeKept, ChosenKept, AsksKept DEF Good, Keeps, Sound, q

\* DetailInvalidate leaves no login, and makes every answer to come stale.  It needs
\* less than Good: the login held may be of another id than the one now open.
LEMMA DetailInvalidateGood ==
  ASSUME NEW p, NEW d, Shape(p), Holds(p, d), Closed(p), Asks(p, d),
         p.form.from # None => p.form.from.id = p.form.editing,
         "detail" \in p.screens => p.detail.id # None
  PROVE  LET q == DetailInvalidate(p) IN
         /\ Keeps(p, q, d) /\ Agree(p, q, ViewF \ {"detail", "old", "timers"})
         /\ q.detail = [id |-> p.detail.id, login |-> None, revealed |-> FALSE]
         /\ Cut(q, {"revision"}) /\ \A x : Cut(p, x) => Cut(q, x)
<1> DEFINE r == Bump(p, {"revision"})  q == DetailInvalidate(p)
<1>1. /\ Asks(r, d) /\ Agree(p, r, ViewF) /\ Cut(r, {"revision"}) /\ \A x : Cut(p, x) => Cut(r, x)
      /\ \A b : Follows(p, b) => Follows(r, b)
  BY BumpAsks DEF Shape
<1>2. q = [r EXCEPT !.detail.login = None, !.detail.revealed = FALSE,
                    !.old = @ \ {"detail"}, !.timers = @ \ {"detail"}]
  BY DEF DetailInvalidate
<1> HIDE DEF r
<1>3. Agree(r, q, Field \ {"detail", "old", "timers"})
      /\ q.detail = [r.detail EXCEPT !.login = None, !.revealed = FALSE]
      /\ q.old = r.old \ {"detail"} /\ q.timers = r.timers \ {"detail"}
  BY <1>1, <1>2 DEF Shape, Agree, Field
<1> HIDE DEF q
<1>4. q.detail = [id |-> p.detail.id, login |-> None, revealed |-> FALSE]
  BY <1>1, <1>3 DEF Holds, Agree, ViewF
<1>5. Agree(p, q, ViewF \ {"detail", "old", "timers"}) /\ Agree(r, q, Calls)
      /\ q.old = p.old \ {"detail"} /\ q.timers = p.timers \ {"detail"}
  BY <1>1, <1>3 DEF Agree, ViewF, Field, Calls
<1>6. Agree(p, q, ShapeF) /\ Agree(p, q, ShownF) /\ (Lit(q) <=> Lit(r)) /\ (Lit(q) <=> Lit(p))
  BY <1>1, <1>5 DEF Agree, ViewF, ShapeF, ShownF, Lit
<1>7. Holds(q, d)
  <2>1. q.old \subseteq HeldOf(q) /\ q.timers \subseteq HeldOf(q)
    BY <1>4, <1>5 DEF Holds, HeldOf, Agree, ViewF
  <2>2. q.detail \in [id : Maybe(Login), login : Maybe(d.logins), revealed : BOOLEAN]
    BY <1>4 DEF Holds, Maybe
  <2> QED
    BY <1>4, <1>5, <2>1, <2>2 DEF Holds, Agree, ViewF
<1>8. Chosen(q)
  BY <1>4, <1>5 DEF Chosen, Agree, ViewF
<1>9. Closed(q)
  BY <1>4, <1>5, <1>6 DEF Closed, Empty, Agree, ViewF
<1>10. Asks(q, d) /\ \A b : Follows(r, b) => Follows(q, b)
  <2>1. q.detail.id = r.detail.id
    BY <1>1, <1>4 DEF Agree, ViewF
  <2> QED
    BY <1>1, <1>5, <1>6, <2>1, AsksLit
<1>11. \A x : Cut(r, x) => Cut(q, x)
  BY <1>5, CutKept
<1> QED
  BY <1>1, <1>4, <1>5, <1>6, <1>7, <1>8, <1>9, <1>10, <1>11, ShapeKept, ShownKept DEF Good, Keeps, Sound, q

\* DetailInvalidate keeps the popup good.
LEMMA DetailInvalidated ==
  ASSUME NEW p, NEW d, Good(p, d)
  PROVE  LET q == DetailInvalidate(p) IN
         /\ Keeps(p, q, d) /\ Agree(p, q, ViewF \ {"detail", "old", "timers"})
         /\ q.detail = [id |-> p.detail.id, login |-> None, revealed |-> FALSE]
         /\ \A x : Cut(p, x) => Cut(q, x)
BY DetailInvalidateGood DEF Good, Chosen

\* DetailApply holds a login that is admitted and that was opened.
LEMMA DetailApplyGood ==
  ASSUME NEW p, NEW d, Admits(d), Good(p, d), NEW login \in Maybe(d.logins),
         login # None => Lit(p) /\ login.id = p.detail.id
  PROVE  LET q == DetailApply(p, login) IN
         /\ Keeps(p, q, d) /\ Agree(p, q, ViewF \ {"detail", "old", "timers"})
         /\ q.detail = [id |-> p.detail.id, login |-> login, revealed |-> FALSE]
<1> DEFINE q == DetailApply(p, login)
<1>1. CASE login = None
  BY <1>1, DetailInvalidated DEF DetailApply
<1>2. CASE login # None
  <2>1. Agree(p, q, Field \ {"detail", "old", "timers"})
        /\ q.detail = [p.detail EXCEPT !.login = login, !.revealed = FALSE]
        /\ q.old = p.old \ {"detail"} /\ q.timers = p.timers \cup {"detail"}
    BY <1>2 DEF DetailApply, Good, Shape, Agree, Field
  <2> HIDE DEF q
  <2>2. q.detail = [id |-> p.detail.id, login |-> login, revealed |-> FALSE]
    BY <2>1 DEF Good, Holds
  <2>3. Agree(p, q, ShapeF) /\ Agree(p, q, ShownF) /\ Agree(p, q, Calls) /\ Lit(q)
        /\ Agree(p, q, ViewF \ {"detail", "old", "timers"}) /\ q.detail.id = p.detail.id
    BY <1>2, <2>1, <2>2 DEF Agree, Field, ViewF, ShapeF, ShownF, Calls, Lit
  <2>4. Holds(q, d)
    <3>1. q.old \subseteq HeldOf(q) /\ q.timers \subseteq HeldOf(q)
      BY <1>2, <2>1, <2>2 DEF Good, Holds, HeldOf, Agree, Field
    <3>2. q.detail \in [id : Maybe(Login), login : Maybe(d.logins), revealed : BOOLEAN]
      BY <2>2 DEF Good, Holds, Maybe
    <3> QED
      BY <2>1, <2>2, <3>1, <3>2 DEF Good, Holds, Agree, Field
  <2>5. Chosen(q)
    BY <1>2, <2>1, <2>2 DEF Good, Chosen, Agree, Field
  <2>6. Closed(q)
    BY <2>1, <2>3 DEF Good, Closed, Agree, Field
  <2> QED
    BY <2>2, <2>3, <2>4, <2>5, <2>6, ShapeKept, ShownKept, AsksLit DEF Good, Keeps, Sound, q
<1> QED
  BY <1>1, <1>2

\* DetailOpen: the login held before is gone, and no late answer is shown.
LEMMA DetailOpenGood ==
  ASSUME NEW p, NEW d, Good(p, d), Lit(p), NEW id \in Login
  PROVE  LET q == DetailOpen(p, id) IN
         /\ Keeps(p, q, d) /\ Agree(p, q, ViewF \ {"detail", "old", "timers", "screens"})
         /\ q.detail = [id |-> id, login |-> None, revealed |-> FALSE] /\ "list" \notin q.screens
<1> DEFINE r == Bump(p, {"render"})  s == [r EXCEPT !.detail.id = id]  t == DetailInvalidate(s)
           u == Hide(t, "list")  q == Show(u, "detail")
<1>1. Keeps(p, r, d) /\ Agree(p, r, ViewF) /\ Cut(r, {"render"})
  BY BumpGood
<1> HIDE DEF r
<1>2. Agree(r, s, Field \ {"detail"}) /\ s.detail = [r.detail EXCEPT !.id = id]
  BY <1>1 DEF Keeps, Sound, Good, Shape, Agree, Field
<1>3. s.detail.id = id /\ s.detail.login = r.detail.login
      /\ s.detail \in [id : Maybe(Login), login : Maybe(d.logins), revealed : BOOLEAN]
      /\ s.detail.revealed = r.detail.revealed
  BY <1>1, <1>2 DEF Keeps, Sound, Good, Holds, Maybe
<1> HIDE DEF s
<1>4. Agree(r, s, ShapeF) /\ Agree(r, s, ShownF) /\ Agree(r, s, Calls) /\ (Lit(s) <=> Lit(r))
      /\ (Lit(r) <=> Lit(p))
  BY <1>1, <1>2 DEF Agree, Field, ViewF, ShapeF, ShownF, Calls, Lit
<1>5. Holds(s, d)
  BY <1>1, <1>2, <1>3 DEF Keeps, Sound, Good, Holds, HeldOf, Agree, Field
<1>6. Closed(s)
  BY <1>1, <1>2, <1>4 DEF Keeps, Sound, Good, Closed, Agree, Field
<1>7. Asks(s, d) /\ \A b : Follows(r, b) => Follows(s, b)
  BY <1>1, <1>4, AsksMoved DEF Keeps, Sound, Good
<1>8. /\ s.form.from # None => s.form.from.id = s.form.editing
      /\ s.detail.id # None
  BY <1>1, <1>2, <1>3, ConstantAssumption DEF Keeps, Sound, Good, Chosen, Agree, Field
<1>9. Keeps(s, t, d) /\ Agree(s, t, ViewF \ {"detail", "old", "timers"})
      /\ t.detail = [id |-> s.detail.id, login |-> None, revealed |-> FALSE]
  BY <1>1, <1>4, <1>5, <1>6, <1>7, <1>8, ShapeKept, DetailInvalidateGood DEF Keeps, Sound, Good
<1> HIDE DEF t
<1>10. Keeps(t, u, d) /\ Agree(t, u, Field \ {"screens"}) /\ u.screens = t.screens \ {"list"}
  BY <1>9, HideGood DEF Keeps, Sound
<1> HIDE DEF u
<1>11. u.detail = [id |-> id, login |-> None, revealed |-> FALSE] /\ Lit(u)
  BY <1>3, <1>4, <1>9, <1>10 DEF Agree, Field, ViewF, Lit
<1>12. Good(q, d) /\ Agree(u, q, Field \ {"screens"}) /\ (Shown(u) => Shown(q))
       /\ q.screens = u.screens \cup {"detail"} /\ \A b : Follows(u, b) => Follows(q, b)
  <2>1. Good(u, d) /\ u.detail.id # None /\ "detail" \in ScreenSet
    BY <1>8, <1>3, <1>10, <1>11 DEF Keeps, Sound, ScreenSet
  <2> QED
    BY <1>11, <2>1, ShowGood
<1> HIDE DEF q
<1>13. Agree(p, q, ViewF \ {"detail", "old", "timers", "screens"})
  BY <1>1, <1>2, <1>9, <1>10, <1>12 DEF Agree, Field, ViewF
<1>14. q.detail = [id |-> id, login |-> None, revealed |-> FALSE]
  BY <1>11, <1>12 DEF Agree, Field
<1>15. Shown(p) => Shown(q)
  BY <1>1, <1>4, <1>9, <1>10, <1>12, ShownKept DEF Keeps, Sound
<1>16. q = DetailOpen(p, id)
  BY DEF q, u, t, s, r, DetailOpen
<1>17. Lit(q) /\ p.slips \subseteq q.slips
  BY <1>11, <1>12, <1>13 DEF Lit, Agree, Field, ViewF
<1>18. \A b : Follows(p, b) => Follows(q, b)
  BY <1>1, <1>7, <1>9, <1>10, <1>12 DEF Keeps
<1> QED
  BY <1>18, <1>10, <1>12, <1>13, <1>14, <1>15, <1>16, <1>17 DEF Keeps, Sound

(***************************************************************************)
(* The requests the popup makes                                            *)
(***************************************************************************)
\* Requests that carry and open nothing.
LEMMA PlainRequest ==
  ASSUME NEW what \in {"bootstrap", "status", "login", "logout"}, NEW use, use # "migrate",
         NEW arg, NEW chain, NEW lit, NEW id, NEW d
  PROVE  NewCall(Request(what, use, arg, chain), lit, id, d)
<1> DEFINE c == Request(what, use, arg, chain)
<1>1. DOMAIN c = {"what", "use", "arg", "chain", "fresh", "got"} /\ c.what = what /\ c.use = use
      /\ c.arg = arg /\ c.got = None /\ c.fresh \subseteq Counter
  BY DEF Request, Compares, Counter
<1> HIDE DEF c
<1>2. Kinds(c)
  BY <1>1 DEF Kinds, Mutations, ItemMutations
<1>3. ~Opens(c) /\ Carries(c, id, d)
  BY <1>1 DEF Opens, NeedsView, NeedsRender, Carries, Mutations
<1> QED
  BY <1>1, <1>2, <1>3 DEF NewCall, CallOk, Began, c

\* Requests of the migration.
LEMMA MigrationRequest ==
  ASSUME NEW what \in {"local", "forget local", "items", "create item"}, NEW arg, NEW chain,
         what = "create item" => arg \in Card, NEW lit, NEW id, NEW d
  PROVE  NewCall(Request(what, "migrate", arg, chain), lit, id, d)
<1> DEFINE c == Request(what, "migrate", arg, chain)
<1>1. DOMAIN c = {"what", "use", "arg", "chain", "fresh", "got"} /\ c.what = what /\ c.use = "migrate"
      /\ c.arg = arg /\ c.got = None /\ c.fresh \subseteq Counter
  BY DEF Request, Compares, Counter
<1> HIDE DEF c
<1>2. Kinds(c)
  BY <1>1 DEF Kinds, Mutations, ItemMutations, Maybe
<1>3. ~Opens(c) /\ Carries(c, id, d)
  BY <1>1 DEF Opens, NeedsView, NeedsRender, Carries, Mutations
<1> QED
  BY <1>1, <1>2, <1>3 DEF NewCall, CallOk, Began, c

\* The list of logins.
LEMMA ListRequest ==
  ASSUME NEW use, use # "migrate", NEW chain, NEW id, NEW d, NEW lit, lit
  PROVE  NewCall(Request("list", use, None, chain), lit, id, d)
<1> DEFINE c == Request("list", use, None, chain)
<1>1. DOMAIN c = {"what", "use", "arg", "chain", "fresh", "got"} /\ c.what = "list" /\ c.use = use
      /\ c.arg = None /\ c.got = None /\ c.fresh \subseteq Counter
  BY DEF Request, Compares, Counter
<1> HIDE DEF c
<1>2. Kinds(c)
  BY <1>1 DEF Kinds, Mutations, ItemMutations, Maybe
<1>3. Carries(c, id, d)
  BY <1>1 DEF Carries
<1> QED
  BY <1>1, <1>2, <1>3 DEF NewCall, CallOk, Began, c

\* The login that is open.
LEMMA LoginRequest ==
  ASSUME NEW use \in {"show", "refresh", "reveal", "edit"}, NEW id \in Login, NEW chain, NEW d,
         NEW lit, lit
  PROVE  NewCall(Request("login entry", use, id, chain), lit, id, d)
<1> DEFINE c == Request("login entry", use, id, chain)
<1>1. DOMAIN c = {"what", "use", "arg", "chain", "fresh", "got"} /\ c.what = "login entry" /\ c.use = use
      /\ c.arg = id /\ c.got = None /\ c.fresh \subseteq Counter
  BY DEF Request, Compares, Counter
<1> HIDE DEF c
<1>2. Kinds(c)
  BY <1>1 DEF Kinds, Mutations, ItemMutations, Maybe
<1>3. Carries(c, id, d)
  BY <1>1 DEF Carries
<1> QED
  BY <1>1, <1>2, <1>3 DEF NewCall, CallOk, Began, c

\* The login that was open when the popup was closed, with the list to show instead.
LEMMA RestoreRequest ==
  ASSUME NEW id \in Login, NEW chain, NEW d, Admits(d), NEW s \in Maybe(d.lists), NEW lit, lit
  PROVE  NewCall([Request("login entry", "restore", id, chain) EXCEPT !.got = s], lit, id, d)
<1> DEFINE b == Request("login entry", "restore", id, chain)  c == [b EXCEPT !.got = s]
<1>1. DOMAIN b = {"what", "use", "arg", "chain", "fresh", "got"} /\ b.what = "login entry"
      /\ b.use = "restore" /\ b.arg = id /\ b.fresh \subseteq Counter
  BY DEF Request, Compares, Counter
<1> HIDE DEF b
<1>2. DOMAIN c = {"what", "use", "arg", "chain", "fresh", "got"} /\ c.what = "login entry"
      /\ c.use = "restore" /\ c.arg = id /\ c.fresh \subseteq Counter /\ c.got = s
  BY <1>1
<1> HIDE DEF c
<1>3. Kinds(c)
  BY <1>2 DEF Kinds, Mutations, ItemMutations
<1>4. Carries(c, id, d)
  BY <1>2 DEF Carries, Maybe, Admits
<1> QED
  BY <1>2, <1>3, <1>4 DEF NewCall, CallOk, Began, c, b

\* Which login was open when the popup was closed.
LEMMA ResumeRequest ==
  ASSUME NEW d, Admits(d), NEW s \in Maybe(d.lists), NEW chain, NEW id, NEW lit, lit
  PROVE  NewCall(Request("resume", "show", s, chain), lit, id, d)
<1> DEFINE c == Request("resume", "show", s, chain)
<1>1. DOMAIN c = {"what", "use", "arg", "chain", "fresh", "got"} /\ c.what = "resume" /\ c.use = "show"
      /\ c.arg = s /\ c.got = None /\ c.fresh \subseteq Counter
  BY DEF Request, Compares, Counter
<1> HIDE DEF c
<1>2. Kinds(c)
  BY <1>1 DEF Kinds, Mutations, ItemMutations
<1>3. Carries(c, id, d)
  BY <1>1 DEF Carries, Maybe, Admits
<1> QED
  BY <1>1, <1>2, <1>3 DEF NewCall, CallOk, Began, c

\* The cards.
LEMMA CardsRequest ==
  ASSUME NEW use \in {"render", "edit", "delete"}, NEW arg, use # "render" => arg \in Item,
         NEW chain, NEW id, NEW d, NEW lit, lit
  PROVE  LET c == Request("items", use, arg, chain)
         IN  CallOk(c, lit, id, d) /\ Waits(c)
<1> DEFINE c == Request("items", use, arg, chain)
<1>1. DOMAIN c = {"what", "use", "arg", "chain", "fresh", "got"} /\ c.what = "items" /\ c.use = use
      /\ c.arg = arg /\ c.got = None /\ c.fresh \subseteq Counter
  BY DEF Request, Compares, Counter
<1> HIDE DEF c
<1>2. Kinds(c) /\ Waits(c)
  BY <1>1 DEF Kinds, Mutations, ItemMutations, Maybe, Waits
<1>3. Carries(c, id, d)
  BY <1>1 DEF Carries
<1> QED
  BY <1>2, <1>3 DEF CallOk, c

\* A change of a login.
LEMMA ChangeRequest ==
  ASSUME NEW what \in Mutations, NEW use, use \notin {"migrate"}, NEW arg,
         what # "create" => arg \in Login, NEW chain, NEW id, NEW d, NEW lit, lit
  PROVE  NewCall(Request(what, use, arg, chain), lit, id, d)
<1> DEFINE c == Request(what, use, arg, chain)
<1>1. DOMAIN c = {"what", "use", "arg", "chain", "fresh", "got"} /\ c.what = what /\ c.use = use
      /\ c.arg = arg /\ c.got = None /\ c.fresh \subseteq Counter
  BY DEF Request, Compares, Counter
<1> HIDE DEF c
<1>2. Kinds(c)
  BY <1>1 DEF Kinds, Mutations, ItemMutations, Maybe
<1>3. Carries(c, id, d)
  BY <1>1 DEF Carries, Mutations
<1> QED
  BY <1>1, <1>2, <1>3 DEF NewCall, CallOk, Began, c

\* A change of a card.
LEMMA CardChangeRequest ==
  ASSUME NEW what \in ItemMutations, NEW use, use \notin {"migrate"}, NEW arg,
         what = "create item" => arg \in Card,
         what = "update item" => arg \in [id : Item, card : Card],
         what = "delete item" => arg \in Item, NEW chain, NEW id, NEW d, NEW lit, lit
  PROVE  NewCall(Request(what, use, arg, chain), lit, id, d)
<1> DEFINE c == Request(what, use, arg, chain)
<1>1. DOMAIN c = {"what", "use", "arg", "chain", "fresh", "got"} /\ c.what = what /\ c.use = use
      /\ c.arg = arg /\ c.got = None /\ c.fresh \subseteq Counter
  BY DEF Request, Compares, Counter
<1> HIDE DEF c
<1>2. Kinds(c)
  BY <1>1 DEF Kinds, Mutations, ItemMutations, Maybe
<1>3. Carries(c, id, d)
  BY <1>1 DEF Carries, ItemMutations
<1> QED
  BY <1>1, <1>2, <1>3 DEF NewCall, CallOk, Began, c

(***************************************************************************)
(* The cards                                                               *)
(***************************************************************************)
\* CardsShown: rows or a dialog, of cards that are admitted.
LEMMA CardsShownGood ==
  ASSUME NEW p, NEW d, Good(p, d), NEW c, NEW r, c.use \in {"render", "edit", "delete"},
         c.use # "render" => c.arg \in Item,
         r.code = "ok" /\ (c.use = "render" => "render" \in c.fresh) => Lit(p) /\ r.data \in d.rows
  PROVE  Keeps(p, CardsShown(p, c, r), d)
<1> DEFINE q == CardsShown(p, c, r)
<1>0. Keeps(p, p, d)
  BY DEF Keeps, Sound
<1>1. CASE c.use = "render"
  <2>1. CASE "render" \notin c.fresh \/ (r.code = "ok" /\ p.tab # "cards") \/ r.code = "lost"
    BY <1>0, <1>1, <2>1 DEF CardsShown
  <2>2. CASE "render" \in c.fresh /\ r.code = "ok" /\ p.tab = "cards"
    <3>1. q = Paint(p, "cards", r.data)
      BY <1>1, <2>2 DEF CardsShown
    <3>2. "cards" \in RowKinds /\ r.data \in Maybe(d.rows) /\ Lit(p)
      BY <2>2 DEF RowKinds, Tabs, Maybe
    <3> QED
      BY <2>2, <3>1, <3>2, PaintGood DEF Keeps, Sound
  <2>3. CASE "render" \in c.fresh /\ r.code \notin {"ok", "lost"}
    <3>1. q = Paint(p, "failed", None)
      BY <1>1, <2>3 DEF CardsShown
    <3>2. "failed" \in RowKinds /\ None \in Maybe(d.rows)
      BY DEF RowKinds, Maybe
    <3> QED
      BY <3>1, <3>2, PaintGood DEF Keeps, Sound
  <2> QED
    BY <2>1, <2>2, <2>3
<1>2. CASE c.use \in {"edit", "delete"}
  <2>1. CASE r.code = "ok" /\ r.data.of[c.arg] # None
    <3> DEFINE kind == IF c.use = "edit" THEN "edit card" ELSE "delete card"
    <3>1. q = OpenDialog(p, kind, c.arg, r.data)
      BY <1>2, <2>1 DEF CardsShown
    <3>2. [kind |-> kind, id |-> c.arg, of |-> r.data] \in Dialogs(d)
      BY <1>2, <2>1 DEF Dialogs, CardDialog
    <3>3. Lit(p)
      BY <1>2, <2>1
    <3> HIDE DEF kind
    <3> QED
      BY <3>1, <3>2, <3>3, OpenDialogGood
  <2>2. CASE ~(r.code = "ok" /\ r.data.of[c.arg] # None)
    BY <1>0, <1>2, <2>2 DEF CardsShown
  <2> QED
    BY <2>1, <2>2
<1> QED
  BY <1>1, <1>2

\* CardsListed: the cache is filled only by an answer that is not stale.
LEMMA CardsListedGood ==
  ASSUME NEW p, NEW d, Admits(d), Good(p, d), NEW c, NEW r, c.use \in {"render", "edit", "delete"},
         c.use # "render" => c.arg \in Item,
         r.code = "ok" /\ (c.use = "render" => "render" \in c.fresh) => Lit(p) /\ r.data \in d.rows,
         r.code = "ok" /\ "cache" \in c.fresh => Lit(p) /\ r.data \in d.cards
  PROVE  Keeps(p, CardsListed(p, c, r), d)
<1> DEFINE q == IF r.code = "ok" /\ "cache" \in c.fresh THEN [p EXCEPT !.cards = r.data] ELSE p
           s == CardsShown(q, c, r)
<1>1. Keeps(p, q, d) /\ (Lit(p) => Lit(q))
  <2>1. CASE r.code = "ok" /\ "cache" \in c.fresh
    <3>1. q = [p EXCEPT !.cards = r.data]
      BY <2>1
    <3> HIDE DEF q
    <3>2. Agree(p, q, Field \ {"cards"}) /\ q.cards = r.data
      BY <3>1 DEF Good, Shape, Agree, Field
    <3>3. Agree(p, q, ShapeF) /\ Agree(p, q, ChosenF) /\ Agree(p, q, ShownF) /\ Agree(p, q, AsksF) /\ Lit(q)
      BY <2>1, <3>2 DEF Agree, Field, ShapeF, ChosenF, ShownF, AsksF, Lit
    <3>4. Holds(q, d)
      BY <2>1, <3>2 DEF Good, Holds, HeldOf, Agree, Field, Maybe
    <3>5. Closed(q)
      BY <3>2, <3>3 DEF Good, Closed, Agree, Field
    <3> QED
      BY <3>3, <3>4, <3>5, ShapeKept, ChosenKept, ShownKept, AsksKept DEF Good, Keeps, Sound
  <2>2. CASE ~(r.code = "ok" /\ "cache" \in c.fresh)
    BY <2>2 DEF Keeps, Sound
  <2> QED
    BY <2>1, <2>2
<1> HIDE DEF q
<1>2. Keeps(q, s, d)
  BY <1>1, CardsShownGood DEF Keeps, Sound
<1> HIDE DEF s
<1>3. Keeps(s, Finish(s, c.chain), d)
  BY <1>2, FinishGood DEF Keeps, Sound
<1>4. CardsListed(p, c, r) = Finish(s, c.chain)
  BY DEF CardsListed, s, q
<1> QED
  BY <1>1, <1>2, <1>3, <1>4 DEF Keeps, Sound

\* CardsFetch, from the cache or with a request.
LEMMA CardsFetchGood ==
  ASSUME NEW p, NEW d, Admits(d), Good(p, d), NEW c, CallOk(c, Lit(p), p.detail.id, d), Waits(c)
  PROVE  Keeps(p, CardsFetch(c, p), d)
<1>0. c.use \in {"render", "edit", "delete"} /\ (c.use # "render" => c.arg \in Item)
      /\ c.what = "items"
  BY DEF Waits, CallOk, Kinds
<1>1. CASE p.cards # None
  <2> DEFINE r == Ok(p.cards)  s == CardsShown(p, c, r)
  <2>1. r.code = "ok" /\ r.data = p.cards
    BY DEF Ok
  <2> HIDE DEF r
  <2>2. Lit(p) /\ p.cards \in d.rows
    BY <1>1 DEF Good, Closed, Empty, Holds, Maybe, Admits
  <2>3. Keeps(p, s, d)
    BY <1>0, <2>1, <2>2, CardsShownGood
  <2>4. CardsFetch(c, p) = Finish(s, c.chain)
    BY <1>1 DEF CardsFetch, r
  <2> HIDE DEF s
  <2> QED
    BY <2>3, <2>4, FinishGood DEF Keeps, Sound
<1>2. CASE p.cards = None
  <2> DEFINE q == IF ~p.unlocked /\ c.use # "render" THEN Slip(p, "astray") ELSE p
             b == [c EXCEPT !.fresh = @ \cup {"view", "session"}]
  <2>1. CardsFetch(c, p) = SendCall(q, b)
    BY <1>2 DEF CardsFetch
  <2>2. Keeps(p, q, d) /\ (Lit(p) => Lit(q)) /\ (c.use # "render" => Lit(q)) /\ q.detail.id = p.detail.id
    <3>1. CASE ~p.unlocked /\ c.use # "render"
      <4>1. q = Slip(p, "astray")
        BY <3>1
      <4> HIDE DEF q
      <4>2. Keeps(p, q, d) /\ Agree(p, q, Field \ {"slips"}) /\ q.slips = p.slips \cup {"astray"}
        BY <4>1, SlipGood
      <4> QED
        BY <4>2 DEF Lit, Agree, Field
    <3>2. CASE ~(~p.unlocked /\ c.use # "render")
      BY <3>2 DEF Keeps, Sound, Lit, Good, Shape
    <3> QED
      BY <3>1, <3>2
  <2>3. DOMAIN b = DOMAIN c /\ b.what = c.what /\ b.use = c.use /\ b.arg = c.arg /\ b.got = c.got
        /\ b.fresh = c.fresh \cup {"view", "session"}
    BY DEF CallOk, Kinds
  <2> HIDE DEF b, q
  <2>4. Kinds(b)
    BY <1>0, <2>3 DEF CallOk, Kinds, Counter
  <2>5. Carries(b, q.detail.id, d)
    BY <1>0, <2>3 DEF Carries
  <2>6. Opens(b) => Lit(q)
    BY <1>0, <2>2, <2>3 DEF CallOk, Opens, NeedsView, NeedsRender, Mutations
  <2>7. NewCall(b, Lit(q), q.detail.id, d)
    BY <2>3, <2>4, <2>5, <2>6 DEF NewCall, Began, Waits, CallOk
  <2> QED
    BY <2>1, <2>2, <2>7, SendGood DEF Keeps, Sound
<1> QED
  BY <1>1, <1>2

\* A request for cards waits for the migration.
LEMMA WaitGood ==
  ASSUME NEW p, NEW d, Good(p, d), NEW c, CallOk(c, Lit(p), p.detail.id, d), Waits(c)
  PROVE  LET q == [p EXCEPT !.waiting = Append(@, c)]
         IN  Keeps(p, q, d) /\ Agree(p, q, ViewF)
<1> DEFINE q == [p EXCEPT !.waiting = Append(@, c)]
<1>1. Agree(p, q, ViewF \cup {"sent", "inbox"}) /\ q.waiting = Append(p.waiting, c)
  BY DEF Good, Shape, Field, ViewF, Agree
<1> HIDE DEF q
<1>2. Agree(p, q, ViewF) /\ Agree(p, q, {"sent", "inbox", "detail"}) /\ (Lit(q) <=> Lit(p))
  BY <1>1 DEF Agree, ViewF, Lit
<1>3. AsksWaiting(q.waiting, Lit(q), q.detail.id, d)
  BY <1>1, <1>2, Appended, CallLit DEF AsksWaiting, Good, Asks, Agree
<1>4. Asks(q, d)
  BY <1>2, <1>3, CallLit DEF Good, Asks, Agree, AsksSent, AsksInbox, InboxOk
<1>5. \A b : Follows(p, b) => Follows(q, b)
  BY <1>2, FollowsKept DEF Agree
<1> QED
  BY <1>1, <1>2, <1>4, Kept, <1>5 DEF Keeps, Sound, Good, q

\* The state of the migration may change.
LEMMA MigrationSet ==
  ASSUME NEW p, NEW d, Good(p, d), NEW x \in {"no", "running", "done"}
  PROVE  LET q == [p EXCEPT !.migration = x]
         IN  Keeps(p, q, d) /\ Agree(p, q, Field \ {"migration"})
<1> DEFINE q == [p EXCEPT !.migration = x]
<1>1. Agree(p, q, Field \ {"migration"}) /\ q.migration = x
  BY DEF Good, Shape, Field, Agree
<1> HIDE DEF q
<1>2. Agree(p, q, HoldsF) /\ Agree(p, q, ChosenF) /\ Agree(p, q, ShownF) /\ Agree(p, q, AsksF)
      /\ Agree(p, q, ClosedF) /\ (Lit(p) <=> Lit(q))
  BY <1>1 DEF Agree, Field, HoldsF, ChosenF, ShownF, AsksF, ClosedF, Lit
<1>3. Shape(q)
  BY <1>1 DEF Good, Shape, Agree, Field
<1> QED
  BY <1>1, <1>2, <1>3, HoldsKept, ChosenKept, ShownKept, AsksKept, ClosedKept DEF Good, Keeps, Sound, q

\* CardsList: at once, or after the migration.
LEMMA CardsListGood ==
  ASSUME NEW p, NEW d, Admits(d), Good(p, d), Lit(p), NEW use \in {"render", "edit", "delete"},
         NEW id, use # "render" => id \in Item, NEW chain
  PROVE  Keeps(p, CardsList(p, use, id, chain), d)
<1> DEFINE c == Request("items", use, id, chain)  q == [p EXCEPT !.waiting = Append(@, c)]
           s == Send(q, "local", "migrate", None)
<1>1. CallOk(c, Lit(p), p.detail.id, d) /\ Waits(c)
  BY CardsRequest
<1> HIDE DEF c
<1>2. Keeps(p, q, d)
  BY <1>1, WaitGood
<1>3. CASE p.migration = "done"
  <2>1. CardsList(p, use, id, chain) = CardsFetch(c, p)
    BY <1>3 DEF CardsList, c
  <2> QED
    BY <1>1, <2>1, CardsFetchGood
<1>4. CASE p.migration = "no"
  <2>1. CardsList(p, use, id, chain) = [s EXCEPT !.migration = "running"]
    BY <1>4 DEF CardsList, c
  <2> HIDE DEF q
  <2>2. Keeps(q, s, d)
    BY <1>2, SendGood, MigrationRequest DEF Keeps, Sound, Send
  <2> HIDE DEF s
  <2>3. "running" \in {"no", "running", "done"}
    OBVIOUS
  <2>4. Keeps(s, [s EXCEPT !.migration = "running"], d)
    BY <2>2, <2>3, MigrationSet DEF Keeps, Sound
  <2> QED
    BY <1>2, <2>1, <2>2, <2>4 DEF Keeps, Sound
<1>5. CASE p.migration = "running"
  <2>1. CardsList(p, use, id, chain) = q
    BY <1>5 DEF CardsList, c
  <2> QED
    BY <1>2, <2>1
<1> QED
  BY <1>3, <1>4, <1>5 DEF Good, Shape

\* RenderCards keeps the popup good.
LEMMA RenderCardsGood ==
  ASSUME NEW p, NEW d, Admits(d), Good(p, d), Lit(p), NEW chain
  PROVE  Keeps(p, RenderCards(p, chain), d)
<1> DEFINE q == Bump(p, {"render"})
<1>1. Keeps(p, q, d) /\ Agree(p, q, ViewF)
  BY BumpGood
<1>2. RenderCards(p, chain) = CardsList(q, "render", None, chain)
  BY DEF RenderCards
<1> HIDE DEF q
<1>3. Lit(q)
  BY <1>1 DEF Lit, Agree, ViewF
<1>4. Keeps(q, CardsList(q, "render", None, chain), d)
  BY <1>1, <1>3, CardsListGood DEF Keeps, Sound
<1> QED
  BY <1>1, <1>2, <1>4 DEF Keeps, Sound

\* Filter shows the section that is selected.
LEMMA FilterGood ==
  ASSUME NEW p, NEW d, Admits(d), Good(p, d), Lit(p)
  PROVE  LET q == Filter(p) IN Keeps(p, q, d) /\ (p.tab = "passwords" => Shown(q))
<1>1. CASE p.tab = "passwords"
  <2>1. Filter(p) = Paint(p, "passwords", p.list)
    BY <1>1 DEF Filter
  <2>2. p.list \in Maybe(d.rows) /\ "passwords" \in RowKinds
    BY DEF Good, Holds, Maybe, Admits, RowKinds, Tabs
  <2> QED
    BY <1>1, <2>1, <2>2, PaintGood DEF Keeps, Sound
<1>2. CASE p.tab # "passwords"
  BY <1>2, RenderCardsGood DEF Filter
<1> QED
  BY <1>1, <1>2

(***************************************************************************)
(* Screens that load                                                       *)
(***************************************************************************)
\* Rows without data.
LEMMA PaintBlank ==
  ASSUME NEW p, NEW d, Good(p, d), NEW kind \in RowKinds \ Tabs
  PROVE  LET q == Paint(p, kind, None) IN
         /\ Good(q, d) /\ Agree(p, q, Field \ {"rows"}) /\ q.rows = Rows(kind, None) /\ Shown(q)
         /\ \A b : Follows(p, b) => Follows(q, b)
         /\ (Lit(p) <=> Lit(q)) /\ q.slips = p.slips
<1>1. kind \in RowKinds /\ kind # "passwords" /\ kind # "cards" /\ None \in Maybe(d.rows)
  BY DEF Tabs, Maybe
<1>2. ~Lit(p) => None = None
  OBVIOUS
<1> DEFINE q == Paint(p, kind, None)
<1>3. /\ Good(q, d) /\ Agree(p, q, Field \ {"rows"}) /\ q.rows = Rows(kind, None) /\ (Lit(p) <=> Lit(q))
      /\ q.slips = p.slips
      /\ \A b : Follows(p, b) => Follows(q, b)
      /\ (kind = "passwords" => p.tab = "passwords")
         /\ (kind = "cards" => ("list" \in p.screens => p.tab = "cards")) => Shown(q)
  BY <1>1, <1>2, PaintGood
<1> HIDE DEF q
<1> QED
  BY <1>1, <1>3 DEF q

\* ListShow, with a snapshot, from memory, or with a request.
LEMMA ListShowGood ==
  ASSUME NEW p, NEW d, Admits(d), Good(p, d), Lit(p), NEW snapshot \in Maybe(d.lists), NEW chain
  PROVE  LET q == ListShow(p, snapshot, chain)
         IN  Keeps(p, q, d) /\ (p.tab = "passwords" => Shown(q))
<1> DEFINE r == Bump(p, {"render"})  q == Show(r, "list")
<1>1. Keeps(p, r, d) /\ Agree(p, r, ViewF)
  BY BumpGood
<1> HIDE DEF r
<1>2. Lit(r)
  BY <1>1 DEF Lit, Agree, ViewF
<1>3. /\ Good(q, d) /\ Agree(r, q, Field \ {"screens"}) /\ q.screens = r.screens \cup {"list"}
      /\ \A b : Follows(r, b) => Follows(q, b)
      /\ Shown(r) /\ (r.rows.kind = "cards" => r.tab = "cards") => Shown(q)
  BY <1>1, <1>2, ShowGood DEF Keeps, Sound, ScreenSet
<1> HIDE DEF q
<1>4. Lit(q) /\ q.tab = p.tab /\ "list" \in q.screens /\ q.list = p.list /\ q.slips = p.slips
  BY <1>1, <1>2, <1>3 DEF Lit, Agree, Field, ViewF
<1>7. \A b : Follows(p, b) => Follows(q, b)
  BY <1>1, <1>3 DEF Keeps
<1>5. CASE snapshot # None
  <2> DEFINE s == ListApply(q, snapshot)
  <2>1. ListShow(p, snapshot, chain) = Finish(s, chain)
    BY <1>5 DEF ListShow, q, r
  <2>2. Keeps(q, s, d) /\ (OnPasswords(q) => Shown(s))
    BY <1>3, <1>4, <1>5, ListApplyGood DEF Maybe
  <2>3. p.tab = "passwords" => OnPasswords(q)
    BY <1>4 DEF OnPasswords, Shows
  <2>4. p.tab # "passwords" /\ Shown(p) => Shown(q)
    <3>1. p.tab # "passwords" => r.tab = "cards"
      BY <1>1 DEF Agree, ViewF, Good, Shape, Tabs
    <3> QED
      BY <1>1, <1>3, <3>1 DEF Keeps, Sound
  <2> HIDE DEF s
  <2>5. Keeps(s, Finish(s, chain), d)
    BY <2>2, FinishGood DEF Keeps, Sound
  <2> QED
    BY <1>7, <1>4, <2>1, <2>2, <2>3, <2>4, <2>5 DEF Keeps, Sound
<1>6. CASE snapshot = None
  <2> DEFINE s == IF q.list # None /\ "list" \notin q.old THEN Filter(q) ELSE Paint(q, "loading", None)
             c == Request("list", "show", None, chain)
  <2>1. ListShow(p, snapshot, chain) = SendCall(s, c)
    BY <1>6 DEF ListShow, q, r
  <2>2. Good(s, d) /\ (Shown(p) \/ p.tab = "passwords" => Shown(s)) /\ Lit(s)
        /\ p.slips \subseteq s.slips /\ \A b : Follows(q, b) => Follows(s, b)
    <3>1. CASE q.list # None /\ "list" \notin q.old
      <4>1. s = Filter(q)
        BY <3>1
      <4>2. Keeps(q, s, d) /\ (q.tab = "passwords" => Shown(s))
        BY <1>3, <1>4, <4>1, FilterGood
      <4>3. p.tab # "passwords" /\ Shown(p) => Shown(q)
        <5>1. p.tab # "passwords" => r.tab = "cards"
          BY <1>1 DEF Agree, ViewF, Good, Shape, Tabs
        <5> QED
          BY <1>1, <1>3, <5>1 DEF Keeps, Sound
      <4> QED
        BY <1>4, <4>2, <4>3 DEF Keeps, Sound
    <3>2. CASE ~(q.list # None /\ "list" \notin q.old)
      <4>1. s = Paint(q, "loading", None)
        BY <3>2
      <4>2. "loading" \in RowKinds \ Tabs
        BY DEF RowKinds, Tabs
      <4>3. Good(s, d) /\ Agree(q, s, Field \ {"rows"}) /\ Shown(s) /\ \A b : Follows(q, b) => Follows(s, b)
        BY <1>3, <4>1, <4>2, PaintBlank
      <4> QED
        BY <1>4, <4>3 DEF Lit, Agree, Field
    <3> QED
      BY <3>1, <3>2
  <2> HIDE DEF s
  <2>3. Keeps(s, SendCall(s, c), d)
    BY <2>2, SendGood, ListRequest
  <2> QED
    BY <1>7, <2>1, <2>2, <2>3 DEF Keeps, Sound
<1> QED
  BY <1>5, <1>6

\* DetailShow opens a login and asks for it.
LEMMA DetailShowGood ==
  ASSUME NEW p, NEW d, Good(p, d), Lit(p), NEW id \in Login
  PROVE  Keeps(p, DetailShow(p, id), d)
<1> DEFINE q == DetailOpen(p, id)
<1>1. Keeps(p, q, d) /\ q.detail = [id |-> id, login |-> None, revealed |-> FALSE]
  BY DetailOpenGood
<1>2. DetailShow(p, id) = SendCall(q, Request("login entry", "show", id, None))
  BY DEF DetailShow, Send
<1> HIDE DEF q
<1>3. q.detail.id = id /\ Lit(q)
  BY <1>1 DEF Keeps, Sound
<1>4. NewCall(Request("login entry", "show", id, None), Lit(q), q.detail.id, d)
  BY <1>3, LoginRequest
<1> QED
  BY <1>1, <1>2, <1>4, SendGood DEF Keeps, Sound

\* DetailHide leaves no login on the screen.
LEMMA DetailHideGood ==
  ASSUME NEW p, NEW d, Good(p, d)
  PROVE  LET q == DetailHide(p) IN
         /\ Keeps(p, q, d) /\ Agree(p, q, ViewF \ {"detail", "old", "timers", "resume", "screens"})
         /\ q.detail = [id |-> None, login |-> None, revealed |-> FALSE]
         /\ q.screens = p.screens \ {"detail"}
         /\ \A x : Cut(p, x) => Cut(q, x)
<1> DEFINE b == Bump(p, {"render"})  r == DetailInvalidate(b)
           s == [r EXCEPT !.detail.id = None, !.resume = None]  q == Hide(s, "detail")
<1>1. Keeps(p, b, d) /\ Agree(p, b, ViewF) /\ Cut(b, {"render"}) /\ \A x : Cut(p, x) => Cut(b, x)
  BY BumpGood
<1> HIDE DEF b
<1>2. /\ Keeps(b, r, d) /\ Agree(b, r, ViewF \ {"detail", "old", "timers"})
      /\ r.detail = [id |-> b.detail.id, login |-> None, revealed |-> FALSE]
      /\ \A x : Cut(b, x) => Cut(r, x)
  BY <1>1, DetailInvalidated DEF Keeps, Sound
<1>3. Keeps(p, r, d) /\ Cut(r, {"render"}) /\ Agree(p, r, ViewF \ {"detail", "old", "timers"})
      /\ r.detail.login = None /\ r.detail.revealed = FALSE /\ \A x : Cut(p, x) => Cut(r, x)
  BY <1>1, <1>2 DEF Keeps, Sound, Agree, ViewF
<1> HIDE DEF r
<1>4. Agree(r, s, Field \ {"detail", "resume"}) /\ s.detail = [r.detail EXCEPT !.id = None] /\ s.resume = None
  BY <1>3 DEF Keeps, Sound, Good, Shape, Agree, Field
<1> HIDE DEF s
<1>5. Agree(s, q, Field \ {"screens"}) /\ q.screens = s.screens \ {"detail"}
  BY <1>4 DEF Hide, Agree, Field
<1>6. DetailHide(p) = q
  BY DEF DetailHide, q, s, r, b
<1> HIDE DEF q
<1>7. Agree(r, q, Field \ {"detail", "resume", "screens"}) /\ q.screens = r.screens \ {"detail"}
      /\ q.resume = None /\ q.detail = [r.detail EXCEPT !.id = None]
  BY <1>4, <1>5 DEF Agree, Field
<1>8. q.detail = [id |-> None, login |-> None, revealed |-> FALSE]
  BY <1>3, <1>7 DEF Keeps, Sound, Good, Holds
<1>9. Agree(r, q, Calls) /\ (Lit(r) <=> Lit(q)) /\ q.slips = r.slips
      /\ q.screens = p.screens \ {"detail"}
      /\ Agree(p, q, ViewF \ {"detail", "old", "timers", "resume", "screens"})
  BY <1>3, <1>7 DEF Agree, Field, Calls, ViewF, Lit
<1>10. Shape(q)
  BY <1>3, <1>7 DEF Keeps, Sound, Good, Shape, Agree, Field, Maybe
<1>11. Holds(q, d)
  <2>1. q.old \subseteq HeldOf(q) /\ q.timers \subseteq HeldOf(q)
    BY <1>3, <1>7, <1>8 DEF Keeps, Sound, Good, Holds, HeldOf, Agree, Field
  <2>2. q.detail \in [id : Maybe(Login), login : Maybe(d.logins), revealed : BOOLEAN]
    BY <1>8 DEF Maybe
  <2> QED
    BY <1>3, <1>7, <1>8, <2>1, <2>2 DEF Keeps, Sound, Good, Holds, Agree, Field
<1>12. Chosen(q)
  BY <1>3, <1>7, <1>8 DEF Keeps, Sound, Good, Chosen, Agree, Field
<1>13. Closed(q)
  BY <1>3, <1>7, <1>8, <1>9 DEF Keeps, Sound, Good, Closed, Empty, Agree, Field
<1>14. Asks(q, d) /\ \A x : Follows(r, x) => Follows(q, x)
  BY <1>3, <1>9, AsksMoved DEF Keeps, Sound, Good
<1>15. Shown(r) => Shown(q)
  BY <1>7 DEF Shown, Agree, Field
<1>16. \A x : Cut(p, x) => Cut(q, x)
  BY <1>3, <1>9, CutKept
<1> QED
  BY <1>3, <1>6, <1>8, <1>9, <1>10, <1>11, <1>12, <1>13, <1>14, <1>15, <1>16 DEF Keeps, Sound, Good

\* FormClear leaves nothing in the form.
LEMMA FormClearGood ==
  ASSUME NEW p, NEW d, Good(p, d)
  PROVE  LET q == FormClear(p) IN
         /\ Keeps(p, q, d) /\ Agree(p, q, Field \ {"form", "old", "timers"})
         /\ q.form.editing = None /\ q.form.from = None
<1> DEFINE q == FormClear(p)
<1>1. Agree(p, q, Field \ {"form", "old", "timers"})
      /\ q.form = [p.form EXCEPT !.editing = None, !.from = None]
      /\ q.old = p.old \ {"form"} /\ q.timers = p.timers \ {"form"}
  BY DEF Good, Shape, FormClear, Agree, Field
<1> HIDE DEF q
<1>2. q.form.editing = None /\ q.form.from = None
      /\ q.form \in [editing : Maybe(Login), from : Maybe(d.forms), saving : BOOLEAN]
  BY <1>1 DEF Good, Holds, Maybe
<1>3. Agree(p, q, ShapeF) /\ Agree(p, q, ShownF) /\ Agree(p, q, AsksF) /\ (Lit(p) <=> Lit(q))
  BY <1>1 DEF Agree, Field, ShapeF, ShownF, AsksF, Lit
<1>4. Holds(q, d)
  <2>1. q.old \subseteq HeldOf(q) /\ q.timers \subseteq HeldOf(q)
    BY <1>1, <1>2 DEF Good, Holds, HeldOf, Agree, Field
  <2> QED
    BY <1>1, <1>2, <2>1 DEF Good, Holds, Agree, Field
<1>5. Chosen(q)
  BY <1>1, <1>2 DEF Good, Chosen, Agree, Field
<1>6. Closed(q)
  BY <1>1, <1>2, <1>3 DEF Good, Closed, Empty, Agree, Field
<1> QED
  BY <1>1, <1>2, <1>3, <1>4, <1>5, <1>6, ShapeKept, ShownKept, AsksKept DEF Good, Keeps, Sound, q

\* FormClose goes back to the list.
LEMMA FormCloseGood ==
  ASSUME NEW p, NEW d, Admits(d), Good(p, d), Lit(p)
  PROVE  Keeps(p, FormClose(p), d)
<1> DEFINE r == FormClear(p)  s == Hide(r, "form")
<1>1. Keeps(p, r, d)
  BY FormClearGood
<1> HIDE DEF r
<1>2. Keeps(r, s, d)
  BY <1>1, HideGood DEF Keeps, Sound
<1>3. FormClose(p) = ListShow(s, None, None)
  BY DEF FormClose, r
<1> HIDE DEF s
<1> QED
  BY <1>1, <1>2, <1>3, ListShowGood DEF Keeps, Sound, Maybe

\* FormCancel goes back to the login or to the list.
LEMMA FormCancelGood ==
  ASSUME NEW p, NEW d, Admits(d), Good(p, d), Lit(p)
  PROVE  Keeps(p, FormCancel(p), d)
<1> DEFINE r == Hide(p, "form")  s == FormClear(r)
<1>1. Keeps(p, r, d)
  BY HideGood
<1> HIDE DEF r
<1>2. Keeps(r, s, d)
  BY <1>1, FormClearGood DEF Keeps, Sound
<1>3. FormCancel(p) = IF p.form.editing # None THEN DetailShow(s, p.form.editing) ELSE ListShow(s, None, None)
  BY DEF FormCancel, r
<1> HIDE DEF s
<1>4. p.form.editing \in Maybe(Login)
  BY DEF Good, Holds
<1>5. CASE p.form.editing # None
  <2>1. p.form.editing \in Login
    BY <1>4, <1>5 DEF Maybe
  <2>2. Keeps(s, DetailShow(s, p.form.editing), d)
    BY <1>1, <1>2, <2>1, DetailShowGood DEF Keeps, Sound
  <2> QED
    BY <1>1, <1>2, <1>3, <1>5, <2>2 DEF Keeps, Sound
<1>6. CASE p.form.editing = None
  BY <1>1, <1>2, <1>3, <1>6, ListShowGood DEF Keeps, Sound, Maybe
<1> QED
  BY <1>5, <1>6

\* FormEdit moves the login into the form.
LEMMA FormEditGood ==
  ASSUME NEW p, NEW d, Admits(d), Good(p, d), Lit(p), p.detail.login # None
  PROVE  Keeps(p, FormEdit(p), d)
<1> DEFINE q == [p EXCEPT !.form.editing = p.detail.id, !.form.from = p.detail.login,
                          !.old = @ \ {"form"}, !.timers = @ \cup {"form"}]
           r == DetailHide(q)
<1>1. Agree(p, q, Field \ {"form", "old", "timers"})
      /\ q.form = [p.form EXCEPT !.editing = p.detail.id, !.from = p.detail.login]
      /\ q.old = p.old \ {"form"} /\ q.timers = p.timers \cup {"form"}
  BY DEF Good, Shape, Agree, Field
<1> HIDE DEF q
<1>2. q.form.editing = p.detail.id /\ q.form.from = p.detail.login
      /\ q.form \in [editing : Maybe(Login), from : Maybe(d.forms), saving : BOOLEAN]
  BY <1>1 DEF Good, Holds, Maybe, Admits
<1>3. Agree(p, q, ShapeF) /\ Agree(p, q, ShownF) /\ Agree(p, q, AsksF) /\ Lit(q)
  BY <1>1 DEF Agree, Field, ShapeF, ShownF, AsksF, Lit
<1>4. Holds(q, d)
  <2>1. q.old \subseteq HeldOf(q) /\ q.timers \subseteq HeldOf(q)
    BY <1>1, <1>2 DEF Good, Holds, HeldOf, Agree, Field
  <2> QED
    BY <1>1, <1>2, <2>1 DEF Good, Holds, Agree, Field
<1>5. Chosen(q)
  BY <1>1, <1>2 DEF Good, Chosen, Agree, Field
<1>6. Closed(q)
  BY <1>1, <1>3 DEF Good, Closed, Agree, Field
<1>7. Keeps(p, q, d)
  BY <1>3, <1>4, <1>5, <1>6, ShapeKept, ShownKept, AsksKept DEF Good, Keeps, Sound
<1>8. Keeps(q, r, d)
  BY <1>7, DetailHideGood DEF Keeps, Sound
<1>9. FormEdit(p) = Show(r, "form")
  BY DEF FormEdit, r, q
<1> HIDE DEF r
<1>10. Good(Show(r, "form"), d) /\ (Shown(r) => Shown(Show(r, "form")))
       /\ Agree(r, Show(r, "form"), Field \ {"screens"})
       /\ \A b : Follows(r, b) => Follows(Show(r, "form"), b)
  <2>1. "form" \in ScreenSet /\ Good(r, d) /\ Lit(r)
    BY <1>3, <1>8 DEF Keeps, Sound, ScreenSet
  <2> QED
    BY <2>1, ShowGood
<1> QED
  BY <1>3, <1>7, <1>8, <1>9, <1>10 DEF Keeps, Sound, Lit, Agree, Field

\* FormAdd opens an empty form.
LEMMA FormAddGood ==
  ASSUME NEW p, NEW d, Good(p, d), Lit(p)
  PROVE  Keeps(p, FormAdd(p), d)
<1> DEFINE b == Bump(p, {"render"})
           q == [b EXCEPT !.form.editing = None, !.form.from = None,
                          !.old = @ \ {"form"}, !.timers = @ \ {"form"}]
           r == Hide(q, "list")
<1>1. Keeps(p, b, d)
  BY BumpGood
<1>2. q = FormClear(b)
  BY DEF FormClear
<1> HIDE DEF b, q
<1>3. Keeps(b, q, d)
  BY <1>1, <1>2, FormClearGood DEF Keeps, Sound
<1>4. Keeps(q, r, d)
  BY <1>3, HideGood DEF Keeps, Sound
<1>5. FormAdd(p) = Show(r, "form")
  BY DEF FormAdd, q, b
<1> HIDE DEF r
<1>6. Good(Show(r, "form"), d) /\ (Shown(r) => Shown(Show(r, "form")))
      /\ Agree(r, Show(r, "form"), Field \ {"screens"})
      /\ \A x : Follows(r, x) => Follows(Show(r, "form"), x)
  <2>1. "form" \in ScreenSet /\ Good(r, d) /\ Lit(r)
    BY <1>1, <1>3, <1>4 DEF Keeps, Sound, ScreenSet
  <2> QED
    BY <2>1, ShowGood
<1> QED
  BY <1>1, <1>3, <1>4, <1>5, <1>6 DEF Keeps, Sound, Lit, Agree, Field

\* SelectTab shows the section it selects.
LEMMA SelectTabGood ==
  ASSUME NEW p, NEW d, Admits(d), Good(p, d), Lit(p), NEW tab \in Tabs, NEW snapshot \in Maybe(d.lists),
         NEW chain
  PROVE  LET q == SelectTab(p, tab, snapshot, chain) IN Keeps(p, q, d) /\ Shown(q)
<1> DEFINE b == Bump(p, {"render"})
           q == [b EXCEPT !.tab = tab, !.screens = @ \ {"detail", "form"}]
<1>1. Keeps(p, b, d)
  BY BumpGood
<1> HIDE DEF b
<1>2. Agree(b, q, Field \ {"tab", "screens"}) /\ q.tab = tab /\ q.screens = b.screens \ {"detail", "form"}
  BY <1>1 DEF Keeps, Sound, Good, Shape, Agree, Field
<1>3. SelectTab(p, tab, snapshot, chain) =
        IF tab = "passwords" THEN ListShow(q, snapshot, chain)
        ELSE RenderCards(Paint(Show(q, "list"), "loading", None), chain)
  BY DEF SelectTab, b
<1> HIDE DEF q
<1>4. Agree(b, q, HoldsF) /\ Agree(b, q, AsksF) /\ Lit(q)
      /\ q.slips = b.slips
  BY <1>1, <1>2 DEF Keeps, Sound, Agree, Field, HoldsF, AsksF, Lit
<1>5. Shape(q)
  BY <1>1, <1>2 DEF Keeps, Sound, Good, Shape, Agree, Field
<1>6. Chosen(q)
  BY <1>1, <1>2 DEF Keeps, Sound, Good, Chosen, Agree, Field
<1>7. Closed(q)
  BY <1>1, <1>2, <1>4 DEF Keeps, Sound, Good, Closed, Agree, Field
<1>8. Good(q, d) /\ \A x : Follows(b, x) => Follows(q, x)
  BY <1>1, <1>4, <1>5, <1>6, <1>7, HoldsKept, AsksKept DEF Keeps, Sound, Good
<1>9. CASE tab = "passwords"
  BY <1>1, <1>2, <1>3, <1>4, <1>8, <1>9, ListShowGood DEF Keeps, Sound
<1>10. CASE tab # "passwords"
  <2> DEFINE r == Show(q, "list")  s == Paint(r, "loading", None)
  <2>1. Good(r, d) /\ Agree(q, r, Field \ {"screens"}) /\ \A x : Follows(q, x) => Follows(r, x)
    <3>1. "list" \in ScreenSet
      BY DEF ScreenSet
    <3> QED
      BY <1>4, <1>8, <3>1, ShowGood
  <2>2. Lit(r) /\ r.slips = q.slips
    BY <1>4, <2>1 DEF Lit, Agree, Field
  <2> HIDE DEF r
  <2>3. Good(s, d) /\ Shown(s) /\ Lit(s) /\ s.slips = r.slips /\ \A x : Follows(r, x) => Follows(s, x)
    <3>1. "loading" \in RowKinds \ Tabs
      BY DEF RowKinds, Tabs
    <3> QED
      BY <2>1, <2>2, <3>1, PaintBlank
  <2> HIDE DEF s
  <2>4. Keeps(s, RenderCards(s, chain), d)
    BY <2>3, RenderCardsGood
  <2> QED
    BY <1>1, <1>3, <1>4, <1>8, <1>10, <2>1, <2>2, <2>3, <2>4 DEF Keeps, Sound, s, r
<1> QED
  BY <1>9, <1>10

(***************************************************************************)
(* Locking and unlocking the view                                          *)
(***************************************************************************)
\* ClearView leaves nothing of the vault, and no request whose answer could bring
\* something back: the popup is good for any choice of what is admitted.
LEMMA ClearViewGood ==
  ASSUME NEW p, NEW d, Good(p, d), NEW d2
  PROVE  LET q == ClearView(p) IN
         /\ Good(q, d2) /\ Shown(q) /\ q.unlocked = FALSE /\ q.slips = {} /\ Empty(q)
         /\ Cut(q, {"view", "render", "cache"}) /\ \A b : Follows(p, b) => Follows(q, b)
<1> DEFINE a == Bump(p, {"view", "render"})  b == ForgetCards(a)  c == DetailHide(b)  f == FormClear(c)
           l == ListInvalidate(f)  m == Paint(l, "blank", None)
           q == [m EXCEPT !.dialogs = {}, !.lockBtn = FALSE, !.unlocked = FALSE, !.slips = {},
                          !.screens = {}]
<1>1. Good(a, d) /\ Cut(a, {"view", "render"}) /\ \A x : Follows(p, x) => Follows(a, x)
  BY BumpGood DEF Keeps, Sound
<1> HIDE DEF a
<1>2. Good(b, d) /\ Cut(b, {"view", "render"}) /\ Cut(b, {"cache"}) /\ b.cards = None
      /\ \A x : Follows(a, x) => Follows(b, x)
  BY <1>1, ForgetCardsGood DEF Keeps, Sound
<1> HIDE DEF b
<1>3. Cut(b, {"view", "render", "cache"})
  BY <1>2 DEF Cut
<1>4. Good(c, d) /\ Cut(c, {"view", "render", "cache"}) /\ c.cards = None
      /\ c.detail = [id |-> None, login |-> None, revealed |-> FALSE]
      /\ \A x : Follows(b, x) => Follows(c, x)
  BY <1>2, <1>3, DetailHideGood DEF Keeps, Sound, Agree, ViewF
<1> HIDE DEF c
<1>5. Good(f, d) /\ Agree(c, f, Field \ {"form", "old", "timers"}) /\ f.form.editing = None /\ f.form.from = None
      /\ \A x : Follows(c, x) => Follows(f, x)
  BY <1>4, FormClearGood DEF Keeps, Sound
<1> HIDE DEF f
<1>6. Good(l, d) /\ Agree(f, l, Field \ {"list", "old", "timers", "rows"}) /\ l.list = None
      /\ \A x : Follows(f, x) => Follows(l, x)
  BY <1>5, ListInvalidateGood DEF Keeps, Sound
<1> HIDE DEF l
<1>7. Good(m, d) /\ Agree(l, m, Field \ {"rows"}) /\ m.rows = Rows("blank", None)
      /\ \A x : Follows(l, x) => Follows(m, x)
  <2>1. "blank" \in RowKinds \ Tabs
    BY DEF RowKinds, Tabs
  <2> QED
    BY <1>6, <2>1, PaintBlank
<1> HIDE DEF m
<1>8. Agree(m, q, Field \ {"dialogs", "lockBtn", "unlocked", "slips", "screens"})
      /\ q.dialogs = {} /\ q.lockBtn = FALSE /\ q.unlocked = FALSE /\ q.slips = {} /\ q.screens = {}
  BY <1>7 DEF Good, Shape, Agree, Field
<1>9. ClearView(p) = q
  BY DEF ClearView, q, m, l, f, c, b, a
<1> HIDE DEF q
<1>10. Agree(m, q, Calls) /\ Agree(c, m, Calls)
  BY <1>5, <1>6, <1>7, <1>8 DEF Agree, Field, Calls
<1>11. Cut(m, {"view", "render", "cache"}) /\ Cut(q, {"view", "render", "cache"})
  <2>1. Agree(c, q, Calls)
    BY <1>10 DEF Agree, Calls
  <2> QED
    BY <1>4, <1>10, <2>1, CutKept
<1>12. /\ q.list = None /\ q.cards = None /\ q.rows = Rows("blank", None)
       /\ q.detail = [id |-> None, login |-> None, revealed |-> FALSE]
       /\ q.form = f.form
  BY <1>4, <1>5, <1>6, <1>7, <1>8 DEF Agree, Field
<1>13. Shape(q)
  BY <1>7, <1>8 DEF Good, Shape, Agree, Field
<1>14. Holds(q, d2)
  <2>1. q.form \in [editing : Maybe(Login), from : Maybe(d2.forms), saving : BOOLEAN]
    BY <1>5, <1>12 DEF Good, Holds, Maybe
  <2>2. q.old = m.old /\ q.timers = m.timers /\ HeldOf(m) = {} /\ HeldOf(q) = {}
    BY <1>5, <1>8, <1>12 DEF Agree, Field, HeldOf
  <2>3. m.old \subseteq HeldOf(m) /\ m.timers \subseteq HeldOf(m)
    BY <1>7 DEF Good, Holds
  <2>4. q.rows \in [kind : Tabs \cup {"blank", "loading", "reload", "failed"}, of : Maybe(d2.rows)]
    BY <1>12 DEF Rows, Maybe
  <2>5. q.detail \in [id : Maybe(Login), login : Maybe(d2.logins), revealed : BOOLEAN] /\ ~q.detail.revealed
    BY <1>12 DEF Maybe
  <2> QED
    BY <1>8, <1>12, <2>1, <2>2, <2>3, <2>4, <2>5 DEF Holds, Maybe
<1>15. Empty(q)
  BY <1>5, <1>8, <1>12 DEF Empty, Rows
<1>16. Chosen(q) /\ Shown(q) /\ Closed(q)
  BY <1>5, <1>8, <1>12, <1>15 DEF Chosen, Shown, Closed, Rows
<1>17. Asks(q, d2) /\ \A x : Follows(m, x) => Follows(q, x)
  BY <1>7, <1>10, <1>11, AsksCleared DEF Good
<1>18. \A x : Follows(p, x) => Follows(q, x)
  BY <1>1, <1>2, <1>4, <1>5, <1>6, <1>7, <1>17
<1> QED
  BY <1>18, <1>8, <1>9, <1>11, <1>13, <1>14, <1>15, <1>16, <1>17 DEF Good

\* LoseSession, the same with the login screen.
LEMMA LoseSessionGood ==
  ASSUME NEW p, NEW d, Good(p, d), NEW d2
  PROVE  LET q == LoseSession(p) IN
         /\ Good(q, d2) /\ Shown(q) /\ q.unlocked = FALSE /\ q.slips = {} /\ "login" \in q.screens
         /\ Cut(q, {"view", "render", "cache"}) /\ Empty(q)
         /\ \A b : Follows(p, b) => Follows(q, b)
<1> DEFINE r == ClearView(p)  q == Show(r, "login")
<1>1. /\ Good(r, d2) /\ Shown(r) /\ r.unlocked = FALSE /\ r.slips = {} /\ Empty(r)
      /\ Cut(r, {"view", "render", "cache"}) /\ \A x : Follows(p, x) => Follows(r, x)
  BY ClearViewGood
<1> HIDE DEF r
<1>2. Good(q, d2) /\ Agree(r, q, Field \ {"screens"}) /\ q.screens = r.screens \cup {"login"} /\ Shown(q)
      /\ \A x : Follows(r, x) => Follows(q, x)
  <2>1. "login" \in ScreenSet
    BY DEF ScreenSet
  <2> QED
    BY <1>1, <2>1, ShowGood
<1>3. LoseSession(p) = q
  BY DEF LoseSession, r
<1> HIDE DEF q
<1>4. Agree(r, q, Calls) /\ q.unlocked = FALSE /\ q.slips = {} /\ Empty(q)
  BY <1>1, <1>2 DEF Agree, Field, Calls, Empty
<1> QED
  BY <1>1, <1>2, <1>3, <1>4, CutKept

\* ShowVault: what the bootstrap brings.
LEMMA ShowVaultGood ==
  ASSUME NEW p, NEW d, Admits(d), Good(p, d), NEW snapshot \in Maybe(d.lists), NEW chain
  PROVE  Keeps(p, ShowVault(p, snapshot, chain), d)
<1> DEFINE q == [p EXCEPT !.screens = {}, !.lockBtn = TRUE, !.unlocked = TRUE]
           r == IF snapshot # None THEN ListApply(q, snapshot) ELSE q
<1>1. Agree(p, q, Field \ {"screens", "lockBtn", "unlocked"}) /\ q.screens = {} /\ q.lockBtn = TRUE
      /\ q.unlocked = TRUE
  BY DEF Good, Shape, Agree, Field
<1> HIDE DEF q
<1>2. Agree(p, q, HoldsF) /\ Agree(p, q, Calls) /\ q.detail.id = p.detail.id /\ Lit(q) /\ q.slips = p.slips
  BY <1>1 DEF Agree, Field, HoldsF, Calls, Lit
<1>3. Shape(q)
  BY <1>1 DEF Good, Shape, Agree, Field
<1>4. Chosen(q) /\ Closed(q) /\ (Shown(p) => Shown(q))
  BY <1>1, <1>2 DEF Good, Chosen, Closed, Shown, Agree, Field
<1>5. Good(q, d) /\ \A x : Follows(p, x) => Follows(q, x)
  BY <1>2, <1>3, <1>4, HoldsKept, AsksLit DEF Good
<1>6. Keeps(q, r, d)
  <2>1. CASE snapshot # None
    <3>1. snapshot \in d.lists /\ r = ListApply(q, snapshot)
      BY <2>1 DEF Maybe
    <3> QED
      BY <1>2, <1>5, <3>1, ListApplyGood
  <2>2. CASE snapshot = None
    BY <1>5, <2>2 DEF Keeps, Sound
  <2> QED
    BY <2>1, <2>2
<1>7. ShowVault(p, snapshot, chain) = SendCall(r, Request("resume", "show", snapshot, chain))
  BY DEF ShowVault, r, q
<1> HIDE DEF r
<1>8. Lit(r)
  BY <1>2, <1>6 DEF Keeps, Sound
<1>9. Keeps(r, SendCall(r, Request("resume", "show", snapshot, chain)), d)
  BY <1>6, <1>8, SendGood, ResumeRequest DEF Keeps, Sound
<1> QED
  BY <1>2, <1>4, <1>5, <1>6, <1>7, <1>8, <1>9 DEF Keeps, Sound

(***************************************************************************)
(* Answers                                                                 *)
(***************************************************************************)
\* Fields that Good only types.
PlainF == {"busy", "migration", "left", "known", "resume"}

\* They may change.
LEMMA PlainKept ==
  ASSUME NEW p, NEW d, Good(p, d), NEW q, Agree(p, q, Field \ PlainF), Shape(q)
  PROVE  Keeps(p, q, d)
<1>1. Agree(p, q, HoldsF) /\ Agree(p, q, ChosenF) /\ Agree(p, q, ShownF) /\ Agree(p, q, AsksF)
      /\ Agree(p, q, ClosedF) /\ (Lit(p) <=> Lit(q)) /\ q.slips = p.slips
  BY DEF Agree, Field, PlainF, HoldsF, ChosenF, ShownF, AsksF, ClosedF, Lit
<1> QED
  BY <1>1, HoldsKept, ChosenKept, ShownKept, AsksKept, ClosedKept DEF Good, Keeps, Sound

\* The login to open again.
LEMMA ResumeSet ==
  ASSUME NEW p, NEW d, Good(p, d), NEW x \in Maybe(Login)
  PROVE  Keeps(p, [p EXCEPT !.resume = x], d)
<1> DEFINE q == [p EXCEPT !.resume = x]
<1>1. Agree(p, q, Field \ {"resume"}) /\ q.resume = x
  BY DEF Good, Shape, Field, Agree
<1> HIDE DEF q
<1>2. Shape(q) /\ Agree(p, q, Field \ PlainF)
  BY <1>1 DEF Good, Shape, Agree, Field, PlainF
<1> QED
  BY <1>2, PlainKept DEF q

\* The login screen is busy, or not.
LEMMA BusySet ==
  ASSUME NEW p, NEW d, Good(p, d), NEW x \in BOOLEAN
  PROVE  Keeps(p, [p EXCEPT !.busy = x], d)
<1> DEFINE q == [p EXCEPT !.busy = x]
<1>1. Agree(p, q, Field \ {"busy"}) /\ q.busy = x
  BY DEF Good, Shape, Field, Agree
<1> HIDE DEF q
<1>2. Shape(q) /\ Agree(p, q, Field \ PlainF)
  BY <1>1 DEF Good, Shape, Agree, Field, PlainF
<1> QED
  BY <1>2, PlainKept DEF q

\* AfterRestore shows the list it was given, unless the view was locked since.
LEMMA AfterRestoreGood ==
  ASSUME NEW p, NEW d, Admits(d), Good(p, d), NEW c, NEW snapshot,
         Fresh(c, {"view"}) => Lit(p) /\ snapshot \in Maybe(d.lists)
  PROVE  Keeps(p, AfterRestore(p, c, snapshot), d)
<1>1. CASE Fresh(c, {"view"})
  <2>1. p.tab \in Tabs /\ snapshot \in Maybe(d.lists) /\ Lit(p)
    BY <1>1 DEF Good, Shape
  <2>2. AfterRestore(p, c, snapshot) = SelectTab(p, p.tab, snapshot, c.chain)
    BY <1>1 DEF AfterRestore
  <2> QED
    BY <2>1, <2>2, SelectTabGood
<1>2. CASE ~Fresh(c, {"view"})
  BY <1>2 DEF AfterRestore, Keeps, Sound
<1> QED
  BY <1>1, <1>2

\* ResumeAnswer opens the login that was open, or shows the list.
LEMMA ResumeAnswerGood ==
  ASSUME NEW p, NEW d, Admits(d), Good(p, d), NEW c,
         Fresh(c, {"render"}) => Lit(p) /\ c.arg \in Maybe(d.lists)
  PROVE  Keeps(p, ResumeAnswer(p, c), d)
<1>1. CASE ~Fresh(c, {"render"})
  BY <1>1 DEF ResumeAnswer, Keeps, Sound
<1>2. CASE Fresh(c, {"render"}) /\ p.resume = None
  <2>1. ResumeAnswer(p, c) = AfterRestore(p, c, c.arg)
    BY <1>2 DEF ResumeAnswer
  <2> QED
    BY <1>2, <2>1, AfterRestoreGood
<1>3. CASE Fresh(c, {"render"}) /\ p.resume # None
  <2> DEFINE q == [p EXCEPT !.tab = "passwords"]  r == DetailOpen(q, p.resume)
             b == [Request("login entry", "restore", p.resume, c.chain) EXCEPT !.got = c.arg]
  <2>1. ResumeAnswer(p, c) = SendCall(r, b)
    BY <1>3 DEF ResumeAnswer
  <2>2. Agree(p, q, Field \ {"tab"}) /\ q.tab = "passwords"
    BY DEF Good, Shape, Agree, Field
  <2> HIDE DEF q
  <2>3. Agree(p, q, HoldsF) /\ Agree(p, q, ChosenF) /\ Agree(p, q, AsksF) /\ Agree(p, q, ClosedF)
        /\ Lit(q) /\ q.slips = p.slips
    BY <1>3, <2>2 DEF Agree, Field, HoldsF, ChosenF, AsksF, ClosedF, Lit
  <2>4. Shape(q)
    BY <2>2 DEF Good, Shape, Agree, Field, Tabs
  <2>5. Good(q, d) /\ \A x : Follows(p, x) => Follows(q, x)
    BY <2>3, <2>4, HoldsKept, ChosenKept, AsksKept, ClosedKept DEF Good
  <2>6. p.resume \in Login
    BY <1>3 DEF Good, Shape, Maybe
  <2>7. /\ Keeps(q, r, d) /\ Agree(q, r, ViewF \ {"detail", "old", "timers", "screens"})
        /\ r.detail = [id |-> p.resume, login |-> None, revealed |-> FALSE] /\ "list" \notin r.screens
    BY <2>3, <2>5, <2>6, DetailOpenGood
  <2> HIDE DEF r
  <2>8. Shown(r)
    BY <2>2, <2>7 DEF Shown, Agree, ViewF
  <2>9. r.detail.id = p.resume /\ Lit(r)
    BY <2>3, <2>7 DEF Keeps, Sound
  <2>10. NewCall(b, Lit(r), r.detail.id, d)
    BY <1>3, <2>6, <2>9, RestoreRequest
  <2> HIDE DEF b
  <2>11. Keeps(r, SendCall(r, b), d)
    BY <2>7, <2>10, SendGood DEF Keeps, Sound
  <2> QED
    BY <2>1, <2>3, <2>5, <2>7, <2>8, <2>11 DEF Keeps, Sound
<1> QED
  BY <1>1, <1>2, <1>3

\* BootstrapAnswer shows the vault, or asks for the status.
LEMMA BootstrapAnswerGood ==
  ASSUME NEW p, NEW d, Admits(d), Good(p, d), NEW c, NEW r,
         r.code = "ok" /\ r.data.unlocked => r.data.snapshot \in Maybe(d.lists)
  PROVE  Keeps(p, BootstrapAnswer(p, c, r), d)
<1>1. CASE r.code = "ok" /\ r.data.unlocked
  BY <1>1, ShowVaultGood DEF BootstrapAnswer
<1>2. CASE ~(r.code = "ok" /\ r.data.unlocked) /\ c.use = "resume"
  BY <1>2 DEF BootstrapAnswer, Keeps, Sound
<1>3. CASE ~(r.code = "ok" /\ r.data.unlocked) /\ c.use # "resume"
  <2> DEFINE x == IF r.code = "ok" THEN None ELSE p.resume  q == [p EXCEPT !.resume = x]
  <2>1. BootstrapAnswer(p, c, r) = SendCall(q, Request("status", "boot", None, None))
    BY <1>3 DEF BootstrapAnswer, Send
  <2>2. x \in Maybe(Login)
    BY DEF Good, Shape, Maybe
  <2> HIDE DEF x
  <2>3. Keeps(p, q, d)
    BY <2>2, ResumeSet
  <2> HIDE DEF q
  <2>4. NewCall(Request("status", "boot", None, None), Lit(q), q.detail.id, d)
    BY PlainRequest
  <2> QED
    BY <2>1, <2>3, <2>4, SendGood DEF Keeps, Sound
<1> QED
  BY <1>1, <1>2, <1>3

\* LoginAnswer unlocks the view, without anything yet.
LEMMA LoginAnswerGood ==
  ASSUME NEW p, NEW d, Admits(d), Good(p, d), NEW r
  PROVE  Keeps(p, LoginAnswer(p, r), d)
<1>1. CASE r.code # "ok"
  BY <1>1, BusySet DEF LoginAnswer
<1>2. CASE r.code = "ok"
  <2> DEFINE f == ForgetCards(p)  h == Hide(f, "login")  q == [h EXCEPT !.unlocked = TRUE]
  <2>1. LoginAnswer(p, r) = SelectTab(q, p.tab, None, "unlock")
    BY <1>2 DEF LoginAnswer
  <2>2. Keeps(p, f, d)
    BY ForgetCardsGood
  <2> HIDE DEF f
  <2>3. Keeps(f, h, d) /\ h.screens = f.screens \ {"login"}
    BY <2>2, HideGood DEF Keeps, Sound
  <2> HIDE DEF h
  <2>4. Agree(h, q, Field \ {"unlocked"}) /\ q.unlocked = TRUE
    BY <2>3 DEF Keeps, Sound, Good, Shape, Agree, Field
  <2> HIDE DEF q
  <2>5. Agree(h, q, HoldsF) /\ Agree(h, q, ChosenF) /\ Agree(h, q, Calls)
        /\ q.detail.id = h.detail.id /\ Lit(q) /\ q.slips = h.slips
    BY <2>4 DEF Agree, Field, HoldsF, ChosenF, Calls, Lit
  <2>6. Shape(q)
    BY <2>3, <2>4 DEF Keeps, Sound, Good, Shape, Agree, Field
  <2>7. Closed(q)
    BY <2>3, <2>4, <2>5 DEF Keeps, Sound, Good, Closed, Agree, Field
  <2>8. Good(q, d) /\ \A x : Follows(h, x) => Follows(q, x)
    BY <2>3, <2>5, <2>6, <2>7, HoldsKept, ChosenKept, AsksLit DEF Keeps, Sound, Good
  <2>9. p.tab \in Tabs /\ None \in Maybe(d.lists)
    BY DEF Good, Shape, Maybe
  <2>10. Keeps(q, SelectTab(q, p.tab, None, "unlock"), d) /\ Shown(SelectTab(q, p.tab, None, "unlock"))
    BY <2>5, <2>8, <2>9, SelectTabGood
  <2> QED
    BY <2>1, <2>2, <2>3, <2>5, <2>8, <2>10 DEF Keeps, Sound
<1> QED
  BY <1>1, <1>2

\* A set of numbers has a least one.
LEMMA Least ==
  ASSUME NEW S, S \subseteq Nat, S # {}
  PROVE  \E i \in S : \A j \in S : i <= j
<1>1. IsWellFoundedOn(OpToRel(<, Nat), Nat)
  BY NatLessThanWellFounded
<1>2. PICK i \in S : \A j \in S : ~(<<j, i>> \in OpToRel(<, Nat))
  BY <1>1, WFMin
<1>3. \A j \in S : i <= j
  <2> SUFFICES ASSUME NEW j \in S PROVE ~(j < i)
    OBVIOUS
  <2> QED
    BY <1>2 DEF OpToRel
<1> QED
  BY <1>3

\* MigrationEnds keeps the popup good.
LEMMA MigrationEndsGood ==
  ASSUME NEW p, NEW d, Good(p, d), NEW state \in {"no", "done"}
  PROVE  Keeps(p, MigrationEnds(p, state), d)
<1> DEFINE q == MigrationEnds(p, state)
<1>1. Agree(p, q, Field \ {"migration", "left", "known"}) /\ q.migration = state /\ q.left = <<>>
      /\ q.known = {}
  BY DEF Good, Shape, Field, Agree, MigrationEnds
<1> HIDE DEF q
<1>2. <<>> \in Seq(Card)
  OBVIOUS
<1>3. Shape(q) /\ Agree(p, q, Field \ PlainF)
  BY <1>1, <1>2 DEF Good, Shape, Agree, Field, PlainF
<1> QED
  BY <1>3, PlainKept DEF q

\* The cards the vault has.
LEMMA KnownSet ==
  ASSUME NEW p, NEW d, Good(p, d), NEW x, x \subseteq Maybe(Card)
  PROVE  Keeps(p, [p EXCEPT !.known = x], d)
<1> DEFINE q == [p EXCEPT !.known = x]
<1>1. Agree(p, q, Field \ {"known"}) /\ q.known = x
  BY DEF Good, Shape, Field, Agree
<1> HIDE DEF q
<1>2. Shape(q) /\ Agree(p, q, Field \ PlainF)
  BY <1>1 DEF Good, Shape, Agree, Field, PlainF
<1> QED
  BY <1>2, PlainKept DEF q

\* The cards that are left to move.
LEMMA LeftSet ==
  ASSUME NEW p, NEW d, Good(p, d), NEW x \in Seq(Card)
  PROVE  Keeps(p, [p EXCEPT !.left = x], d)
<1> DEFINE q == [p EXCEPT !.left = x]
<1>1. Agree(p, q, Field \ {"left"}) /\ q.left = x
  BY DEF Good, Shape, Field, Agree
<1> HIDE DEF q
<1>2. Shape(q) /\ Agree(p, q, Field \ PlainF)
  BY <1>1 DEF Good, Shape, Agree, Field, PlainF
<1> QED
  BY <1>2, PlainKept DEF q

\* MigrateNext asks for one of the cards that are left.
LEMMA MigrateNextGood ==
  ASSUME NEW p, NEW d, Good(p, d)
  PROVE  Keeps(p, MigrateNext(p), d)
<1>1. CASE Missing(p) = {}
  <2>1. NewCall(Request("forget local", "migrate", None, None), Lit(p), p.detail.id, d)
    BY MigrationRequest
  <2>2. MigrateNext(p) = SendCall(p, Request("forget local", "migrate", None, None))
    BY <1>1 DEF MigrateNext, Send
  <2> QED
    BY <2>1, <2>2, SendGood
<1>2. CASE Missing(p) # {}
  <2> DEFINE first == CHOOSE i \in Missing(p) : \A j \in Missing(p) : i <= j
             c == Request("create item", "migrate", p.left[first], None)
  <2>1. MigrateNext(p) = SendCall(p, c)
    BY <1>2 DEF MigrateNext, Send
  <2>2. p.left \in Seq(Card)
    BY DEF Good, Shape
  <2>3. Missing(p) \subseteq DOMAIN p.left /\ Missing(p) \subseteq Nat
    BY <2>2 DEF Missing
  <2>4. first \in Missing(p)
    <3>1. \E i \in Missing(p) : \A j \in Missing(p) : i <= j
      BY <1>2, <2>3, Least
    <3> QED
      BY <3>1
  <2> HIDE DEF first
  <2>5. p.left[first] \in Card
    BY <2>2, <2>3, <2>4
  <2>6. NewCall(c, Lit(p), p.detail.id, d)
    BY <2>5, MigrationRequest
  <2> HIDE DEF c
  <2> QED
    BY <2>1, <2>6, SendGood
<1> QED
  BY <1>1, <1>2

\* c asks for a step of the migration, and r answers it.
MigrationStep(c, r) ==
    /\ c.what \in {"local", "forget local", "items", "create item"}
    /\ c.what = "create item" => c.arg \in Card
    /\ r.code = "ok" /\ c.what = "local" => r.data \in Seq(Card)
    /\ r.code = "ok" /\ c.what = "items" => r.data \in CardData

\* MigrationAnswer keeps the popup good, locked or not.
LEMMA MigrationAnswerGood ==
  ASSUME NEW p, NEW d, Good(p, d), NEW c, NEW r, MigrationStep(c, r)
  PROVE  Keeps(p, MigrationAnswer(p, c, r), d)
<1>0. /\ c.what \in {"local", "forget local", "items", "create item"}
      /\ c.what = "create item" => c.arg \in Card
      /\ r.code = "ok" /\ c.what = "local" => r.data \in Seq(Card)
      /\ r.code = "ok" /\ c.what = "items" => r.data \in CardData
  BY DEF MigrationStep
<1>1. CASE r.code # "ok"
  <2>1. MigrationAnswer(p, c, r) = MigrationEnds(p, "no")
    BY <1>1 DEF MigrationAnswer
  <2>2. "no" \in {"no", "done"}
    OBVIOUS
  <2> QED
    BY <2>1, <2>2, MigrationEndsGood
<1>2. CASE r.code = "ok" /\ c.what = "forget local"
  <2>1. MigrationAnswer(p, c, r) = MigrationEnds(p, "done")
    BY <1>2 DEF MigrationAnswer
  <2>2. "done" \in {"no", "done"}
    OBVIOUS
  <2> QED
    BY <2>1, <2>2, MigrationEndsGood
<1>6. CASE r.code = "ok" /\ c.what = "local" /\ r.data = <<>>
  <2>1. MigrationAnswer(p, c, r) = MigrationEnds(p, "done")
    BY <1>6 DEF MigrationAnswer
  <2>2. "done" \in {"no", "done"}
    OBVIOUS
  <2> QED
    BY <2>1, <2>2, MigrationEndsGood
<1>3. CASE r.code = "ok" /\ c.what = "local" /\ r.data # <<>>
  <2> DEFINE q == [p EXCEPT !.left = r.data]
  <2>1. MigrationAnswer(p, c, r) = SendCall(q, Request("items", "migrate", None, None))
    BY <1>3 DEF MigrationAnswer, Send
  <2>2. Keeps(p, q, d)
    BY <1>0, <1>3, LeftSet
  <2> HIDE DEF q
  <2>3. NewCall(Request("items", "migrate", None, None), Lit(q), q.detail.id, d)
    BY MigrationRequest
  <2> QED
    BY <2>1, <2>2, <2>3, SendGood DEF Keeps, Sound
<1>4. CASE r.code = "ok" /\ c.what = "items"
  <2> DEFINE k == {r.data.of[i] : i \in Item}  q == [p EXCEPT !.known = k]
  <2>1. MigrationAnswer(p, c, r) = MigrateNext(q)
    BY <1>4 DEF MigrationAnswer
  <2>2. k \subseteq Maybe(Card)
    BY <1>0, <1>4 DEF CardData
  <2> HIDE DEF k
  <2>3. Keeps(p, q, d)
    BY <2>2, KnownSet
  <2> HIDE DEF q
  <2> QED
    BY <2>1, <2>3, MigrateNextGood DEF Keeps, Sound
<1>5. CASE r.code = "ok" /\ c.what = "create item"
  <2> DEFINE k == p.known \cup {c.arg}  q == [p EXCEPT !.known = k]
  <2>1. MigrationAnswer(p, c, r) = MigrateNext(q)
    BY <1>5 DEF MigrationAnswer
  <2>2. k \subseteq Maybe(Card)
    BY <1>0, <1>5 DEF Good, Shape, Maybe
  <2> HIDE DEF k
  <2>3. Keeps(p, q, d)
    BY <2>2, KnownSet
  <2> HIDE DEF q
  <2> QED
    BY <2>1, <2>3, MigrateNextGood DEF Keeps, Sound
<1>7. CASE r.code = "ok" /\ c.what = "local"
  BY <1>3, <1>6, <1>7
<1> QED
  BY <1>0, <1>1, <1>2, <1>4, <1>5, <1>7

\* ListAnswer shows a list that is admitted, if nothing else was rendered since.
LEMMA ListAnswerGood ==
  ASSUME NEW p, NEW d, Admits(d), Good(p, d), NEW c, NEW r,
         Fresh(c, {"render"}) /\ r.code = "ok" => Lit(p) /\ r.data \in Maybe(d.lists)
  PROVE  Keeps(p, ListAnswer(p, c, r), d)
<1> DEFINE q == IF ~Fresh(c, {"render"}) \/ r.code \in {"lost", "changed"} THEN p
                ELSE IF r.code = "ok" THEN IF r.data # None THEN ListApply(p, r.data) ELSE ListInvalidate(p)
                ELSE IF c.use = "show" THEN Paint(p, "failed", None) ELSE p
<1>1. ListAnswer(p, c, r) = Finish(q, c.chain)
  BY DEF ListAnswer
<1>2. Keeps(p, q, d)
  <2>0. Keeps(p, p, d)
    BY DEF Keeps, Sound
  <2>1. CASE ~Fresh(c, {"render"}) \/ r.code \in {"lost", "changed"}
    BY <2>0, <2>1
  <2>2. CASE Fresh(c, {"render"}) /\ r.code = "ok"
    <3>1. CASE r.data # None
      <4>1. q = ListApply(p, r.data) /\ r.data \in d.lists /\ Lit(p)
        BY <2>2, <3>1 DEF Maybe
      <4> QED
        BY <4>1, ListApplyGood
    <3>2. CASE r.data = None
      <4>1. q = ListInvalidate(p)
        BY <2>2, <3>2
      <4> QED
        BY <4>1, ListInvalidateGood
    <3> QED
      BY <3>1, <3>2
  <2>3. CASE r.code \notin {"ok", "lost", "changed"}
    <3>1. q = p \/ q = Paint(p, "failed", None)
      BY <2>3
    <3>2. "failed" \in RowKinds \ Tabs
      BY DEF RowKinds, Tabs
    <3>3. Keeps(p, Paint(p, "failed", None), d)
      BY <3>2, PaintBlank DEF Keeps, Sound
    <3> QED
      BY <2>0, <3>1, <3>3
  <2> QED
    BY <2>1, <2>2, <2>3
<1> HIDE DEF q
<1>3. Keeps(q, Finish(q, c.chain), d)
  BY <1>2, FinishGood DEF Keeps, Sound
<1> QED
  BY <1>1, <1>2, <1>3 DEF Keeps, Sound

\* DetailShown: the login that was asked for is still the one that is open.
LEMMA DetailShownGood ==
  ASSUME NEW p, NEW d, Admits(d), Good(p, d), NEW c, NEW r,
         r.code = "ok" /\ DetailCurrent(c) =>
             r.data \in Maybe(d.logins) /\ (r.data # None => Lit(p) /\ r.data.id = p.detail.id),
         c.use = "restore" /\ Fresh(c, {"render"}) /\ Fresh(c, {"view"}) /\ ~Shows(p, "login") =>
             Lit(p) /\ c.got \in Maybe(d.lists)
  PROVE  Keeps(p, DetailShown(p, c, r), d)
<1>1. CASE r.code = "ok" /\ DetailCurrent(c)
  <2> DEFINE q == DetailApply(p, r.data)
  <2>1. DetailShown(p, c, r) = [q EXCEPT !.resume = p.detail.id]
    BY <1>1 DEF DetailShown
  <2>2. Keeps(p, q, d)
    BY <1>1, DetailApplyGood
  <2>3. p.detail.id \in Maybe(Login)
    BY DEF Good, Holds
  <2> HIDE DEF q
  <2>4. Keeps(q, [q EXCEPT !.resume = p.detail.id], d)
    BY <2>2, <2>3, ResumeSet DEF Keeps, Sound
  <2> QED
    BY <2>1, <2>2, <2>4 DEF Keeps, Sound
<1>2. CASE ~(r.code = "ok" /\ DetailCurrent(c)) /\ r.code \notin {"ok", "lost"} /\ Fresh(c, {"render"})
  <2>1. DetailShown(p, c, r) = DetailInvalidate(p)
    BY <1>2 DEF DetailShown
  <2> QED
    BY <2>1, DetailInvalidated
<1>3. CASE /\ ~(r.code = "ok" /\ DetailCurrent(c)) /\ ~(r.code \notin {"ok", "lost"} /\ Fresh(c, {"render"}))
           /\ c.use = "restore" /\ Fresh(c, {"render"}) /\ ~Shows(p, "login")
  <2> DEFINE q == [p EXCEPT !.resume = None]
  <2>1. DetailShown(p, c, r) = AfterRestore(q, c, c.got)
    BY <1>3 DEF DetailShown
  <2>2. Keeps(p, q, d)
    BY ResumeSet DEF Maybe
  <2> HIDE DEF q
  <2>3. Fresh(c, {"view"}) => Lit(q) /\ c.got \in Maybe(d.lists)
    BY <1>3, <2>2 DEF Keeps, Sound
  <2> QED
    BY <2>1, <2>2, <2>3, AfterRestoreGood DEF Keeps, Sound
<1>4. CASE /\ ~(r.code = "ok" /\ DetailCurrent(c)) /\ ~(r.code \notin {"ok", "lost"} /\ Fresh(c, {"render"}))
           /\ ~(c.use = "restore" /\ Fresh(c, {"render"}) /\ ~Shows(p, "login"))
  BY <1>4 DEF DetailShown, Keeps, Sound
<1> QED
  BY <1>1, <1>2, <1>3, <1>4

\* Only what is held is revealed.
LEMMA RevealedSet ==
  ASSUME NEW p, NEW d, Good(p, d), NEW x \in BOOLEAN, x => p.detail.login # None
  PROVE  Keeps(p, [p EXCEPT !.detail.revealed = x], d)
<1> DEFINE q == [p EXCEPT !.detail.revealed = x]
<1>1. Agree(p, q, Field \ {"detail"}) /\ q.detail = [p.detail EXCEPT !.revealed = x]
  BY DEF Good, Shape, Field, Agree
<1> HIDE DEF q
<1>2. q.detail.id = p.detail.id /\ q.detail.login = p.detail.login /\ q.detail.revealed = x
      /\ q.detail \in [id : Maybe(Login), login : Maybe(d.logins), revealed : BOOLEAN]
  BY <1>1 DEF Good, Holds
<1>3. Agree(p, q, ShapeF) /\ Agree(p, q, ShownF) /\ Agree(p, q, Calls) /\ (Lit(p) <=> Lit(q))
      /\ q.slips = p.slips
  BY <1>1 DEF Agree, Field, ShapeF, ShownF, Calls, Lit
<1>4. Holds(q, d)
  BY <1>1, <1>2 DEF Good, Holds, HeldOf, Agree, Field
<1>5. Chosen(q)
  BY <1>1, <1>2 DEF Good, Chosen, Agree, Field
<1>6. Closed(q)
  BY <1>1, <1>2, <1>3 DEF Good, Closed, Empty, Agree, Field
<1> QED
  BY <1>2, <1>3, <1>4, <1>5, <1>6, ShapeKept, ShownKept, AsksLit DEF Good, Keeps, Sound, q

\* DetailActs: the action is done with the login that is open.
LEMMA DetailActsGood ==
  ASSUME NEW p, NEW d, Admits(d), Good(p, d), NEW c, NEW r, c.use \in {"refresh", "reveal", "edit"},
         r.code = "ok" /\ DetailCurrent(c) =>
             r.data \in Maybe(d.logins) /\ (r.data # None => Lit(p) /\ r.data.id = p.detail.id)
  PROVE  Keeps(p, DetailActs(p, c, r), d)
<1>0. Keeps(p, p, d)
  BY DEF Keeps, Sound
<1>1. CASE r.code = "ok" /\ (~DetailCurrent(c) \/ (c.use # "refresh" /\ ~Shows(p, "detail")))
  BY <1>0, <1>1 DEF DetailActs
<1>2. CASE r.code = "ok" /\ ~(~DetailCurrent(c) \/ (c.use # "refresh" /\ ~Shows(p, "detail")))
  <2> DEFINE q == DetailApply(p, r.data)
  <2>1. DetailActs(p, c, r) = IF q.detail.login = None THEN q
                              ELSE CASE c.use = "reveal" -> [q EXCEPT !.detail.revealed = TRUE]
                                     [] c.use = "edit" -> FormEdit(q)
                                     [] c.use = "refresh" -> q
    BY <1>2 DEF DetailActs
  <2>2. Keeps(p, q, d) /\ (q.detail.login # None => Lit(p))
    <3>1. r.data \in Maybe(d.logins) /\ (r.data # None => Lit(p) /\ r.data.id = p.detail.id)
      BY <1>2
    <3>2. Keeps(p, q, d) /\ q.detail = [id |-> p.detail.id, login |-> r.data, revealed |-> FALSE]
      BY <3>1, DetailApplyGood
    <3> HIDE DEF q
    <3> QED
      BY <3>1, <3>2
  <2> HIDE DEF q
  <2>3. q.detail.login # None => Keeps(q, [q EXCEPT !.detail.revealed = TRUE], d)
    BY <2>2, RevealedSet DEF Keeps, Sound
  <2>4. q.detail.login # None => Keeps(q, FormEdit(q), d)
    BY <2>2, FormEditGood DEF Keeps, Sound
  <2> QED
    BY <2>1, <2>2, <2>3, <2>4 DEF Keeps, Sound
<1>3. CASE r.code # "ok"
  BY <1>0, <1>3, DetailInvalidated DEF DetailActs
<1> QED
  BY <1>1, <1>2, <1>3

\* The form is being saved, or not.
LEMMA SavingSet ==
  ASSUME NEW p, NEW d, Good(p, d), NEW x \in BOOLEAN
  PROVE  Keeps(p, [p EXCEPT !.form.saving = x], d)
<1> DEFINE q == [p EXCEPT !.form.saving = x]
<1>1. Agree(p, q, Field \ {"form"}) /\ q.form = [p.form EXCEPT !.saving = x]
  BY DEF Good, Shape, Field, Agree
<1> HIDE DEF q
<1>2. q.form.editing = p.form.editing /\ q.form.from = p.form.from
      /\ q.form \in [editing : Maybe(Login), from : Maybe(d.forms), saving : BOOLEAN]
  BY <1>1 DEF Good, Holds
<1>3. Agree(p, q, ShapeF) /\ Agree(p, q, ShownF) /\ Agree(p, q, AsksF) /\ (Lit(p) <=> Lit(q))
      /\ q.slips = p.slips
  BY <1>1 DEF Agree, Field, ShapeF, ShownF, AsksF, Lit
<1>4. Holds(q, d)
  BY <1>1, <1>2 DEF Good, Holds, HeldOf, Agree, Field
<1>5. Chosen(q)
  BY <1>1, <1>2 DEF Good, Chosen, Agree, Field
<1>6. Closed(q)
  BY <1>1, <1>2, <1>3 DEF Good, Closed, Empty, Agree, Field
<1> QED
  BY <1>3, <1>4, <1>5, <1>6, ShapeKept, ShownKept, AsksKept DEF Good, Keeps, Sound, q

\* SavedAnswer goes back to the list.
LEMMA SavedAnswerGood ==
  ASSUME NEW p, NEW d, Admits(d), Good(p, d), NEW r, r.code = "ok" => Lit(p)
  PROVE  Keeps(p, SavedAnswer(p, r), d)
<1> DEFINE q == [p EXCEPT !.form.saving = FALSE]
<1>1. SavedAnswer(p, r) = IF r.code = "ok" THEN FormClose(q) ELSE q
  BY DEF SavedAnswer
<1>2. Keeps(p, q, d)
  BY SavingSet
<1> HIDE DEF q
<1>3. r.code = "ok" => Keeps(q, FormClose(q), d)
  BY <1>2, FormCloseGood DEF Keeps, Sound
<1> QED
  BY <1>1, <1>2, <1>3 DEF Keeps, Sound

\* DeletedAnswer strikes the login off the list it has.
LEMMA DeletedAnswerGood ==
  ASSUME NEW p, NEW d, Admits(d), Good(p, d), NEW c, NEW r,
         r.code = "ok" => Lit(p) /\ c.arg \in Login
  PROVE  Keeps(p, DeletedAnswer(p, c, r), d)
<1>1. CASE r.code # "ok"
  BY <1>1 DEF DeletedAnswer, Keeps, Sound
<1>2. CASE r.code = "ok" /\ c.use = "detail"
  <2>1. DeletedAnswer(p, c, r) = ListShow(DetailHide(p), None, None)
    BY <1>2 DEF DeletedAnswer
  <2>2. Keeps(p, DetailHide(p), d)
    BY DetailHideGood
  <2>3. None \in Maybe(d.lists) /\ Lit(DetailHide(p)) /\ Good(DetailHide(p), d)
    BY <1>2, <2>2 DEF Keeps, Sound, Maybe
  <2>4. Keeps(DetailHide(p), ListShow(DetailHide(p), None, None), d)
    BY <2>3, ListShowGood
  <2> QED
    BY <2>1, <2>2, <2>4 DEF Keeps, Sound
<1>3. CASE r.code = "ok" /\ c.use # "detail"
  <2> DEFINE q == IF p.list = None THEN p ELSE [p EXCEPT !.list.of[c.arg] = Gone]
  <2>1. DeletedAnswer(p, c, r) = Filter(q)
    BY <1>3 DEF DeletedAnswer
  <2>2. Keeps(p, q, d)
    <3>1. CASE p.list = None
      BY <3>1 DEF Keeps, Sound
    <3>2. CASE p.list # None
      <4> DEFINE x == [p.list EXCEPT !.of[c.arg] = Gone]
      <4>1. q = [p EXCEPT !.list = x]
        BY <3>2
      <4>2. x \in d.lists /\ x # None /\ Lit(p)
        BY <1>3, <3>2 DEF Good, Holds, Maybe, Admits
      <4> HIDE DEF x, q
      <4>3. Agree(p, q, Field \ {"list"}) /\ q.list = x
        BY <4>1 DEF Good, Shape, Agree, Field
      <4>4. Agree(p, q, ShapeF) /\ Agree(p, q, ChosenF) /\ Agree(p, q, ShownF) /\ Agree(p, q, AsksF)
            /\ Lit(q) /\ q.slips = p.slips
        BY <4>2, <4>3 DEF Agree, Field, ShapeF, ChosenF, ShownF, AsksF, Lit
      <4>5. Holds(q, d)
        BY <3>2, <4>2, <4>3 DEF Good, Holds, HeldOf, Agree, Field, Maybe
      <4>6. Closed(q)
        BY <4>3, <4>4 DEF Good, Closed, Agree, Field
      <4> QED
        BY <4>4, <4>5, <4>6, ShapeKept, ChosenKept, ShownKept, AsksKept DEF Good, Keeps, Sound
    <3> QED
      BY <3>1, <3>2
  <2> HIDE DEF q
  <2>3. Keeps(q, Filter(q), d)
    BY <1>3, <2>2, FilterGood DEF Keeps, Sound
  <2> QED
    BY <2>1, <2>2, <2>3 DEF Keeps, Sound
<1> QED
  BY <1>1, <1>2, <1>3

\* ItemChanged forgets the cards and asks for them again.
LEMMA ItemChangedGood ==
  ASSUME NEW p, NEW d, Admits(d), Good(p, d), NEW r, r.code = "ok" => Lit(p)
  PROVE  Keeps(p, ItemChanged(p, r), d)
<1>1. Keeps(p, ForgetCards(p), d)
  BY ForgetCardsGood
<1>2. r.code = "ok" => Keeps(ForgetCards(p), RenderCards(ForgetCards(p), None), d)
  BY <1>1, RenderCardsGood DEF Keeps, Sound
<1>3. Keeps(p, p, d)
  BY DEF Keeps, Sound
<1> QED
  BY <1>1, <1>2, <1>3 DEF Keeps, Sound, ItemChanged

(***************************************************************************)
(* Any answer                                                              *)
(***************************************************************************)
\* What is done with an answer that has been received.
Handled(p, c, r) ==
    IF c.use = "migrate" THEN MigrationAnswer(p, c, r) ELSE
    CASE c.what = "bootstrap" -> BootstrapAnswer(p, c, r)
      [] c.what = "status" ->
             Show(IF p.unlocked THEN Slip(Hide(p, "boot"), "overlaid") ELSE Hide(p, "boot"), "login")
      [] c.what = "resume" -> ResumeAnswer(p, c)
      [] c.what = "login" -> LoginAnswer(p, r)
      [] c.what = "list" -> ListAnswer(p, c, r)
      [] c.what = "login entry" ->
             IF c.use \in {"show", "restore"} THEN DetailShown(p, c, r) ELSE DetailActs(p, c, r)
      [] c.what \in {"create", "update"} -> SavedAnswer(p, r)
      [] c.what = "delete" -> DeletedAnswer(p, c, r)
      [] c.what = "items" -> CardsListed(p, c, r)
      [] c.what \in ItemMutations -> ItemChanged(p, r)
      [] c.what = "logout" -> p

\* What the handlers above ask of an answer.
Suits(p, c, r, d) ==
    /\ r.code = "ok" =>
       /\ c.what = "list" /\ Fresh(c, {"render"}) => Lit(p) /\ r.data \in Maybe(d.lists)
       /\ c.what = "login entry" /\ DetailCurrent(c) =>
             r.data \in Maybe(d.logins) /\ (r.data # None => Lit(p) /\ r.data.id = p.detail.id)
       /\ c.what = "bootstrap" /\ r.data.unlocked => r.data.snapshot \in Maybe(d.lists)
       /\ c.what \in Mutations => Lit(p)
       /\ c.what \in ItemMutations /\ c.use # "migrate" => Lit(p)
       /\ c.what = "items" /\ c.use = "migrate" => r.data \in CardData
       /\ c.what = "items" /\ c.use = "render" /\ Fresh(c, {"render"}) => Lit(p) /\ r.data \in d.rows
       /\ c.what = "items" /\ c.use \in {"edit", "delete"} => Lit(p) /\ r.data \in d.rows
       /\ c.what = "items" /\ c.use # "migrate" /\ Fresh(c, {"cache"}) => Lit(p) /\ r.data \in d.cards
       /\ c.what = "local" => r.data \in Seq(Card)
    /\ c.what = "resume" /\ Fresh(c, {"render"}) => Lit(p) /\ c.arg \in Maybe(d.lists)
    /\ c.what = "login entry" /\ c.use = "restore" /\ Fresh(c, {"render"}) /\ Fresh(c, {"view"})
       /\ ~Shows(p, "login") => Lit(p) /\ c.got \in Maybe(d.lists)

\* The login screen is shown; over an unlocked view, that is a slip.
LEMMA StatusGood ==
  ASSUME NEW p, NEW d, Good(p, d)
  PROVE  Keeps(p, Show(IF p.unlocked THEN Slip(Hide(p, "boot"), "overlaid") ELSE Hide(p, "boot"), "login"), d)
<1> DEFINE h == Hide(p, "boot")  s == IF p.unlocked THEN Slip(h, "overlaid") ELSE h
<1>1. Keeps(p, h, d) /\ h.unlocked = p.unlocked
  <2>1. Keeps(p, h, d) /\ Agree(p, h, Field \ {"screens"})
    BY HideGood
  <2> QED
    BY <2>1 DEF Agree, Field
<1> HIDE DEF h
<1>2. Keeps(h, s, d) /\ (~s.unlocked \/ "overlaid" \in s.slips)
  <2>1. CASE p.unlocked
    <3>1. s = Slip(h, "overlaid")
      BY <2>1
    <3>2. "overlaid" \in {"overlaid", "astray", "deaf"}
      OBVIOUS
    <3>3. Keeps(h, Slip(h, "overlaid"), d) /\ Slip(h, "overlaid").slips = h.slips \cup {"overlaid"}
      BY <1>1, <3>2, SlipGood DEF Keeps, Sound
    <3> QED
      BY <3>1, <3>3
  <2>2. CASE ~p.unlocked
    BY <1>1, <2>2 DEF Keeps, Sound
  <2> QED
    BY <2>1, <2>2
<1> HIDE DEF s
<1>3. "login" \in ScreenSet
  BY DEF ScreenSet
<1> DEFINE q == Show(s, "login")
<1>4. Good(q, d) /\ Agree(s, q, Field \ {"screens"}) /\ (Shown(s) => Shown(q))
      /\ \A x : Follows(s, x) => Follows(q, x)
  BY <1>2, <1>3, ShowGood DEF Keeps, Sound
<1> HIDE DEF q
<1>5. Keeps(s, q, d)
  BY <1>4 DEF Keeps, Sound, Lit, Agree, Field
<1> QED
  BY <1>1, <1>2, <1>5 DEF Keeps, Sound, q, s, h

\* Any answer that suits is handled well.
LEMMA HandledGood ==
  ASSUME NEW p, NEW d, Admits(d), Good(p, d), NEW c, Kinds(c), c.use # "dead", NEW r, Suits(p, c, r, d)
  PROVE  Keeps(p, Handled(p, c, r), d)
<1>1. CASE c.use = "migrate"
  <2>1. Handled(p, c, r) = MigrationAnswer(p, c, r)
    BY <1>1 DEF Handled, ItemMutations
  <2>2. c.what \in {"local", "forget local", "items", "create item"} /\ (c.what = "create item" => c.arg \in Card)
    BY <1>1 DEF Kinds
  <2>3. r.code = "ok" /\ c.what = "local" => r.data \in Seq(Card)
    BY DEF Suits
  <2>4. r.code = "ok" /\ c.what = "items" => r.data \in CardData
    BY <1>1 DEF Suits
  <2>5. MigrationStep(c, r)
    BY <2>2, <2>3, <2>4 DEF MigrationStep
  <2> QED
    BY <2>1, <2>5, MigrationAnswerGood
<1>2. CASE c.use # "migrate" /\ c.what = "bootstrap"
  <2>1. Handled(p, c, r) = BootstrapAnswer(p, c, r)
    BY <1>2 DEF Handled, ItemMutations
  <2> QED
    BY <1>2, <2>1, BootstrapAnswerGood DEF Suits
<1>3. CASE c.use # "migrate" /\ c.what = "status"
  BY <1>3, StatusGood DEF Handled, ItemMutations
<1>4. CASE c.use # "migrate" /\ c.what = "resume"
  <2>1. Handled(p, c, r) = ResumeAnswer(p, c)
    BY <1>4 DEF Handled, ItemMutations
  <2> QED
    BY <1>4, <2>1, ResumeAnswerGood DEF Suits
<1>5. CASE c.use # "migrate" /\ c.what = "login"
  <2>1. Handled(p, c, r) = LoginAnswer(p, r)
    BY <1>5 DEF Handled, ItemMutations
  <2> QED
    BY <2>1, LoginAnswerGood
<1>6. CASE c.use # "migrate" /\ c.what = "list"
  <2>1. Handled(p, c, r) = ListAnswer(p, c, r)
    BY <1>6 DEF Handled, ItemMutations
  <2> QED
    BY <1>6, <2>1, ListAnswerGood DEF Suits
<1>7. CASE c.use # "migrate" /\ c.what = "login entry"
  <2>1. CASE c.use \in {"show", "restore"}
    <3>1. Handled(p, c, r) = DetailShown(p, c, r)
      BY <1>7, <2>1 DEF Handled, ItemMutations
    <3> QED
      BY <1>7, <3>1, DetailShownGood DEF Suits
  <2>2. CASE c.use \notin {"show", "restore"}
    <3>1. Handled(p, c, r) = DetailActs(p, c, r)
      BY <1>7, <2>2 DEF Handled, ItemMutations
    <3>2. c.use \in {"refresh", "reveal", "edit"}
      BY <1>7, <2>2 DEF Kinds
    <3>3. r.code = "ok" /\ DetailCurrent(c) =>
             r.data \in Maybe(d.logins) /\ (r.data # None => Lit(p) /\ r.data.id = p.detail.id)
      BY <1>7 DEF Suits
    <3> QED
      BY <3>1, <3>2, <3>3, DetailActsGood
  <2> QED
    BY <2>1, <2>2
<1>8. CASE c.use # "migrate" /\ c.what \in {"create", "update"}
  <2>1. Handled(p, c, r) = SavedAnswer(p, r)
    BY <1>8 DEF Handled, ItemMutations
  <2> QED
    BY <1>8, <2>1, SavedAnswerGood DEF Suits, Mutations
<1>9. CASE c.use # "migrate" /\ c.what = "delete"
  <2>1. Handled(p, c, r) = DeletedAnswer(p, c, r)
    BY <1>9 DEF Handled, ItemMutations
  <2>2. c.arg \in Login
    BY <1>9 DEF Kinds
  <2> QED
    BY <1>9, <2>1, <2>2, DeletedAnswerGood DEF Suits, Mutations
<1>10. CASE c.use # "migrate" /\ c.what = "items"
  <2>1. Handled(p, c, r) = CardsListed(p, c, r)
    BY <1>10 DEF Handled, ItemMutations
  <2>2. c.use \in {"render", "edit", "delete"} /\ (c.use # "render" => c.arg \in Item)
    BY <1>10 DEF Kinds
  <2>3. r.code = "ok" /\ (c.use = "render" => "render" \in c.fresh) => Lit(p) /\ r.data \in d.rows
    BY <1>10, <2>2 DEF Suits, Fresh
  <2>4. r.code = "ok" /\ "cache" \in c.fresh => Lit(p) /\ r.data \in d.cards
    BY <1>10 DEF Suits, Fresh
  <2> QED
    BY <2>1, <2>2, <2>3, <2>4, CardsListedGood
<1>11. CASE c.use # "migrate" /\ c.what \in ItemMutations
  <2>1. Handled(p, c, r) = ItemChanged(p, r)
    BY <1>11 DEF Handled, ItemMutations
  <2> QED
    BY <1>11, <2>1, ItemChangedGood DEF Suits
<1>12. CASE c.use # "migrate" /\ c.what = "logout"
  BY <1>12 DEF Handled, Keeps, Sound, ItemMutations
<1> QED
  BY <1>1, <1>2, <1>3, <1>4, <1>5, <1>6, <1>7, <1>8, <1>9, <1>10, <1>11, <1>12 DEF Kinds, Mutations

\* q is good whatever is admitted: it has nothing of the vault.
Anew(q) == Shown(q) /\ \A d : Admits(d) => Good(q, d)
\* A view that is lost: nothing of the vault is left, and what is on its way stays.
Cleared(p, q) == Anew(q) /\ \A b : Follows(p, b) => Follows(q, b)

\* Answered keeps the popup good, or leaves it with nothing: an answer that came
\* after a lock suits because its counters have moved.
LEMMA AnsweredGood ==
  ASSUME NEW p, NEW d, Admits(d), Good(p, d), NEW c, CallOk(c, Lit(p), p.detail.id, d), c.use # "dead",
         NEW r, AnswerOk(c, r), Fits(c, r, d)
  PROVE  LET q == Answered(p, c, r)
         IN  Keeps(p, q, d) \/ Cleared(p, q)
<1>0. Kinds(c)
  BY DEF CallOk
<1> DEFINE v == Received(p, c, r)
<1>4. Answered(p, c, r) = Handled(v[1], c, v[2])
  BY DEF Answered, Handled
<1> HIDE DEF v
<1>1. CASE c.what \notin Storage \cup {"logout"} /\ ~Fresh(c, {"view"})
  <2> DEFINE s == Failed("lost")
  <2>1. Answered(p, c, r) = Handled(p, c, s)
    <3>1. v = <<p, s>>
      BY <1>1 DEF Received, v
    <3> QED
      BY <1>4, <3>1
  <2>2. s.code = "lost"
    BY DEF Failed
  <2> HIDE DEF s
  <2>3. Suits(p, c, s, d)
    BY <1>1, <2>2 DEF Suits, Storage
  <2> QED
    BY <1>0, <2>1, <2>3, HandledGood
<1>2. CASE ~(c.what \notin Storage \cup {"logout"} /\ ~Fresh(c, {"view"})) /\ r.code = "lost"
  <2> DEFINE l == LoseSession(p)  q == Handled(l, c, r)
  <2>1. Answered(p, c, r) = q
    <3>1. v = <<l, r>>
      BY <1>2 DEF Received, v
    <3> QED
      BY <1>4, <3>1
  <2>2. c.what \notin Storage
    BY <1>2 DEF AnswerOk
  <2>3. (\A e : Good(l, e)) /\ Shown(l) /\ Shows(l, "login")
        /\ \A x : Follows(p, x) => Follows(l, x)
    BY LoseSessionGood DEF Shows
  <2> HIDE DEF l
  <2>4. ASSUME NEW e, Admits(e) PROVE Keeps(l, q, e)
    <3>1. Suits(l, c, r, e)
      BY <1>2, <2>2, <2>3 DEF Suits, Storage
    <3> QED
      BY <1>0, <2>3, <2>4, <3>1, HandledGood
  <2> HIDE DEF q
  <2>5. Shown(q)
    BY <2>3, <2>4 DEF Keeps, Sound
  <2>6. \A e : Admits(e) => Good(q, e)
    BY <2>4 DEF Keeps, Sound
  <2> QED
    BY <2>1, <2>3, <2>4, <2>5, <2>6 DEF Anew, Cleared, Keeps
<1>3. CASE ~(c.what \notin Storage \cup {"logout"} /\ ~Fresh(c, {"view"})) /\ r.code # "lost"
  <2>1. Answered(p, c, r) = Handled(p, c, r)
    <3>1. v = <<p, r>>
      BY <1>3 DEF Received, v
    <3> QED
      BY <1>4, <3>1
  <2>2. ASSUME r.code = "ok"
        PROVE
       /\ c.what = "list" /\ Fresh(c, {"render"}) => Lit(p) /\ r.data \in Maybe(d.lists)
       /\ c.what = "login entry" /\ DetailCurrent(c) =>
             r.data \in Maybe(d.logins) /\ (r.data # None => Lit(p) /\ r.data.id = p.detail.id)
       /\ c.what = "bootstrap" /\ r.data.unlocked => r.data.snapshot \in Maybe(d.lists)
       /\ c.what \in Mutations => Lit(p)
       /\ c.what \in ItemMutations /\ c.use # "migrate" => Lit(p)
       /\ c.what = "items" /\ c.use = "migrate" => r.data \in CardData
       /\ c.what = "items" /\ c.use = "render" /\ Fresh(c, {"render"}) => Lit(p) /\ r.data \in d.rows
       /\ c.what = "items" /\ c.use \in {"edit", "delete"} => Lit(p) /\ r.data \in d.rows
       /\ c.what = "items" /\ c.use # "migrate" /\ Fresh(c, {"cache"}) => Lit(p) /\ r.data \in d.cards
       /\ c.what = "local" => r.data \in Seq(Card)
    <3>1. c.what \notin Storage \cup {"logout"} => "view" \in c.fresh
      BY <1>3 DEF Fresh
    <3>2. NeedsView(c) /\ c.what # "resume" => Lit(p)
      BY <3>1 DEF CallOk, Opens, NeedsView, Storage, Mutations
    <3>3. c.what = "list" /\ Fresh(c, {"render"}) => Lit(p) /\ r.data \in Maybe(d.lists)
      BY <2>2, <3>1, <3>2 DEF Fits, Fresh, NeedsView, Storage
    <3>4. c.what = "login entry" /\ DetailCurrent(c) => r.data \in Maybe(d.logins)
      BY <2>2, <3>1, <3>2 DEF Fits, Fresh, DetailCurrent, Storage
    <3>5. c.what = "login entry" /\ DetailCurrent(c) => (r.data # None => Lit(p) /\ r.data.id = p.detail.id)
      BY <2>2, <3>1, <3>2 DEF Fresh, DetailCurrent, NeedsView, AnswerOk, CallOk, Carries
    <3>6. c.what = "bootstrap" /\ r.data.unlocked => r.data.snapshot \in Maybe(d.lists)
      BY <2>2, <3>1 DEF Fits, Fresh, Storage
    <3>7. (c.what \in Mutations => Lit(p)) /\ (c.what \in ItemMutations /\ c.use # "migrate" => Lit(p))
      BY <3>2 DEF NeedsView, Mutations, ItemMutations
    <3>8. (c.what = "items" /\ c.use = "migrate" => r.data \in CardData) /\ (c.what = "local" => r.data \in Seq(Card))
      BY <2>2 DEF AnswerOk
    <3>9. c.what = "items" /\ c.use = "render" /\ Fresh(c, {"render"}) => Lit(p) /\ r.data \in d.rows
      BY <2>2, <3>1 DEF Fits, Fresh, Storage, CallOk, Opens, NeedsRender
    <3>10. c.what = "items" /\ c.use \in {"edit", "delete"} => Lit(p) /\ r.data \in d.rows
      BY <2>2, <3>1, <3>2 DEF Fits, Fresh, Storage, NeedsView
    <3>11. c.what = "items" /\ c.use # "migrate" /\ Fresh(c, {"cache"}) => Lit(p) /\ r.data \in d.cards
      BY <2>2, <3>1 DEF Fits, Fresh, Storage, CallOk, Opens
    <3> QED
      BY <3>3, <3>4, <3>5, <3>6, <3>7, <3>8, <3>9, <3>10, <3>11
  <2>3. c.what = "resume" /\ Fresh(c, {"render"}) => Lit(p) /\ c.arg \in Maybe(d.lists)
    BY DEF CallOk, Opens, NeedsRender, Carries, Fresh
  <2>4. c.what = "login entry" /\ c.use = "restore" /\ Fresh(c, {"render"}) /\ Fresh(c, {"view"})
        => Lit(p) /\ c.got \in Maybe(d.lists)
    BY DEF CallOk, Opens, NeedsView, Carries, Fresh
  <2>5. Suits(p, c, r, d)
    BY <2>2, <2>3, <2>4 DEF Suits
  <2> QED
    BY <1>0, <2>1, <2>5, HandledGood
<1> QED
  BY <1>1, <1>2, <1>3

(***************************************************************************)
(* Announcements                                                           *)
(***************************************************************************)
\* Who shows or holds something of the vault is lit.
LEMMA LitIf ==
  ASSUME NEW p, NEW d, Good(p, d),
         \/ Shows(p, "list") \/ Shows(p, "detail") \/ Shows(p, "form") \/ p.lockBtn \/ p.dialogs # {}
         \/ p.list # None \/ p.detail.login # None \/ p.form.from # None
  PROVE  Lit(p)
BY DEF Good, Closed, Empty, Shows

\* ListRefresh asks for the list.
LEMMA ListRefreshGood ==
  ASSUME NEW p, NEW d, Good(p, d), Lit(p), NEW use, use # "migrate"
  PROVE  Keeps(p, ListRefresh(p, use), d)
<1>1. NewCall(Request("list", use, None, None), Lit(p), p.detail.id, d)
  BY ListRequest
<1>2. ListRefresh(p, use) = SendCall(p, Request("list", use, None, None))
  BY DEF ListRefresh, Send
<1> QED
  BY <1>1, <1>2, SendGood

\* DetailRefresh asks for the login that is open.
LEMMA DetailRefreshGood ==
  ASSUME NEW p, NEW d, Good(p, d), Lit(p)
  PROVE  Keeps(p, DetailRefresh(p), d)
<1>1. CASE p.detail.id # None /\ Shows(p, "detail")
  <2> DEFINE c == Request("login entry", "refresh", p.detail.id, None)
  <2>1. p.detail.id \in Login /\ "refresh" \in {"show", "refresh", "reveal", "edit"}
    BY <1>1 DEF Good, Holds, Maybe
  <2>2. NewCall(c, Lit(p), p.detail.id, d)
    BY <2>1, LoginRequest
  <2>3. DetailRefresh(p) = SendCall(p, c)
    BY <1>1 DEF DetailRefresh, Send
  <2> HIDE DEF c
  <2> QED
    BY <2>2, <2>3, SendGood
<1>2. CASE ~(p.detail.id # None /\ Shows(p, "detail"))
  BY <1>2 DEF DetailRefresh, Keeps, Sound
<1> QED
  BY <1>1, <1>2

\* Reread drops what is shown and asks for it again.
LEMMA RereadGood ==
  ASSUME NEW p, NEW d, Admits(d), Good(p, d), Lit(p)
  PROVE  Keeps(p, Reread(p), d)
<1> DEFINE b == Bump(p, {"render"})  l == ListInvalidate(b)  q == DetailInvalidate(l)
<1>1. Keeps(p, b, d)
  BY BumpGood
<1> HIDE DEF b
<1>2. Keeps(b, l, d)
  BY <1>1, ListInvalidateGood DEF Keeps, Sound
<1> HIDE DEF l
<1>3. Keeps(l, q, d)
  BY <1>2, DetailInvalidated DEF Keeps, Sound
<1>4. Reread(p) = IF q.form.editing # None THEN FormClose(q)
                  ELSE IF Shows(q, "detail") /\ q.detail.id # None THEN DetailShow(q, q.detail.id)
                  ELSE IF OnPasswords(q) THEN ListRefresh(q, "reload")
                  ELSE q
  BY DEF Reread, l, b
<1> HIDE DEF q
<1>5. Keeps(p, q, d) /\ Good(q, d) /\ Lit(q)
  BY <1>1, <1>2, <1>3 DEF Keeps, Sound
<1>6. Keeps(q, FormClose(q), d)
  BY <1>5, FormCloseGood
<1>7. q.detail.id # None => Keeps(q, DetailShow(q, q.detail.id), d)
  <2>1. q.detail.id \in Maybe(Login)
    BY <1>5 DEF Good, Holds
  <2> QED
    BY <1>5, <2>1, DetailShowGood DEF Maybe
<1>8. Keeps(q, ListRefresh(q, "reload"), d)
  BY <1>5, ListRefreshGood
<1> QED
  BY <1>4, <1>5, <1>6, <1>7, <1>8 DEF Keeps, Sound

\* DropKeys drops what is no longer there.
LEMMA DropKeysGood ==
  ASSUME NEW p, NEW d, Admits(d), Good(p, d), Lit(p), NEW e
  PROVE  Keeps(p, DropKeys(p, e), d)
<1> DEFINE q == IF "list" \in e.invalid THEN ListInvalidate(p) ELSE p
           r == IF q.detail.id \in e.invalid THEN DetailInvalidate(q) ELSE q
<1>1. Keeps(p, q, d)
  BY ListInvalidateGood DEF Keeps, Sound
<1> HIDE DEF q
<1>2. Keeps(q, r, d)
  BY <1>1, DetailInvalidated DEF Keeps, Sound
<1>3. DropKeys(p, e) = IF r.form.editing \in e.invalid THEN FormClose(r) ELSE r
  BY DEF DropKeys, r, q
<1> HIDE DEF r
<1>4. Keeps(r, FormClose(r), d)
  BY <1>1, <1>2, FormCloseGood DEF Keeps, Sound
<1> QED
  BY <1>1, <1>2, <1>3, <1>4 DEF Keeps, Sound

\* RenewKeys asks for what has changed.
LEMMA RenewKeysGood ==
  ASSUME NEW p, NEW d, Good(p, d), Lit(p), NEW e
  PROVE  Keeps(p, RenewKeys(p, e), d)
<1> DEFINE q == IF "list" \in e.updated THEN ListRefresh(p, "refresh") ELSE p
<1>1. Keeps(p, q, d)
  BY ListRefreshGood DEF Keeps, Sound
<1>2. RenewKeys(p, e) = IF q.detail.id \in e.updated THEN DetailRefresh(q) ELSE q
  BY DEF RenewKeys
<1> HIDE DEF q
<1>3. Keeps(q, DetailRefresh(q), d)
  BY <1>1, DetailRefreshGood DEF Keeps, Sound
<1> QED
  BY <1>1, <1>2, <1>3 DEF Keeps, Sound

\* Announced keeps the popup good, or leaves it with nothing.
LEMMA AnnouncedGood ==
  ASSUME NEW p, NEW d, Admits(d), Good(p, d), NEW e
  PROVE  LET q == Announced(p, e)
         IN  Keeps(p, q, d) \/ Cleared(p, q)
<1>1. CASE e.kind = "token" /\ ~Shows(p, "login")
  <2>1. Announced(p, e) = LoseSession(p)
    BY <1>1 DEF Announced
  <2> QED
    BY <2>1, LoseSessionGood DEF Anew, Cleared
<1>2. CASE e.kind = "token" /\ Shows(p, "login")
  BY <1>2 DEF Announced, Keeps, Sound
<1>3. CASE e.kind # "token" /\ ~p.lockBtn
  <2>1. "deaf" \in {"overlaid", "astray", "deaf"}
    OBVIOUS
  <2>2. Keeps(p, Slip(p, "deaf"), d)
    BY <2>1, SlipGood
  <2>3. Announced(p, e) = IF p.unlocked THEN Slip(p, "deaf") ELSE p
    BY <1>3 DEF Announced
  <2>4. Keeps(p, p, d)
    BY DEF Keeps, Sound
  <2> QED
    BY <2>2, <2>3, <2>4
<1>4. CASE e.kind # "token" /\ p.lockBtn
  <2>1. Lit(p)
    BY <1>4, LitIf
  <2>2. Keeps(p, DropKeys(p, e), d)
    BY <2>1, DropKeysGood
  <2>3. Keeps(DropKeys(p, e), RenewKeys(DropKeys(p, e), e), d)
    BY <2>1, <2>2, RenewKeysGood DEF Keeps, Sound
  <2>4. Keeps(p, Reread(p), d)
    BY <2>1, RereadGood
  <2>5. Announced(p, e) = IF e.kind = "invalidated" THEN Reread(p) ELSE RenewKeys(DropKeys(p, e), e)
    BY <1>4 DEF Announced
  <2> QED
    BY <2>2, <2>3, <2>4, <2>5 DEF Keeps, Sound
<1> QED
  BY <1>1, <1>2, <1>3, <1>4

(***************************************************************************)
(* The user                                                                *)
(***************************************************************************)
\* A popup that was just opened has nothing of the vault, whatever the worker still
\* has to do for the one before.
LEMMA OpenedGood ==
  ASSUME NEW resume \in Maybe(Login), NEW sent, IsSeq(sent),
         \A c \in Elems(sent) : Kinds(c) /\ c.use = "dead"
  PROVE  LET q == Opened(resume, sent)
         IN  /\ Anew(q) /\ q.inbox = <<>> /\ IsSeq(q.inbox)
             /\ \A c \in Elems(q.sent) : c.use = "dead" \/ Began(c)
<1> DEFINE p == [screens |-> {"boot"}, unlocked |-> FALSE, slips |-> {}, lockBtn |-> FALSE, busy |-> FALSE,
          tab |-> "passwords",
          rows |-> Rows("blank", None), list |-> None, detail |-> NoLogin,
          form |-> [editing |-> None, from |-> None, saving |-> FALSE], dialogs |-> {},
          cards |-> None, migration |-> "no", left |-> <<>>, known |-> {}, waiting |-> <<>>,
          old |-> {}, timers |-> {}, resume |-> resume, sent |-> sent, inbox |-> <<>>]
           c == Request("bootstrap", "boot", None, None)
<1>1. Opened(resume, sent) = SendCall(p, c)
  BY DEF Opened, Send
<1>2. DOMAIN p = Field /\ p.screens = {"boot"} /\ p.unlocked = FALSE /\ p.slips = {} /\ p.lockBtn = FALSE
      /\ p.busy = FALSE /\ p.tab = "passwords" /\ p.rows = [kind |-> "blank", of |-> None] /\ p.list = None
      /\ p.detail = [id |-> None, login |-> None, revealed |-> FALSE]
      /\ p.form = [editing |-> None, from |-> None, saving |-> FALSE] /\ p.dialogs = {}
  BY DEF Field, Rows, NoLogin
<1>3. p.cards = None /\ p.migration = "no" /\ p.left = <<>> /\ p.known = {} /\ p.waiting = <<>>
      /\ p.old = {} /\ p.timers = {} /\ p.resume = resume /\ p.sent = sent /\ p.inbox = <<>>
  OBVIOUS
<1> HIDE DEF p
<1>4. Shape(p)
  <2>1. p.left \in Seq(Card)
    BY <1>3
  <2> QED
    BY <1>2, <1>3, <2>1 DEF Shape, Tabs
<1>5. Chosen(p) /\ Shown(p) /\ Closed(p)
  BY <1>2, <1>3 DEF Chosen, Shown, Closed, Empty
<1>6. ASSUME NEW d PROVE Good(p, d)
  <2>1. Holds(p, d)
    BY <1>2, <1>3 DEF Holds, Maybe
  <2>2. IsSeq(<<>>) /\ Elems(<<>>) = {}
    BY DEF IsSeq, Elems
  <2>3. Asks(p, d)
    <3>1. AsksSent(p.sent, Lit(p), p.detail.id, d)
      BY <1>3 DEF AsksSent, CallOk
    <3>2. AsksWaiting(p.waiting, Lit(p), p.detail.id, d)
      BY <1>3, <2>2 DEF AsksWaiting
    <3>3. AsksInbox(p.inbox, Lit(p), p.detail.id, d)
      BY <1>3, <2>2 DEF AsksInbox
    <3> QED
      BY <3>1, <3>2, <3>3 DEF Asks
  <2> QED
    BY <1>4, <1>5, <2>1, <2>3 DEF Good
<1>10. \A d : NewCall(c, Lit(p), p.detail.id, d)
  BY PlainRequest
<1>7. ASSUME NEW d PROVE Keeps(p, SendCall(p, c), d)
  <2> HIDE DEF c
  <2> QED
    BY <1>6, <1>10, SendGood
<1> HIDE DEF c
<1>8. Anew(SendCall(p, c))
  BY <1>5, <1>7 DEF Anew, Keeps, Sound
<1> DEFINE q == SendCall(p, c)
<1>9. Agree(p, q, ViewF \cup {"waiting", "inbox"}) /\ q.sent = Append(p.sent, c)
  BY <1>6, <1>10, SendGood
<1> HIDE DEF q
<1>11. q.inbox = <<>> /\ IsSeq(q.inbox)
  <2>1. q.inbox = p.inbox
    BY <1>9 DEF Agree
  <2> QED
    BY <1>3, <2>1, EmptySeq DEF IsSeq
<1>12. Elems(q.sent) = Elems(sent) \cup {c}
  BY <1>3, <1>9, Appended
<1> QED
  BY <1>1, <1>8, <1>10, <1>11, <1>12 DEF NewCall, q

\* DetailAction: what has expired is dropped, not used.
LEMMA DetailActionGood ==
  ASSUME NEW p, NEW d, Good(p, d), Shows(p, "detail"), NEW use \in {"reveal", "edit"}
  PROVE  LET q == IF "detail" \in p.old THEN DetailInvalidate(p)
                  ELSE Send(p, "login entry", use, p.detail.id)
         IN  Keeps(p, q, d)
<1> DEFINE c == Request("login entry", use, p.detail.id, None)
<1>1. Lit(p)
  BY LitIf
<1>2. p.detail.id \in Login /\ use \in {"show", "refresh", "reveal", "edit"}
  BY DEF Good, Holds, Chosen, Maybe, Shows
<1>3. NewCall(c, Lit(p), p.detail.id, d)
  BY <1>1, <1>2, LoginRequest
<1>4. Send(p, "login entry", use, p.detail.id) = SendCall(p, c)
  BY DEF Send
<1> HIDE DEF c
<1> QED
  BY <1>3, <1>4, SendGood, DetailInvalidated

\* Confirmed asks for what the dialog is about.
LEMMA ConfirmedGood ==
  ASSUME NEW p, NEW d, Good(p, d), Lit(p), NEW x \in Dialogs(d), NEW card \in Card
  PROVE  Keeps(p, Confirmed(p, x, card), d)
<1>1. CASE x.kind \in LoginDialog
  <2> DEFINE c == Request("delete", IF x.kind = "delete row" THEN "list" ELSE "detail", x.id, None)
  <2>1. Confirmed(p, x, card) = SendCall(p, c)
    BY <1>1 DEF Confirmed, Send, LoginDialog
  <2>2. x.id \in Login
    BY <1>1 DEF Dialogs, LoginDialog, CardDialog
  <2>3. "delete" \in Mutations
    BY DEF Mutations
  <2>4. NewCall(c, Lit(p), p.detail.id, d)
    BY <2>2, <2>3, ChangeRequest
  <2> HIDE DEF c
  <2> QED
    BY <2>1, <2>4, SendGood
<1>2. CASE x.kind = "add card"
  <2> DEFINE c == Request("create item", "add", card, None)
  <2>1. Confirmed(p, x, card) = SendCall(p, c)
    BY <1>2 DEF Confirmed, Send
  <2>2. "create item" \in ItemMutations
    BY DEF ItemMutations
  <2>3. NewCall(c, Lit(p), p.detail.id, d)
    BY <2>2, CardChangeRequest
  <2> HIDE DEF c
  <2> QED
    BY <2>1, <2>3, SendGood
<1>3. CASE x.kind = "edit card"
  <2> DEFINE a == [id |-> x.id, card |-> card]  c == Request("update item", "edit", a, None)
  <2>1. Confirmed(p, x, card) = SendCall(p, c)
    BY <1>3 DEF Confirmed, Send
  <2>2. x.id \in Item
    BY <1>3 DEF Dialogs, LoginDialog, CardDialog
  <2>3. a \in [id : Item, card : Card] /\ "update item" \in ItemMutations
    BY <2>2 DEF ItemMutations
  <2> HIDE DEF a
  <2>4. NewCall(c, Lit(p), p.detail.id, d)
    BY <2>3, CardChangeRequest
  <2> HIDE DEF c
  <2> QED
    BY <2>1, <2>4, SendGood
<1>4. CASE x.kind = "delete card"
  <2> DEFINE c == Request("delete item", "delete", x.id, None)
  <2>1. Confirmed(p, x, card) = SendCall(p, c)
    BY <1>4 DEF Confirmed, Send
  <2>2. x.id \in Item
    BY <1>4 DEF Dialogs, LoginDialog, CardDialog
  <2>3. "delete item" \in ItemMutations
    BY DEF ItemMutations
  <2>4. NewCall(c, Lit(p), p.detail.id, d)
    BY <2>2, <2>3, CardChangeRequest
  <2> HIDE DEF c
  <2> QED
    BY <2>1, <2>4, SendGood
<1> QED
  BY <1>1, <1>2, <1>3, <1>4 DEF Dialogs, LoginDialog, CardDialog

\* A dialog is closed.
LEMMA DialogClosed ==
  ASSUME NEW p, NEW d, Good(p, d), NEW x
  PROVE  Keeps(p, [p EXCEPT !.dialogs = @ \ {x}], d)
<1> DEFINE q == [p EXCEPT !.dialogs = @ \ {x}]
<1>1. Agree(p, q, Field \ {"dialogs"}) /\ q.dialogs = p.dialogs \ {x}
  BY DEF Good, Shape, Field, Agree
<1> HIDE DEF q
<1>2. Agree(p, q, ShapeF) /\ Agree(p, q, ChosenF) /\ Agree(p, q, ShownF) /\ Agree(p, q, AsksF)
      /\ (Lit(p) <=> Lit(q)) /\ q.slips = p.slips
  BY <1>1 DEF Agree, Field, ShapeF, ChosenF, ShownF, AsksF, Lit
<1>3. Holds(q, d)
  BY <1>1 DEF Good, Holds, HeldOf, Agree, Field
<1>4. Closed(q)
  BY <1>1, <1>2 DEF Good, Closed, Empty, Agree, Field
<1> QED
  BY <1>2, <1>3, <1>4, ShapeKept, ChosenKept, ShownKept, AsksKept DEF Good, Keeps, Sound, q

\* Time passes.
LEMMA OldSet ==
  ASSUME NEW p, NEW d, Good(p, d)
  PROVE  Keeps(p, [p EXCEPT !.old = HeldOf(p)], d)
<1> DEFINE q == [p EXCEPT !.old = HeldOf(p)]
<1>1. Agree(p, q, Field \ {"old"}) /\ q.old = HeldOf(p)
  BY DEF Good, Shape, Field, Agree
<1> HIDE DEF q
<1>2. Agree(p, q, ShapeF) /\ Agree(p, q, ChosenF) /\ Agree(p, q, ShownF) /\ Agree(p, q, AsksF)
      /\ Agree(p, q, ClosedF) /\ (Lit(p) <=> Lit(q)) /\ q.slips = p.slips
  BY <1>1 DEF Agree, Field, ShapeF, ChosenF, ShownF, AsksF, ClosedF, Lit
<1>3. Holds(q, d)
  BY <1>1 DEF Good, Holds, HeldOf, Agree, Field
<1> QED
  BY <1>2, <1>3, ShapeKept, ChosenKept, ShownKept, AsksKept, ClosedKept DEF Good, Keeps, Sound, q

\* What the user does keeps the popup good; to lock it leaves it with nothing.
LEMMA UserKeeps ==
  ASSUME NEW d, Admits(d), Good(popup, d), User
  PROVE  Keeps(popup, popup', d) \/ Cleared(popup, popup')
<1>0. None \in Maybe(d.lists)
  BY DEF Maybe
<1>1. CASE Unlock
  <2> DEFINE b == [popup EXCEPT !.busy = TRUE]  c == Request("login", "unlock", None, None)
  <2>1. popup' = SendCall(b, c)
    BY <1>1 DEF Unlock, Changed, Send
  <2>2. Keeps(popup, b, d)
    BY BusySet
  <2> HIDE DEF b
  <2>3. NewCall(c, Lit(b), b.detail.id, d)
    BY PlainRequest
  <2> HIDE DEF c
  <2> QED
    BY <2>1, <2>2, <2>3, SendGood DEF Keeps, Sound
<1>2. CASE Poll
  <2> DEFINE c == Request("bootstrap", "resume", None, None)
  <2>1. popup' = SendCall(popup, c)
    BY <1>2 DEF Poll, Changed, Send
  <2>2. NewCall(c, Lit(popup), popup.detail.id, d)
    BY PlainRequest
  <2> HIDE DEF c
  <2> QED
    BY <2>1, <2>2, SendGood
<1>3. CASE LockButton
  <2> DEFINE c == Request("logout", "lock", None, None)  q == SendCall(popup, c)
  <2>1. popup' = LoseSession(q)
    BY <1>3 DEF LockButton, Changed, Send
  <2>2. NewCall(c, Lit(popup), popup.detail.id, d)
    BY PlainRequest
  <2> HIDE DEF c
  <2>3. Keeps(popup, q, d)
    BY <2>2, SendGood DEF Keeps, Sound
  <2> HIDE DEF q
  <2> QED
    BY <2>1, <2>3, LoseSessionGood DEF Anew, Cleared, Keeps, Sound
<1>4. CASE Back
  <2> DEFINE h == DetailHide(popup)
  <2>1. popup' = ListShow(h, None, None)
    BY <1>4 DEF Back, Changed
  <2>2. Lit(popup)
    BY <1>4, LitIf DEF Back
  <2>3. Keeps(popup, h, d)
    BY DetailHideGood
  <2> HIDE DEF h
  <2> QED
    BY <1>0, <2>1, <2>2, <2>3, ListShowGood DEF Keeps, Sound
<1>5. CASE Reveal
  <2>1. Shows(popup, "detail") /\ popup.detail.login # None /\ "reveal" \in {"reveal", "edit"}
    BY <1>5 DEF Reveal, OnLogin
  <2>2. CASE popup.detail.revealed
    <3>1. popup' = [popup EXCEPT !.detail.revealed = FALSE]
      BY <1>5, <2>2 DEF Reveal, Changed
    <3> QED
      BY <3>1, RevealedSet
  <2>3. CASE ~popup.detail.revealed
    <3>1. popup' = DetailAction("reveal")
      BY <1>5, <2>3 DEF Reveal, Changed
    <3> QED
      BY <2>1, <3>1, DetailActionGood DEF DetailAction
  <2> QED
    BY <2>2, <2>3
<1>6. CASE Edit
  <2>1. Shows(popup, "detail") /\ popup.detail.login # None /\ "edit" \in {"reveal", "edit"}
    BY <1>6 DEF Edit, OnLogin
  <2>2. popup' = DetailAction("edit")
    BY <1>6 DEF Edit, Changed
  <2> QED
    BY <2>1, <2>2, DetailActionGood DEF DetailAction
<1>7. CASE Add
  <2>1. popup' = FormAdd(popup)
    BY <1>7 DEF Add, Changed
  <2>2. Lit(popup)
    BY <1>7, LitIf DEF Add, OnPasswords
  <2> QED
    BY <2>1, <2>2, FormAddGood
<1>8. CASE Save
  <2> DEFINE q == [popup EXCEPT !.form.saving = TRUE]
             create == Request("create", "form", None, None)
             update == Request("update", "form", popup.form.editing, None)
  <2>1. popup' = IF popup.form.editing = None THEN SendCall(q, create)
                 ELSE IF "form" \in popup.old THEN FormCancel(popup)
                 ELSE SendCall(q, update)
    BY <1>8 DEF Save, Changed, Send
  <2>2. Lit(popup)
    BY <1>8, LitIf DEF Save
  <2>3. Keeps(popup, q, d)
    BY SavingSet
  <2> HIDE DEF q
  <2>4. Lit(q) /\ "create" \in Mutations /\ "update" \in Mutations
    BY <2>2, <2>3 DEF Keeps, Sound, Mutations
  <2>5. NewCall(create, Lit(q), q.detail.id, d)
    BY <2>4, ChangeRequest
  <2>6. popup.form.editing # None => NewCall(update, Lit(q), q.detail.id, d)
    <3>1. popup.form.editing # None => popup.form.editing \in Login
      BY DEF Good, Holds, Maybe
    <3> QED
      BY <2>4, <3>1, ChangeRequest
  <2> HIDE DEF create, update
  <2>7. Keeps(popup, FormCancel(popup), d)
    BY <2>2, FormCancelGood
  <2>8. Keeps(popup, SendCall(q, create), d)
    BY <2>3, <2>5, SendGood DEF Keeps, Sound
  <2>9. popup.form.editing # None => Keeps(popup, SendCall(q, update), d)
    BY <2>3, <2>6, SendGood DEF Keeps, Sound
  <2> QED
    BY <2>1, <2>7, <2>8, <2>9
<1>9. CASE Cancel
  <2>1. popup' = FormCancel(popup) /\ Lit(popup)
    BY <1>9, LitIf DEF Cancel, Changed
  <2> QED
    BY <2>1, FormCancelGood
<1>10. CASE DeleteLogin
  <2>1. popup' = OpenDialog(popup, "delete login", popup.detail.id, None) /\ Lit(popup)
    BY <1>10, LitIf DEF DeleteLogin, Changed
  <2>2. popup.detail.id \in Login
    BY <1>10 DEF DeleteLogin, Good, Holds, Maybe
  <2>3. [kind |-> "delete login", id |-> popup.detail.id, of |-> None] \in Dialogs(d)
    BY <2>2 DEF Dialogs, LoginDialog
  <2> QED
    BY <2>1, <2>3, OpenDialogGood
<1>11. CASE AddCard
  <2>1. popup' = OpenDialog(popup, "add card", None, None) /\ Lit(popup)
    BY <1>11, LitIf DEF AddCard, Changed
  <2>2. [kind |-> "add card", id |-> None, of |-> None] \in Dialogs(d)
    BY DEF Dialogs
  <2> QED
    BY <2>1, <2>2, OpenDialogGood
<1>12. ASSUME NEW t \in Tabs, Tab(t) PROVE Keeps(popup, popup', d)
  <2>1. popup' = SelectTab(popup, t, None, None) /\ Lit(popup)
    BY <1>12, LitIf DEF Tab, Changed
  <2> QED
    BY <1>0, <2>1, SelectTabGood
<1>13. ASSUME NEW l \in Login, Open(l) PROVE Keeps(popup, popup', d)
  <2>1. popup' = DetailShow(popup, l) /\ Lit(popup)
    BY <1>13, LitIf DEF Open, Changed, RowOf, OnPasswords
  <2> QED
    BY <2>1, DetailShowGood
<1>14. ASSUME NEW l \in Login, DeleteRow(l) PROVE Keeps(popup, popup', d)
  <2>1. popup' = OpenDialog(popup, "delete row", l, None) /\ Lit(popup)
    BY <1>14, LitIf DEF DeleteRow, Changed, RowOf, OnPasswords
  <2>2. [kind |-> "delete row", id |-> l, of |-> None] \in Dialogs(d)
    BY DEF Dialogs, LoginDialog
  <2> QED
    BY <2>1, <2>2, OpenDialogGood
<1>15. ASSUME NEW i \in Item, EditCard(i) PROVE Keeps(popup, popup', d)
  <2>1. popup' = CardsList(popup, "edit", i, None) /\ Lit(popup) /\ "edit" \in {"render", "edit", "delete"}
    BY <1>15, LitIf DEF EditCard, Changed, OnCards
  <2> QED
    BY <2>1, CardsListGood
<1>16. ASSUME NEW i \in Item, DeleteCard(i) PROVE Keeps(popup, popup', d)
  <2>1. popup' = CardsList(popup, "delete", i, None) /\ Lit(popup) /\ "delete" \in {"render", "edit", "delete"}
    BY <1>16, LitIf DEF DeleteCard, Changed, OnCards
  <2> QED
    BY <2>1, CardsListGood
<1>17. ASSUME NEW x \in popup.dialogs, Answer(x) PROVE Keeps(popup, popup', d)
  <2> DEFINE q == [popup EXCEPT !.dialogs = @ \ {x}]
  <2>1. popup' = q \/ \E card \in Card : popup' = Confirmed(q, x, card)
    BY <1>17 DEF Answer, Changed
  <2>2. Keeps(popup, q, d)
    BY DialogClosed
  <2>3. Lit(popup) /\ x \in Dialogs(d)
    BY <1>17, LitIf DEF Good, Holds
  <2> HIDE DEF q
  <2>4. ASSUME NEW card \in Card PROVE Keeps(q, Confirmed(q, x, card), d)
    BY <2>2, <2>3, ConfirmedGood DEF Keeps, Sound
  <2> QED
    BY <2>1, <2>2, <2>4 DEF Keeps, Sound
<1> QED
  BY <1>1, <1>2, <1>3, <1>4, <1>5, <1>6, <1>7, <1>8, <1>9, <1>10, <1>11, <1>12, <1>13, <1>14, <1>15,
     <1>16, <1>17 DEF User

(***************************************************************************)
(* The worker                                                              *)
(***************************************************************************)
\* A request that the worker takes.
LEMMA WithoutGood ==
  ASSUME NEW d, Good(popup, d), NEW i \in DOMAIN popup.sent
  PROVE  LET q == Without(i) IN
         /\ Sound(popup, q, d) /\ Agree(popup, q, ViewF \cup {"waiting", "inbox"})
         /\ Elems(q.sent) \subseteq Elems(popup.sent)
<1> DEFINE q == Without(i)
<1>1. Agree(popup, q, ViewF \cup {"waiting", "inbox"})
      /\ q.sent = SubSeq(popup.sent, 1, i - 1) \o SubSeq(popup.sent, i + 1, Len(popup.sent))
  BY DEF Good, Shape, Without, Field, ViewF, Agree
<1> HIDE DEF q
<1>2. Agree(popup, q, ViewF) /\ Agree(popup, q, {"waiting", "inbox", "detail"}) /\ (Lit(q) <=> Lit(popup))
  BY <1>1 DEF Agree, ViewF, Lit
<1>3. IsSeq(q.sent) /\ Elems(q.sent) \subseteq Elems(popup.sent)
  BY <1>1, Removed DEF Good, Asks, AsksSent
<1>4. AsksSent(q.sent, Lit(q), q.detail.id, d)
  BY <1>2, <1>3, CallLit DEF AsksSent, Good, Asks, Agree
<1>5. Asks(q, d)
  BY <1>2, <1>4, CallLit DEF Good, Asks, Agree, AsksWaiting, AsksInbox, InboxOk
<1> QED
  BY <1>1, <1>2, <1>3, <1>5, Kept DEF Sound, Good, q

\* The worker tells the popup something.
LEMMA TellGood ==
  ASSUME NEW p, NEW d, Good(p, d), NEW e, InboxOk(e, Lit(p), p.detail.id, d)
  PROVE  LET q == Tell(p, e) IN
         /\ Sound(p, q, d) /\ Agree(p, q, ViewF \cup {"sent", "waiting"}) /\ q.inbox = Append(p.inbox, e)
<1> DEFINE q == Tell(p, e)
<1>1. Agree(p, q, ViewF \cup {"sent", "waiting"}) /\ q.inbox = Append(p.inbox, e)
  BY DEF Good, Shape, Tell, Field, ViewF, Agree
<1> HIDE DEF q
<1>2. Agree(p, q, ViewF) /\ Agree(p, q, {"sent", "waiting", "detail"}) /\ (Lit(q) <=> Lit(p))
  BY <1>1 DEF Agree, ViewF, Lit
<1>3. AsksInbox(q.inbox, Lit(q), q.detail.id, d)
  BY <1>1, <1>2, Appended, CallLit DEF AsksInbox, InboxOk, Good, Asks, Agree
<1>4. Asks(q, d)
  BY <1>2, <1>3, CallLit DEF Good, Asks, Agree, AsksWaiting, AsksSent
<1> QED
  BY <1>1, <1>2, <1>4, Kept DEF Sound, Good, q

\* The worker answers a request.
LEMMA ReplyGood ==
  ASSUME NEW p, NEW d, Good(p, d), NEW c, CallOk(c, Lit(p), p.detail.id, d), NEW r, AnswerOk(c, r)
  PROVE  LET q == Reply(p, c, r) IN Sound(p, q, d) /\ Agree(p, q, ViewF \cup {"sent", "waiting"})
<1>1. CASE c.use = "dead"
  BY <1>1 DEF Reply, Sound, Agree, Good, Shape
<1>2. CASE c.use # "dead"
  <2> DEFINE e == [kind |-> "answer", call |-> c, result |-> r]
  <2>1. Reply(p, c, r) = Tell(p, e)
    BY <1>2 DEF Reply
  <2>2. IsAnswer(e) /\ e.call = c /\ e.result = r
    BY DEF IsAnswer
  <2> HIDE DEF e
  <2>3. InboxOk(e, Lit(p), p.detail.id, d)
    BY <1>2, <2>2 DEF InboxOk
  <2> QED
    BY <2>1, <2>3, TellGood
<1> QED
  BY <1>1, <1>2

\* An announcement may be told.
LEMMA EventOk ==
  ASSUME NEW kind \in {"invalidated", "cache"}, NEW u, u \subseteq Key, NEW v, v \subseteq Key,
         NEW lit, NEW id, NEW d
  PROVE  InboxOk(Event(kind, u, v), lit, id, d)
BY DEF InboxOk, Event

\* CutReads keeps the popup good.
LEMMA CutReadsGood ==
  ASSUME NEW p, NEW d, Good(p, d)
  PROVE  LET q == CutReads(p) IN Sound(p, q, d) /\ Agree(p, q, ViewF)
<1> DEFINE b == Bump(p, {"logins"})
<1>1. Sound(p, b, d) /\ Agree(p, b, ViewF)
  BY BumpGood DEF Keeps
<1>2. CutReads(p) = Tell(b, Invalidated)
  BY DEF CutReads
<1> HIDE DEF b
<1>3. InboxOk(Invalidated, Lit(b), b.detail.id, d)
  BY EventOk DEF Invalidated
<1>4. Sound(b, Tell(b, Invalidated), d) /\ Agree(b, Tell(b, Invalidated), ViewF)
  BY <1>1, <1>3, TellGood DEF Sound, Agree
<1> QED
  BY <1>1, <1>2, <1>4 DEF Sound, Agree, ViewF

\* NewToken keeps the popup good.
LEMMA NewTokenGood ==
  ASSUME NEW p, NEW d, Good(p, d)
  PROVE  LET q == NewToken(p) IN Sound(p, q, d) /\ Agree(p, q, ViewF)
<1> DEFINE b == Bump(p, {"session"})  q == CutReads(b)
<1>1. Sound(p, b, d) /\ Agree(p, b, ViewF)
  BY BumpGood DEF Keeps
<1> HIDE DEF b
<1>2. Sound(b, q, d) /\ Agree(b, q, ViewF)
  BY <1>1, CutReadsGood DEF Sound
<1>3. NewToken(p) = IF Locked THEN q ELSE Tell(q, TokenChanged)
  BY DEF NewToken, b
<1> HIDE DEF q
<1>4. InboxOk(TokenChanged, Lit(q), q.detail.id, d)
  BY DEF InboxOk
<1>5. Sound(q, Tell(q, TokenChanged), d) /\ Agree(q, Tell(q, TokenChanged), ViewF)
  BY <1>2, <1>4, TellGood DEF Sound, Agree
<1>6. Sound(q, q, d) /\ Agree(q, q, ViewF)
  BY <1>2 DEF Sound, Agree, Good, Shape
<1> QED
  BY <1>1, <1>2, <1>3, <1>5, <1>6 DEF Sound, Agree, ViewF

\* A request takes what was read for it.
LEMMA GotSet ==
  ASSUME NEW p, NEW d, Good(p, d), NEW i \in DOMAIN p.sent, NEW x,
         p.sent[i].what = "items" => x \in Maybe(CardData),
         p.sent[i].what \in Mutations => x \in Maybe(Session),
         p.sent[i].what \in {"items"} \cup Mutations
  PROVE  LET q == [p EXCEPT !.sent[i].got = x] IN
         /\ Sound(p, q, d) /\ Agree(p, q, ViewF \cup {"waiting", "inbox"})
         /\ q.sent = [p.sent EXCEPT ![i] = [p.sent[i] EXCEPT !.got = x]]
<1> DEFINE q == [p EXCEPT !.sent[i].got = x]  c == p.sent[i]  b == [c EXCEPT !.got = x]
<1>1. Agree(p, q, ViewF \cup {"waiting", "inbox"}) /\ q.sent = [p.sent EXCEPT ![i] = b]
  BY DEF Good, Shape, Field, ViewF, Agree
<1> HIDE DEF q
<1>2. Agree(p, q, ViewF) /\ Agree(p, q, {"waiting", "inbox", "detail"}) /\ (Lit(q) <=> Lit(p))
  BY <1>1 DEF Agree, ViewF, Lit
<1>3. CallOk(c, Lit(p), p.detail.id, d)
  BY DEF Good, Asks, AsksSent, Elems
<1>4. DOMAIN b = DOMAIN c /\ b.what = c.what /\ b.use = c.use /\ b.arg = c.arg /\ b.fresh = c.fresh
      /\ b.got = x
  BY <1>3 DEF CallOk, Kinds
<1> HIDE DEF b
<1>5. CallOk(b, Lit(p), p.detail.id, d)
  <2>1. Kinds(b)
    BY <1>3, <1>4 DEF CallOk, Kinds, Mutations
  <2>2. Carries(b, p.detail.id, d)
    BY <1>4 DEF Carries, Mutations
  <2>3. b.use # "dead" => (Opens(b) => Lit(p))
    BY <1>3, <1>4 DEF CallOk, Opens, NeedsView, NeedsRender
  <2> QED
    BY <2>1, <2>2, <2>3 DEF CallOk
<1>6. IsSeq(q.sent)
  <2>1. DOMAIN q.sent = DOMAIN p.sent /\ q.sent = [j \in DOMAIN q.sent |-> q.sent[j]]
    BY <1>1
  <2> QED
    BY <2>1, Mapped DEF Good, Asks, AsksSent
<1>7. \A k \in Elems(q.sent) : k = b \/ k \in Elems(p.sent)
  BY <1>1 DEF Elems
<1>8. AsksSent(q.sent, Lit(q), q.detail.id, d)
  BY <1>2, <1>5, <1>6, <1>7, CallLit DEF AsksSent, Good, Asks, Agree
<1>9. Asks(q, d)
  BY <1>2, <1>8, CallLit DEF Good, Asks, Agree, AsksWaiting, AsksInbox, InboxOk
<1> QED
  BY <1>1, <1>2, <1>9, Kept DEF Sound, Good, q, b

\* The types of what the worker and the browser hold.
WorkerOk ==
    /\ session \in Session /\ logins \in [Login -> Version]
    /\ items \in [changes : Nat, of : [Item -> Maybe(Card)]]
    /\ local \in Seq(Card)
    /\ scene \in Scene

\* What the worker of an open session reads is of that session.
LEMMA WorkerData ==
  ASSUME WorkerOk, ~Locked
  PROVE  /\ LoginList \in ListData /\ CardList \in CardData
         /\ \A l \in Login : OneLogin(l) \in LoginData /\ OneLogin(l).id = l
<1>1. session \in OpenSession
  BY DEF WorkerOk, Locked, OpenSession
<1>2. LoginList \in ListData
  BY <1>1 DEF WorkerOk, LoginList, ListData
<1>3. CardList \in CardData
  BY <1>1 DEF WorkerOk, CardList, CardData
<1>4. ASSUME NEW l \in Login PROVE OneLogin(l) \in LoginData /\ OneLogin(l).id = l
  BY <1>1 DEF WorkerOk, OneLogin, LoginData
<1> QED
  BY <1>2, <1>3, <1>4

\* The answers to requests: failures, and results of the type asked for.
LEMMA AnswerIs ==
  ASSUME NEW c, NEW r,
         \/ r \in {Failed("lost"), Failed("changed"), Failed("error")} /\ c.what \notin Storage \cup {"logout"}
         \/ /\ DOMAIN r = {"code", "data"} /\ r.code = "ok"
            /\ c.what = "list" => r.data \in Maybe(ListData)
            /\ c.what = "login entry" => r.data \in Maybe(LoginData) /\ (r.data # None => r.data.id = c.arg)
            /\ c.what = "bootstrap" => r.data \in [unlocked : BOOLEAN, snapshot : Maybe(ListData)]
            /\ c.what = "items" => r.data \in CardData
            /\ c.what = "local" => r.data \in Seq(Card)
            /\ c.what \in Mutations => r.data \in [login : Login, version : Version]
            /\ c.what \in ItemMutations => r.data \in Nat
  PROVE  AnswerOk(c, r)
<1>1. CASE r \in {Failed("lost"), Failed("changed"), Failed("error")} /\ c.what \notin Storage \cup {"logout"}
  <2>1. PICK code \in {"lost", "changed", "error"} : r = Failed(code)
    BY <1>1
  <2>2. DOMAIN r = {"code", "data"} /\ r.code = code
    BY <2>1 DEF Failed
  <2> QED
    BY <1>1, <2>2 DEF AnswerOk
<1>2. CASE r \notin {Failed("lost"), Failed("changed"), Failed("error")} \/ c.what \in Storage \cup {"logout"}
  BY <1>2 DEF AnswerOk
<1> QED
  BY <1>1, <1>2

\* The results of a read have the type asked for.
LEMMA ResultsOk ==
  ASSUME WorkerOk, NEW c, Kinds(c), NEW r \in Results(c)
  PROVE  AnswerOk(c, r)
<1>1. CASE c.what = "list"
  <2>1. r \in ListResults(c)
    BY <1>1 DEF Results
  <2>2. r \in {Failed("lost"), Failed("changed"), Failed("error")} \/ r = Ok(None) \/ (~Locked /\ r = Ok(LoginList))
    BY <2>1 DEF ListResults, LostBy
  <2>3. r = Ok(None) => AnswerOk(c, r)
    BY <1>1 DEF Ok, AnswerOk, Maybe, Storage, Mutations, ItemMutations
  <2>4. ~Locked /\ r = Ok(LoginList) => AnswerOk(c, r)
    BY <1>1, WorkerData DEF Ok, AnswerOk, Maybe, Storage, Mutations, ItemMutations
  <2> QED
    BY <1>1, <2>2, <2>3, <2>4, AnswerIs DEF Storage
<1>2. CASE c.what = "login entry"
  <2>1. r \in EntryResults(c)
    BY <1>2 DEF Results
  <2>2. r \in {Failed("lost"), Failed("changed"), Failed("error")} \/ r = Ok(None)
        \/ (~Locked /\ r = Ok(OneLogin(c.arg)))
    BY <2>1 DEF EntryResults, LostBy
  <2>3. ASSUME r = Ok(None) PROVE AnswerOk(c, r)
    <3>1. DOMAIN r = {"code", "data"} /\ r.code = "ok" /\ r.data = None
      BY <2>3 DEF Ok
    <3> QED
      BY <1>2, <3>1 DEF AnswerOk, Maybe, Mutations, ItemMutations
  <2>4. ASSUME ~Locked, r = Ok(OneLogin(c.arg)) PROVE AnswerOk(c, r)
    <3>1. c.arg \in Login
      BY <1>2 DEF Kinds
    <3>2. OneLogin(c.arg) \in LoginData /\ OneLogin(c.arg).id = c.arg
      BY <2>4, <3>1, WorkerData
    <3>3. DOMAIN r = {"code", "data"} /\ r.code = "ok" /\ r.data = OneLogin(c.arg)
      BY <2>4 DEF Ok
    <3> QED
      BY <1>2, <3>2, <3>3 DEF AnswerOk, Maybe, Mutations, ItemMutations
  <2> QED
    BY <1>2, <2>2, <2>3, <2>4, AnswerIs DEF Storage
<1>3. CASE c.what = "bootstrap"
  <2>1. r \in BootResults
    BY <1>3 DEF Results
  <2>2. PICK u \in BOOLEAN, s \in Maybe(ListData) : r = Ok([unlocked |-> u, snapshot |-> s])
    BY <2>1, WorkerData DEF BootResults, Maybe
  <2> QED
    BY <1>3, <2>2 DEF Ok, AnswerOk, Storage, Mutations, ItemMutations
<1>4. CASE c.what \in {"resume", "status"}
  <2>1. r = Ok(None)
    BY <1>4 DEF Results
  <2> QED
    BY <1>4, <2>1 DEF Ok, AnswerOk, Mutations, ItemMutations
<1>5. CASE c.what = "local"
  <2>1. r = Ok(local)
    BY <1>5 DEF Results
  <2> QED
    BY <1>5, <2>1 DEF Ok, AnswerOk, Mutations, ItemMutations, WorkerOk
<1>6. CASE c.what \notin {"list", "login entry", "bootstrap", "resume", "status", "local"}
  BY <1>6 DEF Results
<1> QED
  BY <1>1, <1>2, <1>3, <1>4, <1>5, <1>6

\* What was sent is a request.
LEMMA CallOf ==
  ASSUME NEW d, Good(popup, d), NEW i \in DOMAIN popup.sent
  PROVE  CallOk(popup.sent[i], Lit(popup), popup.detail.id, d) /\ Kinds(popup.sent[i])
BY DEF Good, Asks, AsksSent, Elems, CallOk

\* A request that was sent is answered.
LEMMA ReplyTo ==
  ASSUME NEW d, Good(popup, d), NEW i \in DOMAIN popup.sent, NEW p, Sound(popup, p, d), Agree(popup, p, ViewF),
         NEW r, AnswerOk(popup.sent[i], r)
  PROVE  Sound(popup, Reply(p, popup.sent[i], r), d)
<1> DEFINE c == popup.sent[i]
<1>1. CallOk(c, Lit(popup), popup.detail.id, d)
  BY CallOf
<1>2. Lit(p) = Lit(popup) /\ p.detail.id = popup.detail.id
  BY DEF Agree, ViewF, Lit
<1>3. CallOk(c, Lit(p), p.detail.id, d)
  BY <1>1, <1>2, CallLit
<1> HIDE DEF c
<1>4. Sound(p, Reply(p, c, r), d)
  BY <1>3, ReplyGood DEF Sound, c
<1> QED
  BY <1>4 DEF Sound, c

\* The session after an open one is within the bound.
LEMMA OddBelow ==
  ASSUME NEW s \in Session, s % 2 # 0
  PROVE  s + 1 \in Session
<1>1. s \in Nat /\ s <= MaxSession /\ MaxSession \in Nat
  BY ConstantAssumption DEF Session
<1>2. MaxSession % 2 = 0
  BY ConstantAssumption
<1>3. s # MaxSession
  BY <1>2
<1> QED
  BY <1>1, <1>3 DEF Session

\* Versions within the bound.
LEMMA VersionNext ==
  ASSUME NEW v \in Version, v < MaxVersion
  PROVE  v + 1 \in Version
BY ConstantAssumption DEF Version, Gone

\* The first version, and that of what was deleted.
LEMMA VersionEnds == 1 \in Version /\ Gone \in Version
BY ConstantAssumption DEF Version, Gone

\* Read keeps the popup good.
LEMMA ReadKeeps ==
  ASSUME NEW d, Good(popup, d), WorkerOk, NEW i \in DOMAIN popup.sent, Read(i)
  PROVE  Sound(popup, popup', d) /\ WorkerOk'
<1> DEFINE c == popup.sent[i]
<1>1. PICK r \in Results(c) : popup' = Reply(Without(i), c, r)
  BY DEF Read
<1>2. Kinds(c)
  BY CallOf
<1>3. AnswerOk(c, r)
  BY <1>2, ResultsOk
<1>4. Sound(popup, Without(i), d) /\ Agree(popup, Without(i), ViewF)
  <2>1. Sound(popup, Without(i), d) /\ Agree(popup, Without(i), ViewF \cup {"waiting", "inbox"})
    BY WithoutGood
  <2> QED
    BY <2>1 DEF Agree
<1>5. Sound(popup, Reply(Without(i), c, r), d)
  BY <1>3, <1>4, ReplyTo
<1>6. WorkerOk'
  BY DEF Read, WorkerOk, worker
<1> QED
  BY <1>1, <1>5, <1>6

\* A request may fail.
LEMMA Refused ==
  ASSUME NEW d, Good(popup, d), NEW i \in DOMAIN popup.sent,
         popup.sent[i].what \notin Storage \cup {"logout"},
         NEW code \in {"lost", "changed", "error"}
  PROVE  Sound(popup, Reply(Without(i), popup.sent[i], Failed(code)), d)
<1> DEFINE c == popup.sent[i]
<1>1. AnswerOk(c, Failed(code))
  BY AnswerIs
<1>2. Sound(popup, Without(i), d) /\ Agree(popup, Without(i), ViewF)
  <2>1. Sound(popup, Without(i), d) /\ Agree(popup, Without(i), ViewF \cup {"waiting", "inbox"})
    BY WithoutGood
  <2> QED
    BY <2>1 DEF Agree
<1> QED
  BY <1>1, <1>2, ReplyTo

\* ReadItems and AnswerItems keep the popup good.
LEMMA ReadItemsKeeps ==
  ASSUME NEW d, Good(popup, d), WorkerOk, NEW i \in DOMAIN popup.sent, ReadItems(i) \/ AnswerItems(i)
  PROVE  Sound(popup, popup', d) /\ WorkerOk'
<1> DEFINE c == popup.sent[i]
<1>1. c.what = "items" /\ WorkerOk'
  BY DEF ReadItems, AnswerItems, WorkerOk, worker
<1>2. Kinds(c) /\ c.got \in Maybe(CardData)
  BY <1>1, CallOf DEF Kinds
<1>3. c.what \notin Storage \cup {"logout"} /\ "lost" \in {"lost", "changed", "error"}
  BY <1>1 DEF Storage
<1>4. Sound(popup, Reply(Without(i), c, Failed("lost")), d)
  BY <1>3, Refused
<1>5. CASE ReadItems(i) /\ ~Locked
  <2>1. popup' = [popup EXCEPT !.sent[i].got = CardList]
    BY <1>5 DEF ReadItems
  <2>2. CardList \in Maybe(CardData)
    BY <1>5, WorkerData DEF Maybe
  <2>3. popup.sent[i].what \in {"items"} \cup Mutations /\ popup.sent[i].what \notin Mutations
    BY <1>1 DEF Mutations
  <2> QED
    BY <1>1, <2>1, <2>2, <2>3, GotSet
<1>6. CASE ReadItems(i) /\ Locked
  BY <1>1, <1>4, <1>6 DEF ReadItems
<1>7. CASE AnswerItems(i)
  <2>1. c.got # None /\ (popup' = Reply(Without(i), c, Ok(c.got)) \/ popup' = Reply(Without(i), c, Failed("lost")))
    BY <1>7 DEF AnswerItems
  <2>2. DOMAIN Ok(c.got) = {"code", "data"} /\ Ok(c.got).code = "ok" /\ Ok(c.got).data = c.got
    BY DEF Ok
  <2>3. AnswerOk(c, Ok(c.got))
    BY <1>1, <1>2, <2>1, <2>2 DEF AnswerOk, Maybe, Mutations, ItemMutations
  <2>4. Sound(popup, Without(i), d) /\ Agree(popup, Without(i), ViewF)
    <3>1. Sound(popup, Without(i), d) /\ Agree(popup, Without(i), ViewF \cup {"waiting", "inbox"})
      BY WithoutGood
    <3> QED
      BY <3>1 DEF Agree
  <2>5. Sound(popup, Reply(Without(i), c, Ok(c.got)), d)
    BY <2>3, <2>4, ReplyTo
  <2> QED
    BY <1>1, <1>4, <2>1, <2>5
<1> QED
  BY <1>5, <1>6, <1>7

\* BeginMutation keeps the popup good.
LEMMA BeginMutationKeeps ==
  ASSUME NEW d, Good(popup, d), WorkerOk, NEW i \in DOMAIN popup.sent, BeginMutation(i)
  PROVE  Sound(popup, popup', d) /\ WorkerOk'
<1> DEFINE c == popup.sent[i]
<1>1. c.what \in Mutations /\ WorkerOk'
  BY DEF BeginMutation, WorkerOk, worker
<1>2. c.what \notin Storage \cup {"logout"} /\ "lost" \in {"lost", "changed", "error"} /\ c.what # "items"
  BY <1>1 DEF Storage, Mutations
<1>3. Sound(popup, Reply(Without(i), c, Failed("lost")), d)
  BY <1>2, Refused
<1> DEFINE q == [popup EXCEPT !.sent[i].got = session]
<1>4. Sound(popup, q, d)
  <2>1. session \in Maybe(Session)
    BY DEF WorkerOk, Maybe
  <2> QED
    BY <1>1, <1>2, <2>1, GotSet
<1>5. popup' = Reply(Without(i), c, Failed("lost")) \/ popup' = CutReads(q)
  BY DEF BeginMutation
<1> HIDE DEF q
<1>6. Sound(q, CutReads(q), d)
  BY <1>4, CutReadsGood DEF Sound
<1> QED
  BY <1>1, <1>3, <1>4, <1>5, <1>6 DEF Sound

\* What a change makes of a login.
LEMMA ChangeOk ==
  ASSUME WorkerOk, NEW c, Kinds(c), c.what \in Mutations, NEW ch \in Changes(c)
  PROVE  ch \in [login : Login, version : Version]
<1>1. CASE c.what = "create"
  <2>1. PICK l \in Login : ch = [login |-> l, version |-> 1]
    BY <1>1 DEF Changes
  <2> QED
    BY <2>1, VersionEnds
<1>2. CASE c.what = "update"
  <2>1. PICK l \in {x \in {c.arg} : There(logins[x]) /\ logins[x] < MaxVersion} :
            ch = [login |-> l, version |-> logins[l] + 1]
    BY <1>2 DEF Changes
  <2>2. l \in Login
    BY <1>2, <2>1 DEF Kinds
  <2>3. logins[l] \in Version /\ logins[l] < MaxVersion
    BY <2>1, <2>2 DEF WorkerOk
  <2>4. logins[l] + 1 \in Version
    BY <2>3, VersionNext
  <2> QED
    BY <2>1, <2>2, <2>4
<1>3. CASE c.what = "delete"
  <2>1. PICK l \in {x \in {c.arg} : There(logins[x])} : ch = [login |-> l, version |-> Gone]
    BY <1>3 DEF Changes
  <2>2. l \in Login
    BY <1>3, <2>1 DEF Kinds
  <2> QED
    BY <2>1, <2>2, VersionEnds
<1> QED
  BY <1>1, <1>2, <1>3 DEF Mutations

\* EndMutation keeps the popup good.
LEMMA EndMutationKeeps ==
  ASSUME NEW d, Good(popup, d), WorkerOk, NEW i \in DOMAIN popup.sent, EndMutation(i)
  PROVE  Sound(popup, popup', d) /\ WorkerOk'
<1> DEFINE c == popup.sent[i]  q == CutReads(Without(i))
<1>1. c.what \in Mutations /\ Kinds(c)
  BY CallOf DEF EndMutation, Applying
<1>2. c.what \notin Storage \cup {"logout"}
  BY <1>1 DEF Storage, Mutations
<1>3. Sound(popup, q, d) /\ Agree(popup, q, ViewF)
  <2>1. Sound(popup, Without(i), d) /\ Agree(popup, Without(i), ViewF \cup {"waiting", "inbox"})
    BY WithoutGood
  <2>2. Sound(Without(i), q, d) /\ Agree(Without(i), q, ViewF)
    BY <2>1, CutReadsGood DEF Sound
  <2> QED
    BY <2>1, <2>2 DEF Sound, Agree
<1> HIDE DEF q
<1>4. ASSUME NEW code \in {"lost", "error"} PROVE Sound(popup, Reply(q, c, Failed(code)), d)
  <2>1. AnswerOk(c, Failed(code))
    BY <1>2, AnswerIs
  <2> QED
    BY <1>3, <2>1, ReplyTo
<1>5. "lost" \in {"lost", "error"} /\ "error" \in {"lost", "error"}
  OBVIOUS
<1>6. Sound(popup, Reply(q, c, Failed("lost")), d) /\ Sound(popup, Reply(q, c, Failed("error")), d)
  BY <1>4, <1>5
<1>7. ASSUME NEW ch \in Changes(c) PROVE Sound(popup, Reply(q, c, Ok(ch)), d)
  <2>1. ch \in [login : Login, version : Version]
    BY <1>1, ChangeOk
  <2>2. DOMAIN Ok(ch) = {"code", "data"} /\ Ok(ch).code = "ok" /\ Ok(ch).data = ch
    BY DEF Ok
  <2>3. AnswerOk(c, Ok(ch))
    BY <1>1, <1>2, <2>1, <2>2 DEF AnswerOk, Mutations, ItemMutations
  <2> QED
    BY <1>3, <2>3, ReplyTo
<1>8. CASE \E ch \in Changes(c) :
             /\ logins' = [logins EXCEPT ![ch.login] = ch.version]
             /\ popup' = Reply(q, c, IF c.got = session THEN Ok(ch) ELSE Failed("lost"))
  <2>1. PICK ch \in Changes(c) :
             /\ logins' = [logins EXCEPT ![ch.login] = ch.version]
             /\ popup' = Reply(q, c, IF c.got = session THEN Ok(ch) ELSE Failed("lost"))
    BY <1>8
  <2>2. Sound(popup, popup', d)
    BY <1>6, <1>7, <2>1
  <2>3. ch \in [login : Login, version : Version]
    BY <1>1, ChangeOk
  <2>4. logins' \in [Login -> Version]
    BY <2>1, <2>3 DEF WorkerOk
  <2> QED
    BY <2>2, <2>4 DEF WorkerOk, EndMutation
<1>9. CASE /\ UNCHANGED logins
           /\ popup' = Reply(q, c, IF c.got # session THEN Failed("lost") ELSE Failed("error"))
  BY <1>6, <1>9 DEF WorkerOk, EndMutation
<1> QED
  BY <1>8, <1>9 DEF EndMutation, q

\* A request that the worker takes changes nothing of the view.
LEMMA LeftOut ==
  ASSUME NEW d, Good(popup, d), NEW i \in DOMAIN popup.sent
  PROVE  Sound(popup, Without(i), d) /\ Agree(popup, Without(i), ViewF)
<1>1. Sound(popup, Without(i), d) /\ Agree(popup, Without(i), ViewF \cup {"waiting", "inbox"})
  BY WithoutGood
<1> QED
  BY <1>1 DEF Agree

\* Answers whose data is not looked at.
LEMMA Done ==
  ASSUME NEW c, NEW x, c.what \in {"login", "logout", "forget local"}
                       \/ (c.what \in ItemMutations /\ x \in Nat)
  PROVE  AnswerOk(c, Ok(x))
<1>1. DOMAIN Ok(x) = {"code", "data"} /\ Ok(x).code = "ok" /\ Ok(x).data = x
  BY DEF Ok
<1> QED
  BY <1>1 DEF AnswerOk, Mutations, ItemMutations, Storage

\* MutateItem keeps the popup good.
LEMMA MutateItemKeeps ==
  ASSUME NEW d, Good(popup, d), WorkerOk, NEW i \in DOMAIN popup.sent, MutateItem(i)
  PROVE  Sound(popup, popup', d) /\ WorkerOk'
<1> DEFINE c == popup.sent[i]
           New == CHOOSE id \in Item : items.of[id] = None
<1>1. c.what \in ItemMutations /\ Kinds(c)
  BY CallOf DEF MutateItem
<1>2. c.what \notin Storage \cup {"logout"}
  BY <1>1 DEF Storage, ItemMutations
<1>3. "lost" \in {"lost", "changed", "error"} /\ "error" \in {"lost", "changed", "error"}
  OBVIOUS
<1>4. Sound(popup, Reply(Without(i), c, Failed("lost")), d) /\ Sound(popup, Reply(Without(i), c, Failed("error")), d)
  BY <1>2, <1>3, Refused
<1>5. \/ UNCHANGED items
      \/ \E id \in Item, card \in Maybe(Card) :
            items' = [changes |-> items.changes + 1, of |-> [items.of EXCEPT ![id] = card]]
  <2>1. CASE c.what = "create item" /\ ~UNCHANGED items
    <3>1. (\E id \in Item : items.of[id] = None)
          /\ items' = [changes |-> items.changes + 1, of |-> [items.of EXCEPT ![New] = c.arg]]
      BY <2>1 DEF MutateItem
    <3>2. New \in Item
      BY <3>1
    <3>3. c.arg \in Maybe(Card)
      BY <1>1, <2>1 DEF Kinds, Maybe
    <3> QED
      BY <3>1, <3>2, <3>3
  <2>2. CASE c.what = "update item" /\ ~UNCHANGED items
    <3>1. items' = [changes |-> items.changes + 1, of |-> [items.of EXCEPT ![c.arg.id] = c.arg.card]]
      BY <2>2 DEF MutateItem
    <3>2. c.arg.id \in Item /\ c.arg.card \in Maybe(Card)
      BY <1>1, <2>2 DEF Kinds, Maybe
    <3> QED
      BY <3>1, <3>2
  <2>3. CASE c.what = "delete item" /\ ~UNCHANGED items
    <3>1. items' = [changes |-> items.changes + 1, of |-> [items.of EXCEPT ![c.arg] = None]]
      BY <2>3 DEF MutateItem
    <3>2. c.arg \in Item /\ None \in Maybe(Card)
      BY <1>1, <2>3 DEF Kinds, Maybe
    <3> QED
      BY <3>1, <3>2
  <2> QED
    BY <1>1, <2>1, <2>2, <2>3 DEF ItemMutations
<1>6. items' \in [changes : Nat, of : [Item -> Maybe(Card)]]
  BY <1>5 DEF WorkerOk
<1>7. WorkerOk'
  BY <1>6 DEF WorkerOk, MutateItem
<1>8. items'.changes \in Nat
  BY <1>6
<1>9. Sound(popup, Reply(Without(i), c, Ok(items'.changes)), d)
  BY <1>1, <1>8, Done, LeftOut, ReplyTo
<1> QED
  BY <1>4, <1>7, <1>9 DEF MutateItem

\* Login, logout and the old storage keep the popup good.
LEMMA TokensKeep ==
  ASSUME NEW d, Good(popup, d), WorkerOk, NEW i \in DOMAIN popup.sent,
         ForgetLocal(i) \/ ServeLogin(i) \/ RefuseLogin(i) \/ ServeLogout(i)
  PROVE  Sound(popup, popup', d) /\ WorkerOk'
<1> DEFINE c == popup.sent[i]  w == Without(i)  n == NewToken(w)
<1>1. Sound(popup, w, d) /\ Agree(popup, w, ViewF)
  BY LeftOut
<1> HIDE DEF w
<1>2. Sound(popup, n, d) /\ Agree(popup, n, ViewF)
  BY <1>1, NewTokenGood DEF Sound, Agree
<1> HIDE DEF n
<1>3. ASSUME c.what \in {"login", "logout", "forget local"}
      PROVE  Sound(popup, Reply(w, c, Ok(None)), d) /\ Sound(popup, Reply(n, c, Ok(None)), d)
  BY <1>1, <1>2, <1>3, Done, ReplyTo
<1>4. CASE ForgetLocal(i)
  <2>1. c.what = "forget local" /\ popup' = Reply(w, c, Ok(None)) /\ local' = <<>>
        /\ UNCHANGED <<session, logins, items, scene>>
    BY <1>4 DEF ForgetLocal, w
  <2>2. <<>> \in Seq(Card)
    BY EmptySeq
  <2>4. local' \in Seq(Card)
    BY <2>1, <2>2
  <2>3. WorkerOk'
    BY <2>1, <2>4 DEF WorkerOk
  <2> QED
    BY <1>3, <2>1, <2>3
<1>5. CASE ServeLogin(i)
  <2>1. c.what = "login" /\ popup' = Reply(n, c, Ok(None)) /\ UNCHANGED <<logins, items, local, scene>>
    BY <1>5 DEF ServeLogin, w, n
  <2>2. session' \in Nat /\ session' <= MaxSession
    BY <1>5, ConstantAssumption DEF ServeLogin, WorkerOk, Session
  <2>3. session' \in Session
    BY <2>2, ConstantAssumption DEF Session
  <2> QED
    BY <1>3, <2>1, <2>3 DEF WorkerOk
<1>6. CASE RefuseLogin(i)
  <2>1. c.what = "login" /\ popup' = Reply(w, c, Failed("error")) /\ UNCHANGED <<worker, scene>>
    BY <1>6 DEF RefuseLogin, w
  <2>2. c.what \notin Storage \cup {"logout"} /\ "error" \in {"lost", "changed", "error"}
    BY <2>1 DEF Storage
  <2>3. Sound(popup, popup', d)
    BY <2>1, <2>2, Refused DEF w
  <2> QED
    BY <2>1, <2>3 DEF WorkerOk, worker
<1>7. CASE ServeLogout(i)
  <2>1. c.what = "logout" /\ popup' = Reply(IF Locked THEN w ELSE n, c, Ok(None))
        /\ UNCHANGED <<logins, items, local, scene>>
    BY <1>7 DEF ServeLogout, w, n
  <2>2. session' = IF Locked THEN session ELSE session + 1
    BY <1>7 DEF ServeLogout
  <2>3. session' \in Session
    BY <2>2, OddBelow DEF WorkerOk, Locked
  <2> QED
    BY <1>3, <2>1, <2>3 DEF WorkerOk
<1> QED
  BY <1>4, <1>5, <1>6, <1>7

\* Whatever the worker does keeps the popup good.
LEMMA ServeKeeps ==
  ASSUME NEW d, Good(popup, d), WorkerOk, Serve
  PROVE  Sound(popup, popup', d) /\ WorkerOk'
<1>1. PICK i \in DOMAIN popup.sent :
        Read(i) \/ ReadItems(i) \/ AnswerItems(i) \/ BeginMutation(i) \/ EndMutation(i)
        \/ MutateItem(i) \/ ForgetLocal(i) \/ ServeLogin(i) \/ RefuseLogin(i) \/ ServeLogout(i)
  BY DEF Serve
<1> QED
  BY <1>1, ReadKeeps, ReadItemsKeeps, BeginMutationKeeps, EndMutationKeeps, MutateItemKeeps, TokensKeep

(***************************************************************************)
(* The outside world, time, and the popup's own queue                      *)
(***************************************************************************)
\* Age keeps the popup good.
LEMMA AgeKeeps ==
  ASSUME NEW d, Good(popup, d), WorkerOk, Age
  PROVE  Sound(popup, popup', d) /\ WorkerOk'
<1>1. popup' = [popup EXCEPT !.old = HeldOf(popup)] /\ UNCHANGED <<worker, scene>>
  BY DEF Age, Changed, Held, HeldOf, Act
<1> QED
  BY <1>1, OldSet DEF Keeps, WorkerOk, worker

\* Expire keeps the popup good.
LEMMA ExpireKeeps ==
  ASSUME NEW d, Good(popup, d), WorkerOk, Expire
  PROVE  Sound(popup, popup', d) /\ WorkerOk'
<1>1. popup' = NewToken(popup) /\ session' = session + 1 /\ ~Locked /\ UNCHANGED <<logins, items, local, scene>>
  BY DEF Expire, Act
<1>2. session' \in Session
  BY <1>1, OddBelow DEF WorkerOk, Locked
<1> QED
  BY <1>1, <1>2, NewTokenGood DEF WorkerOk

\* Clear keeps the popup good.
LEMMA ClearKeeps ==
  ASSUME NEW d, Good(popup, d), WorkerOk, Clear
  PROVE  Sound(popup, popup', d) /\ WorkerOk'
<1>1. popup' = CutReads(popup) /\ UNCHANGED <<worker, scene>>
  BY DEF Clear, Changed, Act
<1> QED
  BY <1>1, CutReadsGood DEF WorkerOk, worker

\* Refresh keeps the popup good.
LEMMA RefreshKeeps ==
  ASSUME NEW d, Good(popup, d), WorkerOk, NEW l \in Login, Refresh(l)
  PROVE  Sound(popup, popup', d) /\ WorkerOk'
<1>1. PICK u \in SUBSET Key, v \in SUBSET Key : popup' = Tell(popup, Event("cache", u, v))
  <2>1. {"list"} \subseteq Key /\ {l} \subseteq Key /\ {} \subseteq Key /\ {l, "list"} \subseteq Key
    BY DEF Key
  <2> QED
    BY <2>1 DEF Refresh
<1>2. InboxOk(Event("cache", u, v), Lit(popup), popup.detail.id, d)
  BY EventOk
<1>3. Sound(popup, popup', d)
  BY <1>1, <1>2, TellGood
<1>4. logins[l] \in Version
  BY DEF WorkerOk
<1>5. \E x \in Version : logins' = [logins EXCEPT ![l] = x]
  BY <1>4, VersionNext, VersionEnds DEF Refresh
<1>6. logins' \in [Login -> Version]
  BY <1>5 DEF WorkerOk
<1> QED
  BY <1>3, <1>6 DEF WorkerOk, Refresh, Act

\* Fail keeps the popup good.
LEMMA FailKeeps ==
  ASSUME NEW d, Good(popup, d), WorkerOk, NEW i \in DOMAIN popup.sent, Fail(i)
  PROVE  Sound(popup, popup', d) /\ WorkerOk'
<1>1. popup' = Reply(Without(i), popup.sent[i], Failed("error")) /\ UNCHANGED <<worker, scene>>
      /\ popup.sent[i].what \notin Storage \cup {"logout"}
  BY DEF Fail, Act
<1>2. "error" \in {"lost", "changed", "error"}
  OBVIOUS
<1> QED
  BY <1>1, <1>2, Refused DEF WorkerOk, worker

\* The popup that is opened next has nothing of the vault.
LEMMA CloseAndOpenKeeps ==
  ASSUME NEW d, Good(popup, d), WorkerOk, CloseAndOpen
  PROVE  /\ Anew(popup') /\ WorkerOk' /\ popup'.inbox = <<>>
         /\ \A c \in Elems(popup'.sent) : c.use = "dead" \/ Began(c)
<1> DEFINE s == [i \in DOMAIN popup.sent |-> [popup.sent[i] EXCEPT !.use = "dead"]]
<1>1. popup' = Opened(popup.resume, s) /\ UNCHANGED <<worker, scene>>
  BY DEF CloseAndOpen, Act
<1>2. IsSeq(s)
  BY Mapped DEF Good, Asks, AsksSent
<1>3. ASSUME NEW i \in DOMAIN popup.sent
      PROVE  Kinds([popup.sent[i] EXCEPT !.use = "dead"])
  <2> DEFINE b == popup.sent[i]  c == [b EXCEPT !.use = "dead"]
  <2>1. Kinds(b)
    BY CallOf
  <2>2. DOMAIN c = DOMAIN b /\ c.what = b.what /\ c.use = "dead" /\ c.arg = b.arg /\ c.fresh = b.fresh
        /\ c.got = b.got
    BY <2>1 DEF Kinds
  <2> HIDE DEF b, c
  <2>3. Kinds(c)
    BY <2>1, <2>2 DEF Kinds
  <2> QED
    BY <2>3 DEF b, c
<1>4. \A c \in Elems(s) : Kinds(c) /\ c.use = "dead"
  <2>1. \A i \in DOMAIN popup.sent : s[i].use = "dead"
    BY CallOf DEF Kinds
  <2> QED
    BY <1>3, <2>1 DEF Elems
<1>5. popup.resume \in Maybe(Login)
  BY DEF Good, Shape
<1> HIDE DEF s
<1> QED
  BY <1>1, <1>2, <1>4, <1>5, OpenedGood DEF WorkerOk, worker

\* Whatever happens outside keeps the popup good, or it is opened anew.
LEMMA OutsideKeeps ==
  ASSUME NEW d, Good(popup, d), WorkerOk, Outside
  PROVE  (Sound(popup, popup', d) \/ Anew(popup')) /\ WorkerOk'
BY AgeKeeps, ExpireKeeps, ClearKeeps, RefreshKeeps, FailKeeps, CloseAndOpenKeeps DEF Outside

\* The timers keep the popup good.
LEMMA TimersKeep ==
  ASSUME NEW d, Admits(d), Good(popup, d), WorkerOk, Timers
  PROVE  Keeps(popup, popup', d) /\ WorkerOk'
<1>1. UNCHANGED <<worker, scene>>
  BY DEF Timers, ListExpires, DetailExpires, FormExpires, Changed
<1>2. CASE FormExpires
  <2>1. "form" \in HeldOf(popup) /\ popup' = FormClose(popup)
    BY <1>2 DEF FormExpires, Due, Changed, Good, Holds
  <2>2. popup.form.from # None
    BY <2>1 DEF HeldOf
  <2> QED
    BY <1>1, <2>1, <2>2, LitIf, FormCloseGood DEF WorkerOk, worker
<1>3. CASE ListExpires
  BY <1>1, <1>3, ListInvalidateGood DEF ListExpires, Changed, WorkerOk, worker
<1>4. CASE DetailExpires
  BY <1>1, <1>4, DetailInvalidated DEF DetailExpires, Changed, WorkerOk, worker
<1> QED
  BY <1>2, <1>3, <1>4 DEF Timers

\* The first of those who wait, or of what was told, is taken.
LEMMA HeadTaken ==
  ASSUME NEW d, Good(popup, d), NEW f \in {"waiting", "inbox"}, popup[f] # <<>>,
         NEW q, q = [popup EXCEPT ![f] = Tail(@)]
  PROVE  Sound(popup, q, d) /\ Lit(q) = Lit(popup) /\ q.detail = popup.detail /\ Head(popup[f]) \in Elems(popup[f])
<1>1. Agree(popup, q, Field \ {f}) /\ q[f] = Tail(popup[f])
  BY DEF Good, Shape, Field, Agree
<1>2. Agree(popup, q, ViewF) /\ Agree(popup, q, {"sent", "detail"} \cup ({"waiting", "inbox"} \ {f}))
  BY <1>1 DEF Agree, Field, ViewF
<1>3. Lit(q) = Lit(popup) /\ q.detail = popup.detail
  BY <1>2 DEF Agree, ViewF, Lit
<1>4. IsSeq(popup[f])
  BY DEF Good, Asks, AsksWaiting, AsksInbox
<1>5. IsSeq(q[f]) /\ Elems(q[f]) \subseteq Elems(popup[f]) /\ Head(popup[f]) \in Elems(popup[f])
  BY <1>1, <1>4, Tailed
<1>6. AsksSent(q.sent, Lit(q), q.detail.id, d)
  BY <1>2, <1>3 DEF Good, Asks, Agree
<1>7. AsksWaiting(q.waiting, Lit(q), q.detail.id, d)
  BY <1>2, <1>3, <1>5 DEF Good, Asks, AsksWaiting, Agree
<1>8. AsksInbox(q.inbox, Lit(q), q.detail.id, d)
  BY <1>2, <1>3, <1>5 DEF Good, Asks, AsksInbox, Agree
<1>9. Asks(q, d)
  BY <1>6, <1>7, <1>8 DEF Asks
<1> QED
  BY <1>2, <1>3, <1>5, <1>9, Kept DEF Sound, Good

\* GoOn keeps the popup good.
LEMMA GoOnKeeps ==
  ASSUME NEW d, Admits(d), Good(popup, d), WorkerOk, GoOn
  PROVE  Keeps(popup, popup', d) /\ WorkerOk'
<1> DEFINE q == [popup EXCEPT !.waiting = Tail(@)]  c == Head(popup.waiting)
<1>1. popup.waiting # <<>> /\ popup' = CardsFetch(c, q) /\ UNCHANGED <<worker, scene>>
  BY DEF GoOn, Going
<1>2. Keeps(popup, q, d) /\ Lit(q) = Lit(popup) /\ q.detail = popup.detail /\ c \in Elems(popup.waiting)
  <2>1. Sound(popup, q, d) /\ Lit(q) = Lit(popup) /\ q.detail = popup.detail /\ c \in Elems(popup.waiting)
    BY <1>1, HeadTaken
  <2>2. q.sent = popup.sent /\ q.inbox = popup.inbox
    BY DEF Good, Shape, Field
  <2> QED
    BY <2>1, <2>2, FollowsKept DEF Keeps
<1>3. CallOk(c, Lit(popup), popup.detail.id, d) /\ Waits(c)
  BY <1>2 DEF Good, Asks, AsksWaiting
<1> HIDE DEF q, c
<1>4. Keeps(q, CardsFetch(c, q), d)
  BY <1>2, <1>3, CardsFetchGood DEF Keeps, Sound
<1> QED
  BY <1>1, <1>2, <1>4 DEF Keeps, Sound, WorkerOk, worker

\* Deliver keeps the popup good if what an answer brings is admitted.
LEMMA DeliverKeeps ==
  ASSUME NEW d, Admits(d), Good(popup, d), WorkerOk, Deliver,
         LET e == Head(popup.inbox) IN e.kind = "answer" => Fits(e.call, e.result, d)
  PROVE  LET q == [popup EXCEPT !.inbox = Tail(@)]
         IN  Sound(popup, q, d) /\ (Keeps(q, popup', d) \/ Cleared(q, popup')) /\ WorkerOk'
<1> DEFINE q == [popup EXCEPT !.inbox = Tail(@)]  e == Head(popup.inbox)
<1>1. popup.inbox # <<>> /\ UNCHANGED <<worker, scene>>
      /\ popup' = (IF e.kind # "answer" THEN Announced(q, e) ELSE Answered(q, e.call, e.result))
  BY DEF Deliver
<1>2. Sound(popup, q, d) /\ Lit(q) = Lit(popup) /\ q.detail = popup.detail /\ e \in Elems(popup.inbox)
  BY <1>1, HeadTaken
<1>3. InboxOk(e, Lit(popup), popup.detail.id, d)
  BY <1>2 DEF Good, Asks, AsksInbox
<1>4. e.kind = "answer" => Fits(e.call, e.result, d)
  OBVIOUS
<1> HIDE DEF q, e
<1>5. CASE e.kind # "answer"
  <2>1. Keeps(q, Announced(q, e), d) \/ Cleared(q, Announced(q, e))
    BY <1>2, AnnouncedGood DEF Sound
  <2> QED
    BY <1>1, <1>2, <1>5, <2>1 DEF WorkerOk, worker, q
<1>6. CASE e.kind = "answer"
  <2>1. e.call.use # "dead" /\ CallOk(e.call, Lit(q), q.detail.id, d) /\ AnswerOk(e.call, e.result)
    BY <1>2, <1>3, <1>6 DEF InboxOk, TokenChanged, Event
  <2>2. LET a == Answered(q, e.call, e.result) IN Keeps(q, a, d) \/ Cleared(q, a)
    BY <1>2, <1>4, <1>6, <2>1, AnsweredGood DEF Sound
  <2> QED
    BY <1>1, <1>2, <1>6, <2>2 DEF WorkerOk, worker, q
<1> QED
  BY <1>5, <1>6

(***************************************************************************)
(* The invariant of the popup, and what follows from it                    *)
(***************************************************************************)
\* Everything of the right type is admitted.
AllD == [lists |-> ListData, logins |-> LoginData, forms |-> LoginData, cards |-> CardData,
         rows |-> ListData \cup CardData]

\* Admits holds of it; a deleted login is a version like others.
LEMMA AllAdmitted == Admits(AllD)
<1>1. ListData \subseteq ListType
  BY DEF ListData, ListType, OpenSession
<1>2. CardData \subseteq CardsType
  BY DEF CardData, CardsType, OpenSession, Maybe
<1>3. None \notin ListData \cup CardData
  BY <1>1, <1>2, NoneAssumption
<1>4. \A x \in ListData, l \in Login : [x EXCEPT !.of[l] = Gone] \in ListData
  BY VersionEnds DEF ListData
<1> QED
  BY <1>3, <1>4 DEF Admits, AllD

\* Any answer of the right type brings what is admitted.
LEMMA AllFits ==
  ASSUME NEW c, NEW r, AnswerOk(c, r)
  PROVE  Fits(c, r, AllD)
BY DEF AnswerOk, Fits, AllD, Maybe

\* The user does nothing to the worker but send it requests.
LEMMA UserOutside ==
  ASSUME User
  PROVE  UNCHANGED <<worker, own, ownItems, closed, scene>>
<1> USE DEF Changed, Act, history
<1>1. CASE Unlock \/ Poll \/ LockButton
  BY <1>1 DEF Unlock, Poll, LockButton
<1>2. CASE Back \/ Reveal \/ Edit
  BY <1>2 DEF Back, Reveal, Edit
<1>3. CASE Add \/ Save \/ Cancel
  BY <1>3 DEF Add, Save, Cancel
<1>4. CASE DeleteLogin \/ AddCard
  BY <1>4 DEF DeleteLogin, AddCard
<1>5. CASE \E t \in Tabs : Tab(t)
  BY <1>5 DEF Tab
<1>6. CASE \E l \in Login : Open(l) \/ DeleteRow(l)
  BY <1>6 DEF Open, DeleteRow
<1>7. CASE \E i \in Item : EditCard(i) \/ DeleteCard(i)
  BY <1>7 DEF EditCard, DeleteCard
<1>8. CASE \E d \in popup.dialogs : Answer(d)
  BY <1>8 DEF Answer
<1> QED
  BY <1>1, <1>2, <1>3, <1>4, <1>5, <1>6, <1>7, <1>8 DEF User

\* What the popup does by itself leaves what is on its way as it was, and the worker.
LEMMA OwnStep ==
  ASSUME NEW d, Admits(d), Good(popup, d), WorkerOk, User \/ GoOn \/ Timers
  PROVE  (Keeps(popup, popup', d) \/ Cleared(popup, popup')) /\ WorkerOk' /\ UNCHANGED <<worker, own, ownItems>>
<1>1. CASE User
  BY <1>1, UserKeeps, UserOutside DEF WorkerOk, worker
<1>2. CASE GoOn
  BY <1>2, GoOnKeeps DEF GoOn, history
<1>3. CASE Timers
  BY <1>3, TimersKeep DEF Timers, ListExpires, DetailExpires, FormExpires, Changed, history
<1> QED
  BY <1>1, <1>2, <1>3

\* Any step keeps the popup good, or leaves it with nothing of the vault, provided
\* that what an answer brings is admitted.
LEMMA StepKeeps ==
  ASSUME NEW d, Admits(d), Good(popup, d), WorkerOk, Next,
         Deliver => LET e == Head(popup.inbox) IN e.kind = "answer" => Fits(e.call, e.result, d)
  PROVE  (Sound(popup, popup', d) \/ Anew(popup')) /\ WorkerOk'
<1>1. CASE User \/ GoOn \/ Timers
  BY <1>1, OwnStep DEF Keeps, Cleared
<1>2. CASE Serve \/ Outside
  BY <1>2, ServeKeeps, OutsideKeeps
<1>3. CASE Deliver
  <2> DEFINE q == [popup EXCEPT !.inbox = Tail(@)]
  <2>1. Sound(popup, q, d) /\ (Keeps(q, popup', d) \/ Cleared(q, popup')) /\ WorkerOk'
    BY <1>3, DeliverKeeps
  <2> HIDE DEF q
  <2> QED
    BY <2>1 DEF Sound, Keeps, Cleared
<1> QED
  BY <1>1, <1>2, <1>3 DEF Next

\* The inductive invariant of the view.
ViewInv == WorkerOk /\ Good(popup, AllD) /\ Shown(popup)

\* It holds initially.
LEMMA ViewInit == Init => ViewInv
<1> SUFFICES ASSUME Init PROVE ViewInv
  OBVIOUS
<1>1. scene \in Scene /\ session = scene.session /\ local = scene.local /\ logins = scene.logins
      /\ items = [changes |-> 0, of |-> scene.vault] /\ popup = Opened(scene.resume, <<>>)
  BY DEF Init
<1>2. scene \in [may : SUBSET Acts, acts : Nat, session : {0, 1}, logins : [Login -> {0, 1}],
                 local : Seq(Card), vault : [Item -> Card \cup {None}], resume : Login \cup {None}]
  BY <1>1, ConstantAssumption
<1>3. scene.session \in {0, 1} /\ scene.logins \in [Login -> {0, 1}] /\ scene.local \in Seq(Card)
      /\ scene.vault \in [Item -> Maybe(Card)] /\ scene.resume \in Maybe(Login)
  BY <1>2 DEF Maybe
<1>4. 0 \in Session /\ 1 \in Session /\ 0 \in Version /\ 1 \in Version
  BY ConstantAssumption DEF Session, Version, Gone
<1>5. WorkerOk
  <2>1. session \in Session /\ logins \in [Login -> Version]
    BY <1>1, <1>3, <1>4
  <2>2. items \in [changes : Nat, of : [Item -> Maybe(Card)]]
    BY <1>1, <1>3
  <2> QED
    BY <1>1, <1>3, <2>1, <2>2 DEF WorkerOk
<1>6. Anew(popup)
  <2>1. IsSeq(<<>>) /\ Elems(<<>>) = {}
    BY EmptySeq DEF IsSeq, Elems
  <2> QED
    BY <1>1, <1>3, <2>1, OpenedGood
<1> QED
  BY <1>5, <1>6, AllAdmitted DEF ViewInv, Anew

\* Every step keeps it.
LEMMA ViewStep == ViewInv /\ [Next]_vars => ViewInv'
<1> SUFFICES ASSUME ViewInv, [Next]_vars PROVE ViewInv'
  OBVIOUS
<1>1. CASE Next
  <2>1. ASSUME Deliver PROVE LET e == Head(popup.inbox) IN e.kind = "answer" => Fits(e.call, e.result, AllD)
    <3> DEFINE e == Head(popup.inbox)
    <3>1. popup.inbox # <<>>
      BY <2>1 DEF Deliver
    <3>2. e \in Elems(popup.inbox)
      BY <3>1, Tailed DEF ViewInv, Good, Asks, AsksInbox
    <3>3. InboxOk(e, Lit(popup), popup.detail.id, AllD)
      BY <3>2 DEF ViewInv, Good, Asks, AsksInbox
    <3> HIDE DEF e
    <3>4. e.kind = "answer" => AnswerOk(e.call, e.result)
      BY <3>3 DEF InboxOk, TokenChanged, Event
    <3>5. e.kind = "answer" => Fits(e.call, e.result, AllD)
      BY <3>4, AllFits
    <3> QED
      BY <3>5 DEF e
  <2>2. (Sound(popup, popup', AllD) \/ Anew(popup')) /\ WorkerOk'
    BY <1>1, <2>1, StepKeeps, AllAdmitted DEF ViewInv
  <2> QED
    BY <2>2, AllAdmitted DEF ViewInv, Keeps, Sound, Anew
<1>2. CASE UNCHANGED vars
  BY <1>2 DEF vars, worker, ViewInv, WorkerOk
<1> QED
  BY <1>1, <1>2

\* It holds always.
LEMMA ViewIsGood == Spec => []ViewInv
BY ViewInit, ViewStep, PTL DEF Spec

\* The data of open sessions has the types of the state.
LEMMA ListsTyped == ListData \subseteq ListType /\ LoginData \subseteq LoginType /\ CardData \subseteq CardsType
BY DEF ListData, LoginData, CardData, ListType, LoginType, CardsType, OpenSession, Maybe

\* The types of the popup and of the worker; timers run, and things grow old, only for
\* what is held.  For any number of logins, cards and requests under way.
THEOREM TypeCorrect == Spec => []TypeOK
<1>1. ViewInv => TypeOK
  <2> SUFFICES ASSUME ViewInv PROVE TypeOK
    OBVIOUS
  <2>1. WorkerOk /\ Shape(popup) /\ Holds(popup, AllD)
    BY DEF ViewInv, Good
  <2>2. popup.old \subseteq Held /\ popup.timers \subseteq Held
    BY <2>1 DEF Holds, HeldOf, Held
  <2>3. popup.list \in ListType \cup {None} /\ (popup.cards = None \/ popup.cards \in CardsType)
    BY <2>1, ListsTyped DEF Holds, AllD, Maybe
  <2>4. popup.detail \in [id : Login \cup {None}, login : LoginType \cup {None}, revealed : BOOLEAN]
    BY <2>1, ListsTyped DEF Holds, AllD, Maybe
  <2>5. popup.form \in [editing : Login \cup {None}, from : LoginType \cup {None}, saving : BOOLEAN]
    BY <2>1, ListsTyped DEF Holds, AllD, Maybe
  <2>6. popup.rows.kind \in Tabs \cup {"blank", "loading", "reload", "failed"}
        /\ (popup.detail.revealed => popup.detail.login # None)
    BY <2>1 DEF Holds
  <2> QED
    BY <2>1, <2>2, <2>3, <2>4, <2>5, <2>6 DEF TypeOK, WorkerOk, Shape
<1> QED
  BY <1>1, ViewIsGood, PTL

\* A view that is locked holds nothing of the vault, whatever answer comes late
\* (clearVaultView, sendMessage): an answer that could bring something has compared a
\* counter that the lock moved.
THEOREM LockedIsEmpty == Spec => []LockedShowsNothing
<1>1. ViewInv => LockedShowsNothing
  <2> SUFFICES ASSUME ViewInv, ~popup.unlocked, "astray" \notin popup.slips
               PROVE  Data = {None} /\ popup.dialogs = {} /\ popup.screens \subseteq {"boot", "login"}
    BY DEF LockedShowsNothing
  <2>1. Empty(popup)
    BY DEF ViewInv, Good, Closed, Lit
  <2> QED
    BY <2>1 DEF Empty, Data
<1> QED
  BY <1>1, ViewIsGood, PTL

\* The rows, the login on the screen and the form are of what was selected last,
\* although the answers that fill them were asked for earlier.
THEOREM SelectedIsShown == Spec => []ShownIsSelected
<1>1. ViewInv => ShownIsSelected
  BY DEF ViewInv, Good, Chosen, Shown, ShownIsSelected, Shows, Tabs
<1> QED
  BY <1>1, ViewIsGood, PTL

(***************************************************************************)
(* What is on its way to the popup                                         *)
(***************************************************************************)
\* The announcement that the token is gone is on its way.
TokenIn(p) == \E j \in DOMAIN p.inbox : p.inbox[j] = TokenChanged
\* The popup may hold what is of another session, by HeldIsCurrent.
Unsure(p) == "overlaid" \in p.slips \/ "astray" \in p.slips \/ TokenIn(p)
\* The popup may hold what is older than its own changes, by OwnChangeShown.
Missed(p) == "deaf" \in p.slips \/ "astray" \in p.slips

\* What may be held when the session is s, the popup was told of the versions o of the
\* logins and of n changes of cards: of the session unless that is unsure, and not
\* older than what was told unless that was missed.  A form keeps what it was opened
\* with, and the rows what they were painted with.
AdmOf(s, o, n, unsure, missed) ==
    [lists |-> {x \in ListData : (unsure \/ x.session = s) /\ (missed \/ \A l \in Login : o[l] <= x.of[l])},
     logins |-> {x \in LoginData : (unsure \/ x.session = s) /\ (missed \/ o[x.id] <= x.version)},
     forms |-> {x \in LoginData : unsure \/ x.session = s},
     cards |-> {x \in CardData : (unsure \/ x.session = s) /\ (missed \/ n <= x.changes)},
     rows |-> {x \in ListData \cup CardData : unsure \/ x.session = s}]

Adm(p, s, o, n) == AdmOf(s, o, n, Unsure(p), Missed(p))
\* The same while no list and no login is held, and no answer under way may bring one.
Bare(d) == [d EXCEPT !.lists = {}, !.logins = {}]

\* Where d admits something, e does.
Within(d, e) == /\ d.lists \subseteq e.lists /\ d.logins \subseteq e.logins /\ d.forms \subseteq e.forms
                /\ d.cards \subseteq e.cards /\ d.rows \subseteq e.rows

\* An answer that is no failure.
Given(e) == e.kind = "answer" /\ e.result.code = "ok"
\* The lists, logins and cards that an event brings.
HasList(e, x) ==
    /\ Given(e) /\ x \in ListData
    /\ \/ e.call.what = "list" /\ x = e.result.data
       \/ e.call.what = "bootstrap" /\ x = e.result.data.snapshot
HasLogin(e, x) == Given(e) /\ x \in LoginData /\ e.call.what = "login entry" /\ x = e.result.data
HasCards(e, x) == Given(e) /\ x \in CardData /\ e.call.what = "items" /\ x = e.result.data
Brings(e, x) == HasList(e, x) \/ HasLogin(e, x) \/ HasCards(e, x)
\* An answer that tells the popup of its own change of a login, or of a card.
Told(e) == Given(e) /\ e.call.what \in Mutations /\ "view" \in e.call.fresh
ToldCard(e) == Given(e) /\ e.call.what \in ItemMutations /\ e.call.use # "migrate" /\ "view" \in e.call.fresh

\* What an event brings is not older than o.
NoOlder(e, o) == /\ \A x : HasList(e, x) => \A l \in Login : o[l] <= x.of[l]
                 /\ \A x : HasLogin(e, x) => o[x.id] <= x.version
\* Nor than the change ch.
NotBefore(e, ch) == /\ \A x : HasList(e, x) => ch.version <= x.of[ch.login]
                    /\ \A x : HasLogin(e, x) /\ x.id = ch.login => ch.version <= x.version
\* What an event tells has happened.
TrueOf(e, lg) == Told(e) => /\ e.result.data \in [login : Login, version : Version]
                            /\ e.result.data.version <= lg[e.result.data.login]
\* Cards that may be kept for the next section are not older than n changes.
CardsNew(e, n) == \A x : HasCards(e, x) /\ "cache" \in e.call.fresh /\ e.call.use # "migrate" => n <= x.changes
\* Nor are those that were read and are not sent yet.
SentNew(c, n) == c.what = "items" /\ c.got # None /\ c.use \notin {"migrate", "dead"} /\ "cache" \in c.fresh
                 => n <= c.got.changes

\* What is on its way is of the session s, or before the announcement that it is over.
Currently(box, s) == \A k \in DOMAIN box : \A x : Brings(box[k], x) =>
                        x.session = s \/ \E j \in DOMAIN box : k < j /\ box[j] = TokenChanged

\* What is on its way to the popup, when the worker and the history are w: of the
\* session, not older than what the popup was told, nor than what it is told before;
\* and before it is told of its change of a login, it is told to drop what it shows
\* (the announcement of invalidateData, before the answer).
Env(p, w) ==
    /\ Currently(p.inbox, w.s)
    /\ \A k \in DOMAIN p.inbox : NoOlder(p.inbox[k], w.o) /\ TrueOf(p.inbox[k], w.lg) /\ CardsNew(p.inbox[k], w.oi)
    /\ \A k \in DOMAIN p.inbox : ToldCard(p.inbox[k]) => p.inbox[k].result.data <= w.n
    /\ \A j \in DOMAIN p.inbox, k \in DOMAIN p.inbox :
          j < k /\ Told(p.inbox[j]) => NotBefore(p.inbox[k], p.inbox[j].result.data)
    /\ \A c \in Elems(p.sent) : SentNew(c, w.oi)
    /\ \A k \in DOMAIN p.inbox : k > 1 /\ Told(p.inbox[k]) =>
          k - 1 \in DOMAIN p.inbox /\ p.inbox[k - 1] = Invalidated

\* What was on its way in p still is in q, at the same place; what is first in q and
\* tells of a change was first in p.
Extends(p, q) ==
    /\ \A k \in DOMAIN p.inbox : k \in DOMAIN q.inbox /\ SameEvent(q.inbox[k], p.inbox[k])
    /\ 1 \in DOMAIN q.inbox /\ Told(q.inbox[1]) => 1 \in DOMAIN p.inbox

(***************************************************************************)
(* How what is on its way changes                                          *)
(***************************************************************************)
\* Events that are the same bring and tell the same.
LEMMA SameBrought ==
  ASSUME NEW e, NEW f, SameEvent(e, f)
  PROVE  /\ \A x : (HasList(e, x) => HasList(f, x)) /\ (HasLogin(e, x) => HasLogin(f, x))
                   /\ (HasCards(e, x) => HasCards(f, x)) /\ (Brings(e, x) => Brings(f, x))
         /\ (Told(e) => Told(f) /\ e.result = f.result) /\ (ToldCard(e) => ToldCard(f) /\ e.result = f.result)
         /\ (e = TokenChanged <=> f = TokenChanged) /\ (e = Invalidated <=> f = Invalidated)
<1>1. CASE e = f
  BY <1>1
<1>2. CASE e # f
  <2>1. e.kind = "answer" /\ f.kind = "answer" /\ e.result = f.result /\ SameCall(e.call, f.call)
    BY <1>2 DEF SameEvent
  <2>2. \A x : (HasList(e, x) => HasList(f, x)) /\ (HasLogin(e, x) => HasLogin(f, x))
               /\ (HasCards(e, x) => HasCards(f, x))
    BY <2>1 DEF HasList, HasLogin, HasCards, Given, SameCall
  <2>3. (Told(e) => Told(f)) /\ (ToldCard(e) => ToldCard(f))
    BY <2>1 DEF Told, ToldCard, Given, SameCall
  <2>4. e # TokenChanged /\ f # TokenChanged /\ e # Invalidated /\ f # Invalidated
    BY <2>1 DEF TokenChanged, Invalidated, Event
  <2> QED
    BY <2>1, <2>2, <2>3, <2>4 DEF Brings
<1> QED
  BY <1>1, <1>2

\* So they are as old.
LEMMA SameJudged ==
  ASSUME NEW e, NEW f, SameEvent(e, f)
  PROVE  /\ \A o : NoOlder(f, o) => NoOlder(e, o)
         /\ \A lg : TrueOf(f, lg) => TrueOf(e, lg)
         /\ \A n : CardsNew(f, n) => CardsNew(e, n)
         /\ \A ch : NotBefore(f, ch) => NotBefore(e, ch)
<1>1. \A o : NoOlder(f, o) => NoOlder(e, o)
  BY SameBrought DEF NoOlder
<1>2. \A lg : TrueOf(f, lg) => TrueOf(e, lg)
  BY SameBrought DEF TrueOf
<1>3. \A ch : NotBefore(f, ch) => NotBefore(e, ch)
  BY SameBrought DEF NotBefore
<1>4. ASSUME NEW n, CardsNew(f, n), NEW x, HasCards(e, x), "cache" \in e.call.fresh, e.call.use # "migrate"
      PROVE  n <= x.changes
  <2>1. HasCards(f, x) /\ e.kind = "answer"
    BY <1>4, SameBrought DEF HasCards, Given
  <2>2. "cache" \in f.call.fresh /\ f.call.use # "migrate"
    BY <1>4 DEF SameEvent, SameCall
  <2> QED
    BY <1>4, <2>1, <2>2 DEF CardsNew
<1>5. \A n : CardsNew(f, n) => CardsNew(e, n)
  BY <1>4 DEF CardsNew
<1> QED
  BY <1>1, <1>2, <1>3, <1>5

\* What the popup does by itself leaves it true of what is on its way.
LEMMA EnvFollows ==
  ASSUME NEW p, NEW q, NEW w, Env(p, w), Follows(q, p)
  PROVE  Env(q, w) /\ Extends(p, q)
<1>1. DOMAIN q.inbox = DOMAIN p.inbox /\ \A k \in DOMAIN q.inbox : SameEvent(q.inbox[k], p.inbox[k])
  BY DEF Follows
<1>2. Currently(q.inbox, w.s)
  <2> SUFFICES ASSUME NEW k \in DOMAIN q.inbox, NEW x, Brings(q.inbox[k], x)
               PROVE  x.session = w.s \/ \E j \in DOMAIN q.inbox : k < j /\ q.inbox[j] = TokenChanged
    BY DEF Currently
  <2>1. Brings(p.inbox[k], x)
    BY <1>1, SameBrought
  <2>2. x.session = w.s \/ \E j \in DOMAIN p.inbox : k < j /\ p.inbox[j] = TokenChanged
    BY <1>1, <2>1 DEF Env, Currently
  <2> QED
    BY <1>1, <2>2, SameBrought
<1>3. \A k \in DOMAIN q.inbox : NoOlder(q.inbox[k], w.o) /\ TrueOf(q.inbox[k], w.lg) /\ CardsNew(q.inbox[k], w.oi)
  BY <1>1, SameJudged DEF Env
<1>4. \A k \in DOMAIN q.inbox : ToldCard(q.inbox[k]) => q.inbox[k].result.data <= w.n
  BY <1>1, SameBrought DEF Env
<1>5. ASSUME NEW j \in DOMAIN q.inbox, NEW k \in DOMAIN q.inbox, j < k, Told(q.inbox[j])
      PROVE  NotBefore(q.inbox[k], q.inbox[j].result.data)
  <2>1. Told(p.inbox[j]) /\ q.inbox[j].result = p.inbox[j].result
    BY <1>1, <1>5, SameBrought
  <2>2. NotBefore(p.inbox[k], p.inbox[j].result.data)
    BY <1>1, <1>5, <2>1 DEF Env
  <2> QED
    BY <1>1, <2>1, <2>2, SameJudged
<1>6. ASSUME NEW c \in Elems(q.sent) PROVE SentNew(c, w.oi)
  <2>1. CASE Began(c)
    BY <2>1 DEF Began, SentNew
  <2>2. CASE ~Began(c)
    <3>1. PICK s \in Elems(p.sent) : SameCall(c, s)
      BY <2>2 DEF Follows
    <3> QED
      BY <3>1 DEF Env, SentNew, SameCall
  <2> QED
    BY <2>1, <2>2
<1>7. ASSUME NEW k \in DOMAIN q.inbox, k > 1, Told(q.inbox[k])
      PROVE  k - 1 \in DOMAIN q.inbox /\ q.inbox[k - 1] = Invalidated
  <2>1. k - 1 \in DOMAIN p.inbox /\ p.inbox[k - 1] = Invalidated /\ Told(p.inbox[k])
    BY <1>1, <1>7, SameBrought DEF Env
  <2> QED
    BY <1>1, <2>1, SameBrought
<1>8. Extends(p, q)
  BY <1>1, SameBrought DEF Extends
<1> QED
  BY <1>2, <1>3, <1>4, <1>5, <1>6, <1>7, <1>8 DEF Env

\* So does a request that is taken away.
LEMMA EnvLess ==
  ASSUME NEW p, NEW q, NEW w, Env(p, w), q.inbox = p.inbox, Elems(q.sent) \subseteq Elems(p.sent)
  PROVE  Env(q, w) /\ Extends(p, q)
<1>1. Env(q, w)
  BY DEF Env
<1>2. Extends(p, q)
  BY DEF Extends, SameEvent
<1> QED
  BY <1>1, <1>2

\* What is left when the first event is taken.
LEMMA EnvTail ==
  ASSUME NEW p, NEW q, NEW w, Env(p, w), IsSeq(p.inbox), p.inbox # <<>>, q.inbox = Tail(p.inbox), q.sent = p.sent
  PROVE  Env(q, w)
<1> DEFINE a == p.inbox  b == q.inbox
<1>1. a \in Seq(Elems(a)) /\ a # <<>> /\ b = Tail(a)
  BY DEF IsSeq
<1> HIDE DEF a, b
<1>2. Len(a) \in Nat /\ DOMAIN a = 1 .. Len(a) /\ DOMAIN b = 1 .. (Len(a) - 1)
      /\ \A k \in DOMAIN b : b[k] = a[k + 1] /\ k + 1 \in DOMAIN a
  BY <1>1
<1>3. \A j \in DOMAIN a : j > 1 => j - 1 \in DOMAIN b /\ b[j - 1] = a[j]
  BY <1>2
<1>4. Currently(a, w.s)
  BY DEF Env, a
<1>5. Currently(b, w.s)
  <2> SUFFICES ASSUME NEW k \in DOMAIN b, NEW x, Brings(b[k], x)
               PROVE  x.session = w.s \/ \E j \in DOMAIN b : k < j /\ b[j] = TokenChanged
    BY DEF Currently
  <2>1. x.session = w.s \/ \E j \in DOMAIN a : k + 1 < j /\ a[j] = TokenChanged
    BY <1>2, <1>4 DEF Currently
  <2>2. ASSUME NEW j \in DOMAIN a, k + 1 < j, a[j] = TokenChanged
        PROVE  \E i \in DOMAIN b : k < i /\ b[i] = TokenChanged
    <3>1. j > 1 /\ k < j - 1
      BY <1>2, <2>2
    <3>2. j - 1 \in DOMAIN b /\ b[j - 1] = TokenChanged
      BY <1>3, <2>2, <3>1
    <3> QED
      BY <3>1, <3>2
  <2> QED
    BY <2>1, <2>2
<1>6. \A k \in DOMAIN b : NoOlder(b[k], w.o) /\ TrueOf(b[k], w.lg) /\ CardsNew(b[k], w.oi)
                          /\ (ToldCard(b[k]) => b[k].result.data <= w.n)
  BY <1>2 DEF Env, a
<1>7. ASSUME NEW j \in DOMAIN b, NEW k \in DOMAIN b, j < k, Told(b[j])
      PROVE  NotBefore(b[k], b[j].result.data)
  <2>1. j + 1 \in DOMAIN a /\ k + 1 \in DOMAIN a /\ j + 1 < k + 1 /\ b[j] = a[j + 1] /\ b[k] = a[k + 1]
    BY <1>2, <1>7
  <2> QED
    BY <1>7, <2>1 DEF Env, a
<1>8. ASSUME NEW k \in DOMAIN b, k > 1, Told(b[k]) PROVE k - 1 \in DOMAIN b /\ b[k - 1] = Invalidated
  <2>1. k + 1 \in DOMAIN a /\ k + 1 > 1 /\ b[k] = a[k + 1] /\ k - 1 \in DOMAIN b /\ (k + 1) - 1 = k /\ k \in Nat
        /\ b[k - 1] = a[k]
    BY <1>2, <1>8
  <2> QED
    BY <1>8, <2>1 DEF Env, a
<1> QED
  BY <1>5, <1>6, <1>7, <1>8 DEF Env, a, b

\* An event that may be told: as new as the worker is.
Fine(p, e, w) ==
    /\ \A x : Brings(e, x) => x.session = w.s
    /\ \A x : HasList(e, x) => x.of = w.lg
    /\ \A x : HasLogin(e, x) => x.version = w.lg[x.id]
    /\ CardsNew(e, w.oi) /\ TrueOf(e, w.lg)
    /\ ToldCard(e) => e.result.data <= w.n
    /\ Told(e) => p.inbox # <<>> /\ p.inbox[Len(p.inbox)] = Invalidated

\* The worker is not older than what the popup was told.
Ahead(w) == w.lg \in [Login -> Version] /\ w.o \in [Login -> Version] /\ \A l \in Login : w.o[l] <= w.lg[l]

\* Then it may be told.
LEMMA EnvTell ==
  ASSUME NEW p, NEW q, NEW w, NEW e, Env(p, w), Ahead(w), IsSeq(p.inbox), Fine(p, e, w),
         q.inbox = Append(p.inbox, e), q.sent = p.sent
  PROVE  Env(q, w) /\ Extends(p, q)
<1> DEFINE a == p.inbox  b == q.inbox  n == Len(a) + 1
<1>1. a \in Seq(Elems(a)) /\ b = Append(a, e)
  BY DEF IsSeq
<1>2. Len(a) \in Nat /\ DOMAIN a = 1 .. Len(a)
  BY <1>1
<1>3. Len(b) = Len(a) + 1 /\ b[Len(a) + 1] = e /\ \A k \in 1 .. Len(a) : b[k] = a[k]
  <2>1. b \in Seq(Elems(a) \cup {e})
    BY <1>1
  <2> QED
    BY <1>1, <2>1
<1>4. DOMAIN b = DOMAIN a \cup {n} /\ b[n] = e /\ (\A k \in DOMAIN a : b[k] = a[k] /\ k < n) /\ n \notin DOMAIN a
  <2>1. DOMAIN b = 1 .. n
    BY <1>1, <1>2
  <2> QED
    BY <1>2, <1>3, <2>1
<1>0. n \in Nat /\ \A k \in DOMAIN b : k \in Nat /\ k <= n
  BY <1>2, <1>4
<1> HIDE DEF a, b
<1>5. Currently(b, w.s)
  <2> SUFFICES ASSUME NEW k \in DOMAIN b, NEW x, Brings(b[k], x)
               PROVE  x.session = w.s \/ \E j \in DOMAIN b : k < j /\ b[j] = TokenChanged
    BY DEF Currently
  <2>1. CASE k = n
    BY <1>4, <2>1 DEF Fine
  <2>2. CASE k \in DOMAIN a
    <3>1. x.session = w.s \/ \E j \in DOMAIN a : k < j /\ a[j] = TokenChanged
      BY <1>4, <2>2 DEF Env, Currently, a
    <3> QED
      BY <1>4, <3>1
  <2> QED
    BY <1>4, <2>1, <2>2
<1>6. NoOlder(e, w.o)
  <2>1. ASSUME NEW x, HasList(e, x), NEW l \in Login PROVE w.o[l] <= x.of[l]
    BY <2>1 DEF Fine, Ahead
  <2>2. ASSUME NEW x, HasLogin(e, x) PROVE w.o[x.id] <= x.version
    <3>1. x.id \in Login
      BY <2>2 DEF HasLogin, LoginData
    <3> QED
      BY <2>2, <3>1 DEF Fine, Ahead
  <2> QED
    BY <2>1, <2>2 DEF NoOlder
<1>7. \A k \in DOMAIN b : NoOlder(b[k], w.o) /\ TrueOf(b[k], w.lg) /\ CardsNew(b[k], w.oi)
                          /\ (ToldCard(b[k]) => b[k].result.data <= w.n)
  BY <1>4, <1>6 DEF Env, Fine, a
<1>8. ASSUME NEW j \in DOMAIN b, NEW k \in DOMAIN b, j < k, Told(b[j])
      PROVE  NotBefore(b[k], b[j].result.data)
  <2>1. j \in DOMAIN a
    BY <1>0, <1>4, <1>8
  <2>2. b[j] = a[j] /\ Told(a[j]) /\ TrueOf(a[j], w.lg)
    BY <1>4, <1>8, <2>1 DEF Env, a
  <2> DEFINE ch == a[j].result.data
  <2>3. ch.login \in Login /\ ch.version <= w.lg[ch.login]
    BY <2>2 DEF TrueOf
  <2> HIDE DEF ch
  <2>4. CASE k = n
    <3>1. \A x : HasList(e, x) => ch.version <= x.of[ch.login]
      BY <2>3 DEF Fine
    <3>2. \A x : HasLogin(e, x) /\ x.id = ch.login => ch.version <= x.version
      BY <2>3 DEF Fine
    <3> QED
      BY <1>4, <2>2, <2>4, <3>1, <3>2 DEF NotBefore, ch
  <2>5. CASE k \in DOMAIN a
    BY <1>4, <1>8, <2>1, <2>2, <2>5 DEF Env, a
  <2> QED
    BY <1>4, <2>4, <2>5
<1>9. ASSUME NEW k \in DOMAIN b, k > 1, Told(b[k]) PROVE k - 1 \in DOMAIN b /\ b[k - 1] = Invalidated
  <2>1. CASE k = n
    <3>1. a # <<>> /\ a[Len(a)] = Invalidated
      BY <1>4, <1>9, <2>1 DEF Fine, a
    <3>2. Len(a) \in DOMAIN a /\ k - 1 = Len(a)
      BY <1>2, <1>9, <2>1
    <3> QED
      BY <1>4, <3>1, <3>2
  <2>2. CASE k \in DOMAIN a
    <3>1. k - 1 \in DOMAIN a /\ a[k - 1] = Invalidated
      BY <1>4, <1>9, <2>2 DEF Env, a
    <3> QED
      BY <1>4, <3>1
  <2> QED
    BY <1>4, <2>1, <2>2
<1>10. Env(q, w)
  BY <1>5, <1>7, <1>8, <1>9 DEF Env, a, b
<1>11. \A k \in DOMAIN a : k \in DOMAIN b /\ SameEvent(b[k], a[k])
  BY <1>4 DEF SameEvent
<1>12. ASSUME 1 \in DOMAIN b, Told(b[1]) PROVE 1 \in DOMAIN a
  <2>1. CASE 1 = n
    <3>1. a # <<>>
      BY <1>4, <1>12, <2>1 DEF Fine, a
    <3> QED
      BY <1>1, <1>2, <2>1, <3>1
  <2> QED
    BY <1>4, <1>12, <2>1
<1> QED
  BY <1>10, <1>11, <1>12 DEF Extends, a, b

\* The worker's versions may grow.
LEMMA EnvGrow ==
  ASSUME NEW p, NEW w, NEW v, Env(p, w), v.s = w.s, v.o = w.o, v.oi = w.oi,
         w.lg \in [Login -> Version], v.lg \in [Login -> Version], \A l \in Login : w.lg[l] <= v.lg[l],
         \A k \in DOMAIN p.inbox : ToldCard(p.inbox[k]) => p.inbox[k].result.data \in Nat,
         w.n \in Nat, v.n \in Nat, w.n <= v.n
  PROVE  Env(p, v)
<1>1. ASSUME NEW e, TrueOf(e, w.lg) PROVE TrueOf(e, v.lg)
  <2> SUFFICES ASSUME Told(e) PROVE e.result.data \in [login : Login, version : Version]
                                    /\ e.result.data.version <= v.lg[e.result.data.login]
    BY DEF TrueOf
  <2> DEFINE ch == e.result.data
  <2>1. ch \in [login : Login, version : Version] /\ ch.version <= w.lg[ch.login]
    BY <1>1 DEF TrueOf
  <2> HIDE DEF ch
  <2>2. ch.version \in Nat /\ w.lg[ch.login] \in Nat /\ v.lg[ch.login] \in Nat /\ w.lg[ch.login] <= v.lg[ch.login]
    BY <2>1, ConstantAssumption DEF Version, Gone
  <2> QED
    BY <2>1, <2>2 DEF ch
<1>2. \A k \in DOMAIN p.inbox : NoOlder(p.inbox[k], v.o) /\ TrueOf(p.inbox[k], v.lg) /\ CardsNew(p.inbox[k], v.oi)
  BY <1>1 DEF Env
<1>3. \A k \in DOMAIN p.inbox : ToldCard(p.inbox[k]) => p.inbox[k].result.data <= v.n
  BY DEF Env
<1> QED
  BY <1>2, <1>3 DEF Env

\* Nothing moves.
LEMMA Stays ==
  ASSUME NEW p
  PROVE  Follows(p, p) /\ Extends(p, p)
BY DEF Follows, SameEvent, SameCall, Extends

\* Two moves are one.
LEMMA Further ==
  ASSUME NEW p, NEW q, NEW r, Extends(p, q), Extends(q, r)
  PROVE  Extends(p, r)
<1>1. \A k \in DOMAIN p.inbox : k \in DOMAIN r.inbox /\ SameEvent(r.inbox[k], p.inbox[k])
  BY SameEvents DEF Extends
<1>2. ASSUME 1 \in DOMAIN r.inbox, Told(r.inbox[1]) PROVE 1 \in DOMAIN p.inbox
  <2>1. 1 \in DOMAIN q.inbox
    BY <1>2 DEF Extends
  <2>2. Told(q.inbox[1])
    BY <1>2, <2>1, SameBrought DEF Extends
  <2> QED
    BY <2>1, <2>2 DEF Extends
<1> QED
  BY <1>1, <1>2 DEF Extends

\* What was announced is still on its way.
LEMMA StillIn ==
  ASSUME NEW p, NEW q, Extends(p, q)
  PROVE  /\ TokenIn(p) => TokenIn(q)
         /\ 1 \in DOMAIN q.inbox /\ Told(q.inbox[1]) => 1 \in DOMAIN p.inbox /\ Told(p.inbox[1])
<1>1. ASSUME TokenIn(p) PROVE TokenIn(q)
  <2>1. PICK j \in DOMAIN p.inbox : p.inbox[j] = TokenChanged
    BY <1>1 DEF TokenIn
  <2>2. j \in DOMAIN q.inbox /\ q.inbox[j] = TokenChanged
    BY <2>1, SameBrought DEF Extends
  <2> QED
    BY <2>2 DEF TokenIn
<1>2. ASSUME 1 \in DOMAIN q.inbox, Told(q.inbox[1]) PROVE 1 \in DOMAIN p.inbox /\ Told(p.inbox[1])
  <2>1. 1 \in DOMAIN p.inbox
    BY <1>2 DEF Extends
  <2> QED
    BY <1>2, <2>1, SameBrought DEF Extends
<1> QED
  BY <1>1, <1>2

\* The worker answers a request.
LEMMA EnvReply ==
  ASSUME NEW p, NEW w, NEW d, Good(p, d), Env(p, w), Ahead(w), NEW c, NEW r,
         c.use # "dead" => Fine(p, [kind |-> "answer", call |-> c, result |-> r], w)
  PROVE  LET q == Reply(p, c, r) IN Env(q, w) /\ Extends(p, q)
<1> DEFINE e == [kind |-> "answer", call |-> c, result |-> r]  q == Reply(p, c, r)
<1>1. CASE c.use = "dead"
  BY <1>1, Stays DEF Reply
<1>2. CASE c.use # "dead"
  <2>1. q = Tell(p, e)
    BY <1>2 DEF Reply
  <2>2. q.inbox = Append(p.inbox, e) /\ q.sent = p.sent
    BY <2>1 DEF Tell, Good, Shape, Field
  <2>3. Fine(p, e, w) /\ IsSeq(p.inbox)
    BY <1>2 DEF Good, Asks, AsksInbox
  <2> HIDE DEF e, q
  <2> QED
    BY <2>2, <2>3, EnvTell DEF q
<1> QED
  BY <1>1, <1>2

\* What brings nothing may be told.
LEMMA Plain ==
  ASSUME NEW p, NEW e, NEW w, ~Given(e)
  PROVE  Fine(p, e, w) /\ \A x : ~Brings(e, x)
<1>1. \A x : ~HasList(e, x) /\ ~HasLogin(e, x) /\ ~HasCards(e, x)
  BY DEF HasList, HasLogin, HasCards
<1>2. ~Told(e) /\ ~ToldCard(e)
  BY DEF Told, ToldCard
<1> QED
  BY <1>1, <1>2 DEF Fine, Brings, CardsNew, TrueOf

\* A failure may be told.
LEMMA EnvRefused ==
  ASSUME NEW p, NEW w, NEW d, Good(p, d), Env(p, w), Ahead(w), NEW c, NEW code, code # "ok"
  PROVE  LET q == Reply(p, c, Failed(code)) IN Env(q, w) /\ Extends(p, q)
<1> DEFINE e == [kind |-> "answer", call |-> c, result |-> Failed(code)]
<1>1. ~Given(e)
  BY DEF Given, Failed
<1>2. Fine(p, e, w)
  BY <1>1, Plain
<1> QED
  BY <1>2, EnvReply

\* So may an announcement.
LEMMA EnvEvent ==
  ASSUME NEW p, NEW w, NEW d, Good(p, d), Env(p, w), Ahead(w), NEW kind, kind # "answer", NEW u, NEW v
  PROVE  LET q == Tell(p, Event(kind, u, v)) IN
         /\ Env(q, w) /\ Extends(p, q) /\ q.inbox = Append(p.inbox, Event(kind, u, v)) /\ q.sent = p.sent
         /\ q.inbox # <<>> /\ q.inbox[Len(q.inbox)] = Event(kind, u, v)
<1> DEFINE e == Event(kind, u, v)  q == Tell(p, e)
<1>1. q.inbox = Append(p.inbox, e) /\ q.sent = p.sent
  BY DEF Tell, Good, Shape, Field
<1>2. ~Given(e)
  BY DEF Given, Event
<1>3. IsSeq(p.inbox)
  BY DEF Good, Asks, AsksInbox
<1> HIDE DEF e, q
<1>4. Fine(p, e, w)
  BY <1>2, Plain
<1>5. Env(q, w) /\ Extends(p, q)
  BY <1>1, <1>3, <1>4, EnvTell
<1>6. q.inbox # <<>> /\ q.inbox[Len(q.inbox)] = e
  BY <1>1, <1>3 DEF IsSeq
<1> QED
  BY <1>1, <1>5, <1>6 DEF q, e

\* Counters may move.
LEMMA EnvBump ==
  ASSUME NEW p, NEW w, NEW d, Good(p, d), Env(p, w), NEW cs
  PROVE  LET q == Bump(p, cs) IN Good(q, d) /\ Env(q, w) /\ Extends(p, q)
<1> DEFINE q == Bump(p, cs)
<1>1. Keeps(p, q, d)
  BY BumpGood
<1> HIDE DEF q
<1>2. Good(q, d) /\ Follows(q, p)
  BY <1>1, Stays DEF Keeps, Sound
<1> QED
  BY <1>2, EnvFollows DEF q

\* CutReads: what is read afterwards comes after the announcement.
LEMMA EnvCutReads ==
  ASSUME NEW p, NEW w, NEW d, Good(p, d), Env(p, w), Ahead(w)
  PROVE  LET q == CutReads(p) IN
         Good(q, d) /\ Env(q, w) /\ Extends(p, q) /\ q.inbox # <<>> /\ q.inbox[Len(q.inbox)] = Invalidated
<1> DEFINE b == Bump(p, {"logins"})  q == Tell(b, Invalidated)
<1>1. Good(b, d) /\ Env(b, w) /\ Extends(p, b)
  BY EnvBump
<1>2. CutReads(p) = q
  BY DEF CutReads
<1>3. Good(q, d)
  BY <1>2, CutReadsGood DEF Sound
<1> HIDE DEF b
<1>4. Env(q, w) /\ Extends(b, q) /\ q.inbox # <<>> /\ q.inbox[Len(q.inbox)] = Invalidated
  BY <1>1, EnvEvent DEF Invalidated
<1> HIDE DEF q
<1> QED
  BY <1>1, <1>2, <1>3, <1>4, Further

\* Another session, when that holds of what is on its way.
LEMMA EnvSession ==
  ASSUME NEW p, NEW w, Env(p, w), NEW s, Currently(p.inbox, s)
  PROVE  Env(p, [w EXCEPT !.s = s])
BY DEF Env

(***************************************************************************)
(* The worker's steps                                                      *)
(***************************************************************************)
\* What Env is about, now.
W == [s |-> session, o |-> own, oi |-> ownItems, lg |-> logins, n |-> items.changes]

\* What the popup was told has happened.
HistoryOk ==
    /\ own \in [Login -> Version] /\ ownItems \in Nat
    /\ \A l \in Login : own[l] <= logins[l]
    /\ ownItems <= items.changes

\* So the worker is ahead.
LEMMA AheadNow ==
  ASSUME WorkerOk, HistoryOk
  PROVE  Ahead(W)
BY DEF WorkerOk, HistoryOk, Ahead, W

\* Nothing is on its way from a session that is locked.
LEMMA Closing ==
  ASSUME NEW p, NEW w, Env(p, w), w.s % 2 = 0, NEW s
  PROVE  Currently(p.inbox, s)
<1>1. ASSUME NEW e, NEW x, Brings(e, x) PROVE x.session \in OpenSession
  <2>1. x \in ListData \cup LoginData \cup CardData
    BY <1>1 DEF Brings, HasList, HasLogin, HasCards
  <2> QED
    BY <2>1 DEF ListData, LoginData, CardData
<1>2. \A k \in DOMAIN p.inbox : \A x : Brings(p.inbox[k], x) => x.session # w.s
  BY <1>1 DEF OpenSession
<1> QED
  BY <1>2 DEF Env, Currently

\* NewToken: whatever is the next session, what is on its way is of the one before, or
\* is followed by the announcement.
LEMMA EnvNewToken ==
  ASSUME NEW p, NEW d, Good(p, d), Env(p, W), WorkerOk, HistoryOk, NEW s
  PROVE  LET q == NewToken(p) IN
         /\ Good(q, d) /\ Env(q, [W EXCEPT !.s = s]) /\ Extends(p, q) /\ (TokenIn(q) \/ Locked)
<1> DEFINE b == Bump(p, {"session"})  c == CutReads(b)  t == Tell(c, TokenChanged)  q == NewToken(p)
<1>1. Good(b, d) /\ Env(b, W) /\ Extends(p, b)
  BY EnvBump
<1>2. Ahead(W)
  BY AheadNow
<1>3. Good(q, d) /\ q = IF Locked THEN c ELSE t
  BY NewTokenGood DEF Sound, NewToken
<1> HIDE DEF b
<1>4. Good(c, d) /\ Env(c, W) /\ Extends(b, c)
  BY <1>1, <1>2, EnvCutReads
<1> HIDE DEF c
<1>5. CASE Locked
  <2>1. Currently(c.inbox, s)
    BY <1>4, <1>5, Closing DEF Locked, W
  <2> QED
    BY <1>1, <1>3, <1>4, <1>5, <2>1, EnvSession, Further
<1>6. CASE ~Locked
  <2>1. Env(t, W) /\ Extends(c, t) /\ t.inbox = Append(c.inbox, TokenChanged)
    BY <1>2, <1>4, EnvEvent DEF TokenChanged
  <2>2. IsSeq(c.inbox)
    BY <1>4 DEF Good, Asks, AsksInbox
  <2> HIDE DEF t
  <2> DEFINE n == Len(c.inbox) + 1
  <2>3. n \in DOMAIN t.inbox /\ t.inbox[n] = TokenChanged /\ \A k \in DOMAIN t.inbox : k < n \/ k = n
    BY <2>1, <2>2 DEF IsSeq
  <2> HIDE DEF n
  <2>4. \A x : ~Brings(TokenChanged, x)
    <3>1. ~Given(TokenChanged)
      BY DEF Given, TokenChanged, Event
    <3> QED
      BY <3>1, Plain
  <2>5. Currently(t.inbox, s)
    BY <2>3, <2>4 DEF Currently
  <2>6. TokenIn(t)
    BY <2>3 DEF TokenIn
  <2>7. Env(t, [W EXCEPT !.s = s])
    BY <2>1, <2>5, EnvSession
  <2>8. Extends(p, t)
    BY <1>1, <1>4, <2>1, Further
  <2> QED
    BY <1>3, <1>6, <2>6, <2>7, <2>8
<1> QED
  BY <1>5, <1>6

\* A request is taken from those that were sent.
LEMMA EnvWithout ==
  ASSUME NEW d, Good(popup, d), NEW w, Env(popup, w), NEW i \in DOMAIN popup.sent
  PROVE  LET q == Without(i) IN Good(q, d) /\ Env(q, w) /\ Extends(popup, q)
<1> DEFINE q == Without(i)
<1>1. Sound(popup, q, d) /\ Agree(popup, q, ViewF \cup {"waiting", "inbox"})
      /\ Elems(q.sent) \subseteq Elems(popup.sent)
  BY WithoutGood
<1> HIDE DEF q
<1>2. q.inbox = popup.inbox
  BY <1>1 DEF Agree
<1>3. Env(q, w) /\ Extends(popup, q)
  BY <1>1, <1>2, EnvLess
<1> QED
  BY <1>1, <1>3 DEF Sound, q

\* What was read for it is as new as the worker.
LEMMA EnvGot ==
  ASSUME NEW d, Good(popup, d), NEW w, Env(popup, w), NEW i \in DOMAIN popup.sent, NEW x,
         popup.sent[i].what = "items" => x \in CardData /\ w.oi <= x.changes,
         popup.sent[i].what \in Mutations => x \in Session,
         popup.sent[i].what \in {"items"} \cup Mutations
  PROVE  LET q == [popup EXCEPT !.sent[i].got = x] IN Good(q, d) /\ Env(q, w) /\ Extends(popup, q)
<1> DEFINE q == [popup EXCEPT !.sent[i].got = x]  c == popup.sent[i]  n == [c EXCEPT !.got = x]
<1>0. (c.what = "items" => x \in Maybe(CardData)) /\ (c.what \in Mutations => x \in Maybe(Session))
  BY DEF Maybe
<1>1. Sound(popup, q, d) /\ Agree(popup, q, ViewF \cup {"waiting", "inbox"}) /\ q.sent = [popup.sent EXCEPT ![i] = n]
  BY <1>0, GotSet
<1>2. Kinds(c)
  BY CallOf
<1>3. n.what = c.what /\ n.got = x
  BY <1>2 DEF Kinds
<1>4. SentNew(n, w.oi)
  BY <1>3 DEF SentNew
<1> HIDE DEF q, n
<1>5. Elems(q.sent) \subseteq Elems(popup.sent) \cup {n}
  BY <1>1 DEF Elems
<1>6. q.inbox = popup.inbox
  BY <1>1 DEF Agree
<1>7. \A y \in Elems(q.sent) : SentNew(y, w.oi)
  BY <1>4, <1>5 DEF Env
<1>8. Env(q, w)
  BY <1>6, <1>7 DEF Env
<1>9. Extends(popup, q)
  BY <1>6 DEF Extends, SameEvent
<1> QED
  BY <1>1, <1>8, <1>9 DEF Sound, q

\* A step of the worker: what is on its way is as it should be, and the popup is told of
\* a session that ends.
WorkerMoves ==
    /\ Env(popup', W') /\ Extends(popup, popup') /\ HistoryOk'
    /\ UNCHANGED <<own, ownItems>>
    /\ session' = session \/ TokenIn(popup') \/ Locked

\* A step that changes nothing the popup could hold.
LEMMA QuietMove ==
  ASSUME HistoryOk, UNCHANGED <<session, logins, items, own, ownItems>>, Env(popup', W), Extends(popup, popup')
  PROVE  WorkerMoves
<1>1. W' = W
  BY DEF W
<1> QED
  BY <1>1 DEF WorkerMoves, HistoryOk

\* The results of a read are as new as the worker.
LEMMA ReadFine ==
  ASSUME WorkerOk, NEW c, Kinds(c), NEW r \in Results(c), NEW p
  PROVE  Fine(p, [kind |-> "answer", call |-> c, result |-> r], W)
<1> DEFINE e == [kind |-> "answer", call |-> c, result |-> r]
<1>0. e.kind = "answer" /\ e.call = c /\ e.result = r
  OBVIOUS
<1>00. None \notin ListData /\ None \notin LoginData
  BY NoneAssumption, ListsTyped
<1> HIDE DEF e
<1>1. CASE r.code # "ok"
  <2>1. ~Given(e)
    BY <1>0, <1>1 DEF Given
  <2> QED
    BY <2>1, Plain DEF e
<1>2. CASE r.code = "ok"
  <2>0. \A x : Failed(x).code = x
    BY DEF Failed
  <2>00. \A x : Ok(x).data = x
    BY DEF Ok
  <2>1. LostBy(c) \subseteq {Failed("lost")}
    BY DEF LostBy
  <2>2. c.what \in {"list", "login entry", "bootstrap", "resume", "status", "local"}
    BY DEF Results
  <2>3. ~Told(e) /\ ~ToldCard(e) /\ \A x : ~HasCards(e, x)
    BY <1>0, <2>2 DEF Told, ToldCard, HasCards, Mutations, ItemMutations
  <2>4. CASE c.what = "list"
    <3>1. r \in ListResults(c)
      BY <2>4 DEF Results
    <3>2. r = Ok(LoginList) \/ r = Ok(None)
      BY <1>2, <2>0, <2>1, <3>1 DEF ListResults
    <3>3. r.data = LoginList \/ r.data = None
      BY <2>00, <3>2
    <3>4. ASSUME NEW x, HasList(e, x) PROVE x = LoginList
      BY <1>0, <1>00, <2>4, <3>3, <3>4 DEF HasList
    <3>5. \A x : ~HasLogin(e, x)
      BY <1>0, <2>4 DEF HasLogin
    <3>6. LoginList.session = W.s /\ LoginList.of = W.lg
      BY DEF LoginList, W
    <3> QED
      BY <2>3, <3>4, <3>5, <3>6 DEF Fine, Brings, CardsNew, TrueOf, e
  <2>5. CASE c.what = "login entry"
    <3>1. r \in EntryResults(c)
      BY <2>5 DEF Results
    <3>2. r = Ok(OneLogin(c.arg)) \/ r = Ok(None)
      BY <1>2, <2>0, <2>1, <3>1 DEF EntryResults
    <3>3. r.data = OneLogin(c.arg) \/ r.data = None
      BY <2>00, <3>2
    <3>4. ASSUME NEW x, HasLogin(e, x) PROVE x = OneLogin(c.arg)
      BY <1>0, <1>00, <2>5, <3>3, <3>4 DEF HasLogin
    <3>5. \A x : ~HasList(e, x)
      BY <1>0, <2>5 DEF HasList
    <3>6. OneLogin(c.arg).session = W.s /\ OneLogin(c.arg).version = W.lg[OneLogin(c.arg).id]
      BY DEF OneLogin, W
    <3> QED
      BY <2>3, <3>4, <3>5, <3>6 DEF Fine, Brings, CardsNew, TrueOf, e
  <2>6. CASE c.what = "bootstrap"
    <3>1. r \in BootResults
      BY <2>6 DEF Results
    <3>2. \/ r = Ok([unlocked |-> FALSE, snapshot |-> None]) \/ r = Ok([unlocked |-> TRUE, snapshot |-> LoginList])
          \/ r = Ok([unlocked |-> TRUE, snapshot |-> None])
      BY <3>1 DEF BootResults
    <3>3. r.data.snapshot = LoginList \/ r.data.snapshot = None
      BY <2>00, <3>2
    <3>4. ASSUME NEW x, HasList(e, x) PROVE x = LoginList
      BY <1>0, <1>00, <2>6, <3>3, <3>4 DEF HasList
    <3>5. \A x : ~HasLogin(e, x)
      BY <1>0, <2>6 DEF HasLogin
    <3>6. LoginList.session = W.s /\ LoginList.of = W.lg
      BY DEF LoginList, W
    <3> QED
      BY <2>3, <3>4, <3>5, <3>6 DEF Fine, Brings, CardsNew, TrueOf, e
  <2>7. CASE c.what \in {"resume", "status", "local"}
    <3>1. \A x : ~HasList(e, x) /\ ~HasLogin(e, x)
      BY <1>0, <2>7 DEF HasList, HasLogin
    <3> QED
      BY <2>3, <3>1 DEF Fine, Brings, CardsNew, TrueOf, e
  <2> QED
    BY <2>2, <2>4, <2>5, <2>6, <2>7
<1> QED
  BY <1>1, <1>2

\* Read is such a step.
LEMMA ReadMoves ==
  ASSUME NEW d, Good(popup, d), WorkerOk, HistoryOk, Env(popup, W), NEW i \in DOMAIN popup.sent, Read(i)
  PROVE  WorkerMoves
<1> DEFINE c == popup.sent[i]  p == Without(i)
<1>1. PICK r \in Results(c) : popup' = Reply(p, c, r)
  BY DEF Read
<1>2. UNCHANGED <<session, logins, items, own, ownItems>>
  BY DEF Read, worker, history
<1>3. Good(p, d) /\ Env(p, W) /\ Extends(popup, p)
  BY EnvWithout
<1>4. Kinds(c)
  BY CallOf
<1> HIDE DEF p, c
<1>5. Fine(p, [kind |-> "answer", call |-> c, result |-> r], W)
  BY <1>4, ReadFine
<1>6. Env(popup', W) /\ Extends(p, popup')
  BY <1>1, <1>3, <1>5, AheadNow, EnvReply
<1> QED
  BY <1>2, <1>3, <1>6, Further, QuietMove

\* So is a failure.
LEMMA RefusedMoves ==
  ASSUME NEW d, Good(popup, d), WorkerOk, HistoryOk, Env(popup, W), NEW i \in DOMAIN popup.sent,
         NEW code, code # "ok"
  PROVE  LET q == Reply(Without(i), popup.sent[i], Failed(code)) IN Env(q, W) /\ Extends(popup, q)
<1> DEFINE c == popup.sent[i]  p == Without(i)
<1>1. Good(p, d) /\ Env(p, W) /\ Extends(popup, p)
  BY EnvWithout
<1> HIDE DEF p, c
<1>2. LET q == Reply(p, c, Failed(code)) IN Env(q, W) /\ Extends(p, q)
  BY <1>1, AheadNow, EnvRefused
<1> QED
  BY <1>1, <1>2, Further DEF p, c

\* ReadItems and AnswerItems: what was read stays new, since a change of a card, and the
\* popup being told of it, drops the counter first.
LEMMA ReadItemsMoves ==
  ASSUME NEW d, Good(popup, d), WorkerOk, HistoryOk, Env(popup, W), NEW i \in DOMAIN popup.sent,
         ReadItems(i) \/ AnswerItems(i)
  PROVE  WorkerMoves
<1> DEFINE c == popup.sent[i]  p == Without(i)
<1>1. UNCHANGED <<session, logins, items, own, ownItems>>
  BY DEF ReadItems, AnswerItems, worker, history
<1>2. LET q == Reply(p, c, Failed("lost")) IN Env(q, W) /\ Extends(popup, q)
  BY RefusedMoves
<1>3. CASE ReadItems(i) /\ ~Locked
  <2>1. c.what = "items" /\ popup' = [popup EXCEPT !.sent[i].got = CardList]
    BY <1>3 DEF ReadItems
  <2>2. CardList \in CardData
    BY <1>3, WorkerData
  <2>3. W.oi <= CardList.changes
    BY DEF W, CardList, HistoryOk
  <2>4. c.what \notin Mutations
    BY <2>1 DEF Mutations
  <2>5. Env(popup', W) /\ Extends(popup, popup')
    BY <2>1, <2>2, <2>3, <2>4, EnvGot
  <2> QED
    BY <1>1, <2>5, QuietMove
<1>4. CASE AnswerItems(i) /\ c.got.session = session
  <2>1. c.what = "items" /\ c.got # None /\ popup' = Reply(p, c, Ok(c.got))
    BY <1>4 DEF AnswerItems
  <2>2. Good(p, d) /\ Env(p, W) /\ Extends(popup, p)
    BY EnvWithout
  <2>3. SentNew(c, W.oi)
    BY DEF Env, Elems
  <2> HIDE DEF p, c
  <2>4. ASSUME c.use # "dead" PROVE Fine(p, [kind |-> "answer", call |-> c, result |-> Ok(c.got)], W)
    <3> DEFINE e == [kind |-> "answer", call |-> c, result |-> Ok(c.got)]
    <3>1. e.call = c /\ e.result.data = c.got
      BY DEF Ok
    <3> HIDE DEF e
    <3>2. ~Told(e) /\ ~ToldCard(e) /\ \A x : ~HasList(e, x) /\ ~HasLogin(e, x)
      BY <2>1, <3>1 DEF Told, ToldCard, HasList, HasLogin, Mutations, ItemMutations
    <3>3. \A x : HasCards(e, x) => x = c.got
      BY <3>1 DEF HasCards
    <3>4. CardsNew(e, W.oi)
      BY <2>1, <2>3, <2>4, <3>1, <3>3 DEF CardsNew, SentNew
    <3>5. c.got.session = W.s
      BY <1>4 DEF W
    <3> QED
      BY <3>2, <3>3, <3>4, <3>5 DEF Fine, Brings, TrueOf, e
  <2>5. Env(popup', W) /\ Extends(p, popup')
    BY <2>1, <2>2, <2>4, AheadNow, EnvReply
  <2> QED
    BY <1>1, <2>2, <2>5, Further, QuietMove
<1>5. CASE popup' = Reply(p, c, Failed("lost"))
  BY <1>1, <1>2, <1>5, QuietMove
<1> QED
  BY <1>3, <1>4, <1>5 DEF ReadItems, AnswerItems

\* The versions of the worker have grown.
LEMMA Grown ==
  ASSUME NEW d, Good(popup, d), WorkerOk, WorkerOk', HistoryOk, Env(popup, W), UNCHANGED <<session, own, ownItems>>,
         \A l \in Login : logins[l] <= logins'[l], items.changes <= items'.changes
  PROVE  Env(popup, W') /\ Ahead(W') /\ HistoryOk'
<1>1. logins \in [Login -> Version] /\ logins' \in [Login -> Version] /\ items.changes \in Nat /\ items'.changes \in Nat
  BY DEF WorkerOk
<1>2. \A v \in Version : v \in Nat
  BY ConstantAssumption DEF Version, Gone
<1>3. ASSUME NEW l \in Login PROVE own'[l] <= logins'[l]
  <2>1. own[l] \in Nat /\ logins[l] \in Nat /\ logins'[l] \in Nat /\ own[l] <= logins[l] /\ logins[l] <= logins'[l]
    BY <1>1, <1>2 DEF HistoryOk
  <2> QED
    BY <2>1
<1>4. HistoryOk'
  BY <1>1, <1>3 DEF HistoryOk
<1>5. Ahead(W')
  BY <1>1, <1>3, <1>4 DEF Ahead, W, HistoryOk
<1>6. ASSUME NEW k \in DOMAIN popup.inbox, ToldCard(popup.inbox[k]) PROVE popup.inbox[k].result.data \in Nat
  <2> DEFINE e == popup.inbox[k]
  <2>1. InboxOk(e, Lit(popup), popup.detail.id, d)
    BY DEF Good, Asks, AsksInbox, Elems
  <2> HIDE DEF e
  <2>2. ToldCard(e)
    BY <1>6 DEF e
  <2>3. e.kind = "answer" /\ e.result.code = "ok" /\ e.call.what \in ItemMutations
    BY <2>2 DEF ToldCard, Given
  <2>4. AnswerOk(e.call, e.result)
    BY <2>1, <2>3 DEF InboxOk, TokenChanged, Event
  <2>5. e.result.data \in Nat
    BY <2>3, <2>4 DEF AnswerOk
  <2> QED
    BY <2>5 DEF e
<1> DEFINE w == W  v == W'
<1>7. /\ v.s = w.s /\ v.o = w.o /\ v.oi = w.oi /\ w.lg = logins /\ v.lg = logins'
      /\ w.n = items.changes /\ v.n = items'.changes
  BY DEF W
<1> HIDE DEF w, v
<1>8. Env(popup, v)
  BY <1>1, <1>6, <1>7, EnvGrow DEF w
<1> QED
  BY <1>4, <1>5, <1>8 DEF v

\* BeginMutation.
LEMMA BeginMutationMoves ==
  ASSUME NEW d, Good(popup, d), WorkerOk, HistoryOk, Env(popup, W), NEW i \in DOMAIN popup.sent, BeginMutation(i)
  PROVE  WorkerMoves
<1> DEFINE c == popup.sent[i]  p == [popup EXCEPT !.sent[i].got = session]
<1>1. UNCHANGED <<session, logins, items, own, ownItems>> /\ c.what \in Mutations
      /\ (popup' = Reply(Without(i), c, Failed("lost")) \/ popup' = CutReads(p))
  BY DEF BeginMutation, worker, history
<1>2. LET q == Reply(Without(i), c, Failed("lost")) IN Env(q, W) /\ Extends(popup, q)
  BY RefusedMoves
<1>3. Good(p, d) /\ Env(p, W) /\ Extends(popup, p)
  <2>1. c.what # "items" /\ session \in Session
    BY <1>1 DEF Mutations, WorkerOk
  <2> QED
    BY <1>1, <2>1, EnvGot
<1> HIDE DEF p
<1>4. Env(CutReads(p), W) /\ Extends(p, CutReads(p))
  BY <1>3, AheadNow, EnvCutReads
<1> QED
  BY <1>1, <1>2, <1>3, <1>4, Further, QuietMove

\* A change makes a login newer.
LEMMA ChangeGrows ==
  ASSUME WorkerOk, NEW c, Kinds(c), c.what \in Mutations, NEW ch \in Changes(c)
  PROVE  ch.version \in Nat /\ logins[ch.login] <= ch.version
<1>0. ch \in [login : Login, version : Version] /\ \A l \in Login : logins[l] \in Version
  BY ChangeOk DEF WorkerOk
<1>00. \A v \in Version : v \in Nat /\ v <= Gone
  BY ConstantAssumption DEF Version, Gone
<1>1. CASE c.what = "create"
  <2>1. PICK l \in {x \in Login : logins[x] = 0} : ch = [login |-> l, version |-> 1]
    BY <1>1 DEF Changes
  <2> QED
    BY <2>1
<1>2. CASE c.what = "update"
  <2>1. PICK l \in {x \in {c.arg} : There(logins[x]) /\ logins[x] < MaxVersion} :
            ch = [login |-> l, version |-> logins[l] + 1]
    BY <1>2 DEF Changes
  <2>2. l \in Login
    BY <1>2, <2>1 DEF Kinds
  <2>3. logins[l] \in Nat
    BY <1>0, <1>00, <2>2
  <2> QED
    BY <2>1, <2>3
<1>3. CASE c.what = "delete"
  <2>1. PICK l \in {x \in {c.arg} : There(logins[x])} : ch = [login |-> l, version |-> Gone]
    BY <1>3 DEF Changes
  <2>2. l \in Login
    BY <1>3, <2>1 DEF Kinds
  <2> QED
    BY <1>0, <1>00, <2>1, <2>2, VersionEnds
<1> QED
  BY <1>1, <1>2, <1>3 DEF Mutations

\* EndMutation: the popup is told to drop what it shows, then of the change.
LEMMA EndMutationMoves ==
  ASSUME NEW d, Good(popup, d), WorkerOk, HistoryOk, Env(popup, W), NEW i \in DOMAIN popup.sent, EndMutation(i)
  PROVE  WorkerMoves
<1> DEFINE c == popup.sent[i]  p == Without(i)  q == CutReads(p)
<1>1. c.what \in Mutations /\ Kinds(c) /\ UNCHANGED <<session, items, own, ownItems>>
  BY CallOf DEF EndMutation, Applying, history
<1>2. WorkerOk'
  BY EndMutationKeeps
<1>3. CASE \E ch \in Changes(c) :
             /\ logins' = [logins EXCEPT ![ch.login] = ch.version]
             /\ popup' = Reply(q, c, IF c.got = session THEN Ok(ch) ELSE Failed("lost"))
  <2>1. PICK ch \in Changes(c) :
             /\ logins' = [logins EXCEPT ![ch.login] = ch.version]
             /\ popup' = Reply(q, c, IF c.got = session THEN Ok(ch) ELSE Failed("lost"))
    BY <1>3
  <2>2. ch \in [login : Login, version : Version] /\ logins[ch.login] <= ch.version
    BY <1>1, ChangeOk, ChangeGrows
  <2>3. \A l \in Login : logins[l] <= logins'[l]
    <3>1. \A l \in Login : logins[l] \in Nat
      BY ConstantAssumption DEF WorkerOk, Version, Gone
    <3> QED
      BY <2>1, <2>2, <3>1 DEF WorkerOk
  <2>4. items.changes <= items'.changes
    BY <1>1 DEF WorkerOk
  <2>5. Env(popup, W') /\ Ahead(W') /\ HistoryOk'
    BY <1>1, <1>2, <2>3, <2>4, Grown
  <2>6. logins'[ch.login] = ch.version /\ W'.lg = logins'
    BY <2>1, <2>2 DEF WorkerOk, W
  <2> DEFINE v == W'
  <2>7. v = W'
    OBVIOUS
  <2> HIDE DEF v
  <2>8. Good(p, d) /\ Env(p, v) /\ Extends(popup, p)
    BY <2>5, <2>7, EnvWithout
  <2> HIDE DEF p
  <2>9. Good(q, d) /\ Env(q, v) /\ Extends(p, q) /\ q.inbox # <<>> /\ q.inbox[Len(q.inbox)] = Invalidated
    BY <2>5, <2>7, <2>8, EnvCutReads
  <2> HIDE DEF q, c
  <2>10. Fine(q, [kind |-> "answer", call |-> c, result |-> Ok(ch)], v)
    <3> DEFINE e == [kind |-> "answer", call |-> c, result |-> Ok(ch)]
    <3>1. e.call = c /\ e.result.data = ch
      BY DEF Ok
    <3> HIDE DEF e
    <3>2. \A x : ~HasList(e, x) /\ ~HasLogin(e, x) /\ ~HasCards(e, x)
      BY <1>1, <3>1 DEF HasList, HasLogin, HasCards, Mutations
    <3>3. ~ToldCard(e)
      BY <1>1, <3>1 DEF ToldCard, Mutations, ItemMutations
    <3>4. TrueOf(e, v.lg)
      <4>1. ch.version <= v.lg[ch.login]
        <5>1. ch.version \in Nat
          BY <2>2, ConstantAssumption DEF Version, Gone
        <5> QED
          BY <2>6, <2>7, <5>1
      <4> QED
        BY <2>2, <3>1, <4>1 DEF TrueOf
    <3> QED
      BY <2>9, <3>2, <3>3, <3>4 DEF Fine, Brings, CardsNew, e
  <2>11. CASE c.got = session
    <3>1. popup' = Reply(q, c, Ok(ch))
      BY <2>1, <2>11
    <3>2. Env(popup', v) /\ Extends(q, popup')
      BY <2>5, <2>7, <2>9, <2>10, <3>1, EnvReply
    <3>3. Extends(popup, popup')
      BY <2>8, <2>9, <3>2, Further
    <3> QED
      BY <1>1, <2>5, <2>7, <3>2, <3>3 DEF WorkerMoves
  <2>12. CASE c.got # session
    <3>1. popup' = Reply(q, c, Failed("lost"))
      BY <2>1, <2>12
    <3>2. Env(popup', v) /\ Extends(q, popup')
      BY <2>5, <2>7, <2>9, <3>1, EnvRefused
    <3>3. Extends(popup, popup')
      BY <2>8, <2>9, <3>2, Further
    <3> QED
      BY <1>1, <2>5, <2>7, <3>2, <3>3 DEF WorkerMoves
  <2> QED
    BY <2>11, <2>12
<1>4. CASE /\ UNCHANGED logins
           /\ popup' = Reply(q, c, IF c.got # session THEN Failed("lost") ELSE Failed("error"))
  <2>1. PICK code \in {"lost", "error"} : popup' = Reply(q, c, Failed(code))
    BY <1>4
  <2>2. Good(p, d) /\ Env(p, W) /\ Extends(popup, p)
    BY EnvWithout
  <2> HIDE DEF p
  <2>3. Good(q, d) /\ Env(q, W) /\ Extends(p, q)
    BY <2>2, AheadNow, EnvCutReads
  <2> HIDE DEF q, c
  <2>4. Env(popup', W) /\ Extends(q, popup')
    BY <2>1, <2>3, AheadNow, EnvRefused
  <2> QED
    BY <1>1, <1>4, <2>2, <2>3, <2>4, Further, QuietMove
<1> QED
  BY <1>3, <1>4 DEF EndMutation

\* MutateItem.
LEMMA MutateItemMoves ==
  ASSUME NEW d, Good(popup, d), WorkerOk, HistoryOk, Env(popup, W), NEW i \in DOMAIN popup.sent, MutateItem(i)
  PROVE  WorkerMoves
<1> DEFINE c == popup.sent[i]  p == Without(i)
<1>1. c.what \in ItemMutations /\ UNCHANGED <<session, logins, own, ownItems>> /\ WorkerOk'
  BY MutateItemKeeps DEF MutateItem, history
<1>0. \/ popup' = Reply(p, c, Failed("lost")) /\ UNCHANGED items
      \/ /\ items'.changes = items.changes + 1
         /\ popup' = Reply(p, c, Ok(items'.changes)) \/ popup' = Reply(p, c, Failed("error"))
  <2> DEFINE New == CHOOSE id \in Item : items.of[id] = None
  <2> SUFFICES ASSUME ~(popup' = Reply(p, c, Failed("lost")) /\ UNCHANGED items)
               PROVE  /\ items'.changes = items.changes + 1
                      /\ popup' = Reply(p, c, Ok(items'.changes)) \/ popup' = Reply(p, c, Failed("error"))
    OBVIOUS
  <2>1. popup' = Reply(p, c, Ok(items'.changes)) \/ popup' = Reply(p, c, Failed("error"))
    BY DEF MutateItem
  <2>2. CASE c.what = "create item"
    <3>1. items' = [changes |-> items.changes + 1, of |-> [items.of EXCEPT ![New] = c.arg]]
      BY <2>2 DEF MutateItem
    <3> QED
      BY <2>1, <3>1
  <2>3. CASE c.what = "update item"
    <3>1. items' = [changes |-> items.changes + 1, of |-> [items.of EXCEPT ![c.arg.id] = c.arg.card]]
      BY <2>3 DEF MutateItem
    <3> QED
      BY <2>1, <3>1
  <2>4. CASE c.what = "delete item"
    <3>1. items' = [changes |-> items.changes + 1, of |-> [items.of EXCEPT ![c.arg] = None]]
      BY <2>4 DEF MutateItem
    <3> QED
      BY <2>1, <3>1
  <2> QED
    BY <1>1, <2>2, <2>3, <2>4 DEF ItemMutations
<1>2. CASE popup' = Reply(p, c, Failed("lost")) /\ UNCHANGED items
  <2>1. LET q == Reply(p, c, Failed("lost")) IN Env(q, W) /\ Extends(popup, q)
    BY RefusedMoves
  <2> QED
    BY <1>1, <1>2, <2>1, QuietMove
<1>3. CASE /\ items'.changes = items.changes + 1
           /\ popup' = Reply(p, c, Ok(items'.changes)) \/ popup' = Reply(p, c, Failed("error"))
  <2>1. items'.changes = items.changes + 1
    BY <1>3
  <2>2. items.changes \in Nat /\ items'.changes \in Nat /\ items.changes <= items'.changes
    BY <1>1, <2>1 DEF WorkerOk
  <2>3. \A l \in Login : logins[l] <= logins'[l]
    BY <1>1, ConstantAssumption DEF WorkerOk, Version, Gone
  <2>4. Env(popup, W') /\ Ahead(W') /\ HistoryOk'
    BY <1>1, <2>2, <2>3, Grown
  <2>5. popup' = Reply(p, c, Ok(items'.changes)) \/ popup' = Reply(p, c, Failed("error"))
    BY <1>3
  <2> DEFINE v == W'
  <2>6. v = W' /\ v.n = items'.changes
    BY DEF W
  <2> HIDE DEF v
  <2>7. Good(p, d) /\ Env(p, v) /\ Extends(popup, p)
    BY <2>4, <2>6, EnvWithout
  <2> HIDE DEF p, c
  <2>8. Fine(p, [kind |-> "answer", call |-> c, result |-> Ok(items'.changes)], v)
    <3> DEFINE e == [kind |-> "answer", call |-> c, result |-> Ok(items'.changes)]
    <3>1. e.call = c /\ e.result.data = v.n /\ v.n <= v.n
      BY <2>2, <2>6 DEF Ok
    <3> HIDE DEF e
    <3>2. \A x : ~HasList(e, x) /\ ~HasLogin(e, x) /\ ~HasCards(e, x)
      BY <1>1, <3>1 DEF HasList, HasLogin, HasCards, ItemMutations
    <3>3. ~Told(e)
      BY <1>1, <3>1 DEF Told, Mutations, ItemMutations
    <3> QED
      BY <3>1, <3>2, <3>3 DEF Fine, Brings, CardsNew, TrueOf, e
  <2>9. CASE popup' = Reply(p, c, Ok(items'.changes))
    <3>1. Env(popup', v) /\ Extends(p, popup')
      BY <2>4, <2>6, <2>7, <2>8, <2>9, EnvReply
    <3>2. Extends(popup, popup')
      BY <2>7, <3>1, Further
    <3> QED
      BY <1>1, <2>4, <2>6, <3>1, <3>2 DEF WorkerMoves
  <2>10. CASE popup' = Reply(p, c, Failed("error"))
    <3>1. Env(popup', v) /\ Extends(p, popup')
      BY <2>4, <2>6, <2>7, <2>10, EnvRefused
    <3>2. Extends(popup, popup')
      BY <2>7, <3>1, Further
    <3> QED
      BY <1>1, <2>4, <2>6, <3>1, <3>2 DEF WorkerMoves
  <2> QED
    BY <2>5, <2>9, <2>10
<1> QED
  BY <1>0, <1>2, <1>3

\* Requests whose answers say nothing.
Ends(c) == c.what \in {"login", "logout", "forget local"}

\* They may be answered.
LEMMA EnvDone ==
  ASSUME NEW p, NEW w, NEW d, Good(p, d), Env(p, w), Ahead(w), NEW c, Ends(c)
  PROVE  LET q == Reply(p, c, Ok(None)) IN Env(q, w) /\ Extends(p, q)
<1> DEFINE e == [kind |-> "answer", call |-> c, result |-> Ok(None)]
<1>1. e.call = c
  OBVIOUS
<1> HIDE DEF e
<1>2. \A x : ~HasList(e, x) /\ ~HasLogin(e, x) /\ ~HasCards(e, x)
  BY <1>1 DEF Ends, HasList, HasLogin, HasCards
<1>3. ~Told(e) /\ ~ToldCard(e)
  BY <1>1 DEF Ends, Told, ToldCard, Mutations, ItemMutations
<1>4. Fine(p, e, w)
  BY <1>2, <1>3 DEF Fine, Brings, CardsNew, TrueOf
<1> QED
  BY <1>4, EnvReply DEF e

\* The token is replaced or dropped.
LEMMA TokenGone ==
  ASSUME WorkerOk, HistoryOk, NEW d, NEW p, Good(p, d), Env(p, W), Extends(popup, p),
         UNCHANGED <<logins, items, own, ownItems>>, NEW q, q = NewToken(p)
  PROVE  /\ Good(q, d) /\ Env(q, W') /\ Extends(popup, q) /\ Ahead(W') /\ HistoryOk'
         /\ TokenIn(q) \/ Locked
<1>1. W' = [W EXCEPT !.s = session']
  BY DEF W
<1>2. HistoryOk' /\ Ahead(W')
  BY <1>1, AheadNow DEF HistoryOk, Ahead, W
<1>3. Good(q, d) /\ Env(q, W') /\ Extends(p, q) /\ (TokenIn(q) \/ Locked)
  BY <1>1, EnvNewToken
<1> QED
  BY <1>2, <1>3, Further

\* Login, logout and the old storage.
LEMMA TokensMove ==
  ASSUME NEW d, Good(popup, d), WorkerOk, HistoryOk, Env(popup, W), NEW i \in DOMAIN popup.sent,
         ForgetLocal(i) \/ ServeLogin(i) \/ RefuseLogin(i) \/ ServeLogout(i)
  PROVE  WorkerMoves
<1> DEFINE c == popup.sent[i]  p == Without(i)  t == NewToken(p)
<1>1. c.what \in {"login", "logout", "forget local"} /\ UNCHANGED <<logins, items, own, ownItems>>
  BY DEF ForgetLocal, ServeLogin, RefuseLogin, ServeLogout, worker, history
<1>2. Good(p, d) /\ Env(p, W) /\ Extends(popup, p)
  BY EnvWithout
<1>3. CASE UNCHANGED session /\ popup' = Reply(p, c, Ok(None))
  <2>0. Ends(c)
    BY <1>1 DEF Ends
  <2> HIDE DEF p, c
  <2>00. LET q == Reply(p, c, Ok(None)) IN Env(q, W) /\ Extends(p, q)
    BY <1>2, <2>0, AheadNow, EnvDone
  <2>1. Env(popup', W) /\ Extends(p, popup')
    BY <1>3, <2>00
  <2> QED
    BY <1>1, <1>2, <1>3, <2>1, Further, QuietMove
<1>4. CASE UNCHANGED session /\ popup' = Reply(p, c, Failed("error"))
  <2>1. LET q == Reply(p, c, Failed("error")) IN Env(q, W) /\ Extends(popup, q)
    BY RefusedMoves
  <2> QED
    BY <1>1, <1>4, <2>1, QuietMove
<1>5. CASE popup' = Reply(t, c, Ok(None))
  <2> HIDE DEF p, c
  <2>1. Good(t, d) /\ Env(t, W') /\ Extends(popup, t) /\ Ahead(W') /\ HistoryOk' /\ (TokenIn(t) \/ Locked)
    BY <1>1, <1>2, TokenGone
  <2> HIDE DEF t
  <2> DEFINE v == W'
  <2> HIDE DEF v
  <2>2. Good(t, d) /\ Env(t, v) /\ Ahead(v)
    BY <2>1 DEF v
  <2>0. Ends(c)
    BY <1>1 DEF Ends
  <2>00. LET q == Reply(t, c, Ok(None)) IN Env(q, v) /\ Extends(t, q)
    BY <2>0, <2>2, EnvDone
  <2>3. Env(popup', v) /\ Extends(t, popup')
    BY <1>5, <2>00
  <2>4. Extends(popup, popup') /\ (TokenIn(popup') \/ Locked)
    BY <2>1, <2>3, Further, StillIn
  <2> QED
    BY <1>1, <2>1, <2>3, <2>4 DEF WorkerMoves, v
<1> QED
  BY <1>3, <1>4, <1>5 DEF ForgetLocal, ServeLogin, RefuseLogin, ServeLogout, worker

\* Whatever the worker does for the popup.
LEMMA ServeMoves ==
  ASSUME NEW d, Good(popup, d), WorkerOk, HistoryOk, Env(popup, W), Serve
  PROVE  WorkerMoves
BY ReadMoves, ReadItemsMoves, BeginMutationMoves, EndMutationMoves, MutateItemMoves, TokensMove DEF Serve

\* Refresh: others change logins.
LEMMA RefreshMoves ==
  ASSUME NEW d, Good(popup, d), WorkerOk, HistoryOk, Env(popup, W), NEW l \in Login, Refresh(l)
  PROVE  WorkerMoves
<1>1. UNCHANGED <<session, items, own, ownItems>> /\ WorkerOk'
  BY RefreshKeeps DEF Refresh, history
<1>2. \A x \in Login : logins[x] \in Nat /\ logins[x] <= Gone
  BY ConstantAssumption DEF WorkerOk, Version, Gone
<1>3. \A x \in Login : logins[x] <= logins'[x]
  <2>1. logins' = [logins EXCEPT ![l] = @ + 1] \/ logins' = [logins EXCEPT ![l] = Gone]
    BY DEF Refresh
  <2> QED
    BY <1>2, <2>1 DEF WorkerOk
<1>4. items.changes <= items'.changes
  BY <1>1 DEF WorkerOk
<1> DEFINE v == W'
<1>5. Env(popup, v) /\ Ahead(v) /\ HistoryOk'
  BY <1>1, <1>3, <1>4, Grown
<1>6. v = W'
  OBVIOUS
<1> HIDE DEF v
<1>7. PICK u, x : popup' = Tell(popup, Event("cache", u, x))
  BY DEF Refresh
<1>8. Env(popup', v) /\ Extends(popup, popup')
  BY <1>5, <1>7, EnvEvent
<1> QED
  BY <1>1, <1>5, <1>6, <1>8 DEF WorkerMoves

\* Whatever happens outside, except that the popup is closed and opened.
LEMMA OutsideMoves ==
  ASSUME NEW d, Good(popup, d), WorkerOk, HistoryOk, Env(popup, W), Outside, ~CloseAndOpen
  PROVE  WorkerMoves
<1>1. CASE Age
  <2>1. UNCHANGED <<session, logins, items, own, ownItems>> /\ popup' = [popup EXCEPT !.old = Held]
    BY <1>1 DEF Age, Changed, worker, history
  <2>2. popup'.inbox = popup.inbox /\ popup'.sent = popup.sent
    BY <2>1 DEF Good, Shape, Field
  <2> QED
    BY <2>1, <2>2, EnvLess, QuietMove
<1>2. CASE Expire
  <2>1. UNCHANGED <<logins, items, own, ownItems>> /\ popup' = NewToken(popup)
    BY <1>2 DEF Expire, history
  <2>2. Env(popup', W') /\ Extends(popup, popup') /\ HistoryOk' /\ (TokenIn(popup') \/ Locked)
    BY <2>1, Stays, TokenGone
  <2> QED
    BY <2>1, <2>2 DEF WorkerMoves
<1>3. CASE Clear
  <2>1. UNCHANGED <<session, logins, items, own, ownItems>> /\ popup' = CutReads(popup)
    BY <1>3 DEF Clear, Changed, worker, history
  <2>2. Env(popup', W) /\ Extends(popup, popup')
    BY <2>1, AheadNow, EnvCutReads
  <2> QED
    BY <2>1, <2>2, QuietMove
<1>4. CASE \E l \in Login : Refresh(l)
  BY <1>4, RefreshMoves
<1>5. CASE \E i \in DOMAIN popup.sent : Fail(i)
  <2>1. PICK i \in DOMAIN popup.sent : Fail(i)
    BY <1>5
  <2>2. UNCHANGED <<session, logins, items, own, ownItems>>
        /\ popup' = Reply(Without(i), popup.sent[i], Failed("error"))
    BY <2>1 DEF Fail, worker, history
  <2>3. LET q == Reply(Without(i), popup.sent[i], Failed("error")) IN Env(q, W) /\ Extends(popup, q)
    BY RefusedMoves
  <2> QED
    BY <2>2, <2>3, QuietMove
<1> QED
  BY <1>1, <1>2, <1>3, <1>4, <1>5 DEF Outside

(***************************************************************************)
(* What may be held when                                                   *)
(***************************************************************************)
\* Nothing is on its way to a popup that was just opened.
LEMMA EnvOpened ==
  ASSUME NEW p, NEW w, p.inbox = <<>>, \A c \in Elems(p.sent) : c.use = "dead" \/ Began(c)
  PROVE  Env(p, w)
<1>1. DOMAIN p.inbox = {}
  OBVIOUS
<1>2. \A c \in Elems(p.sent) : SentNew(c, w.oi)
  BY DEF SentNew, Began
<1> QED
  BY <1>1, <1>2 DEF Env, Currently

\* AdmOf is a choice of what is admitted, bare or not.
LEMMA AdmIs ==
  ASSUME NEW s, NEW o \in [Login -> Version], NEW n, NEW u, NEW m
  PROVE  LET d == AdmOf(s, o, n, u, m) IN Admits(d) /\ Admits(Bare(d))
<1> DEFINE d == AdmOf(s, o, n, u, m)  b == Bare(d)
<1>1. None \notin ListData \cup CardData
  BY NoneAssumption, ListsTyped
<1>2. ASSUME NEW x \in d.lists, NEW l \in Login PROVE [x EXCEPT !.of[l] = Gone] \in d.lists
  <2> DEFINE y == [x EXCEPT !.of[l] = Gone]
  <2>1. x \in ListData /\ y \in ListData /\ y.session = x.session
    BY VersionEnds DEF AdmOf, ListData
  <2>2. \A k \in Login : y.of[k] = IF k = l THEN Gone ELSE x.of[k]
    BY <2>1 DEF ListData
  <2>3. o[l] <= Gone
    BY ConstantAssumption DEF Version, Gone
  <2>4. (u \/ x.session = s) /\ (m \/ \A k \in Login : o[k] <= x.of[k])
    BY DEF AdmOf
  <2> HIDE DEF y
  <2>5. m \/ \A k \in Login : o[k] <= y.of[k]
    BY <2>2, <2>3, <2>4
  <2>6. y \in d.lists
    BY <2>1, <2>4, <2>5 DEF AdmOf
  <2> QED
    BY <2>6 DEF y
<1>3. /\ d.lists \subseteq ListData /\ d.logins \subseteq d.forms /\ d.forms \subseteq LoginData
      /\ d.cards \subseteq CardData /\ d.lists \subseteq d.rows /\ d.cards \subseteq d.rows
      /\ d.rows \subseteq ListData \cup CardData
  BY DEF AdmOf
<1>4. b.lists = {} /\ b.logins = {} /\ b.forms = d.forms /\ b.cards = d.cards /\ b.rows = d.rows
  BY DEF Bare, AdmOf
<1> HIDE DEF d, b
<1>5. Admits(d)
  BY <1>1, <1>2, <1>3 DEF Admits
<1>6. Admits(b)
  BY <1>1, <1>3, <1>4 DEF Admits
<1> QED
  BY <1>5, <1>6 DEF d, b

\* It grows with the doubts; and a session that is locked had nothing to admit.
LEMMA AdmGrows ==
  ASSUME NEW s, NEW t, NEW o, NEW n, NEW u \in BOOLEAN, NEW m \in BOOLEAN, NEW v \in BOOLEAN, NEW k \in BOOLEAN,
         u => v, m => k, s = t \/ v \/ s \notin OpenSession
  PROVE  LET d == AdmOf(s, o, n, u, m)  e == AdmOf(t, o, n, v, k) IN Within(d, e) /\ Within(Bare(d), Bare(e))
<1> DEFINE d == AdmOf(s, o, n, u, m)  e == AdmOf(t, o, n, v, k)
<1>1. \A x \in ListData \cup LoginData \cup CardData : u \/ x.session = s => v \/ x.session = t
  BY DEF ListData, LoginData, CardData
<1>2. d.lists \subseteq e.lists /\ d.logins \subseteq e.logins
  BY <1>1 DEF AdmOf
<1>3. d.forms \subseteq e.forms /\ d.cards \subseteq e.cards /\ d.rows \subseteq e.rows
  BY <1>1 DEF AdmOf
<1>4. DOMAIN d = {"lists", "logins", "forms", "cards", "rows"} /\ DOMAIN e = {"lists", "logins", "forms", "cards", "rows"}
      /\ d = [x \in DOMAIN d |-> d[x]] /\ e = [x \in DOMAIN e |-> e[x]]
  BY DEF AdmOf
<1> HIDE DEF d, e
<1>5. Within(d, e)
  BY <1>2, <1>3 DEF Within
<1>6. Within(Bare(d), Bare(e))
  BY <1>3, <1>4 DEF Within, Bare
<1> QED
  BY <1>5, <1>6 DEF d, e

\* A request remains one when more is admitted.
LEMMA CallGrows ==
  ASSUME NEW c, NEW lit, NEW id, NEW d, NEW e, CallOk(c, lit, id, d), Within(d, e)
  PROVE  CallOk(c, lit, id, e)
BY DEF CallOk, Carries, Within, Maybe

\* The popup remains good when more is admitted.
LEMMA GoodGrows ==
  ASSUME NEW p, NEW d, NEW e, Good(p, d), Within(d, e)
  PROVE  Good(p, e)
<1>1. Holds(p, e)
  <2>1. Maybe(d.rows) \subseteq Maybe(e.rows) /\ Maybe(d.lists) \subseteq Maybe(e.lists)
        /\ Maybe(d.cards) \subseteq Maybe(e.cards) /\ Maybe(d.logins) \subseteq Maybe(e.logins)
        /\ Maybe(d.forms) \subseteq Maybe(e.forms) /\ d.rows \subseteq e.rows
    BY DEF Within, Maybe
  <2>2. Dialogs(d) \subseteq Dialogs(e)
    BY <2>1 DEF Dialogs
  <2>3. Holds(p, d)
    BY DEF Good
  <2> QED
    BY <2>1, <2>2, <2>3 DEF Holds
<1>2. Asks(p, e)
  <2>1. AsksSent(p.sent, Lit(p), p.detail.id, e)
    BY CallGrows DEF Good, Asks, AsksSent
  <2>2. AsksWaiting(p.waiting, Lit(p), p.detail.id, e)
    BY CallGrows DEF Good, Asks, AsksWaiting
  <2>3. AsksInbox(p.inbox, Lit(p), p.detail.id, e)
    BY CallGrows DEF Good, Asks, AsksInbox, InboxOk
  <2> QED
    BY <2>1, <2>2, <2>3 DEF Asks
<1> QED
  BY <1>1, <1>2 DEF Good

\* The requests of a locked view are such whatever is admitted.
LEMMA CallUnlit ==
  ASSUME NEW c, NEW lit, ~lit, NEW id, NEW d, NEW e, CallOk(c, lit, id, d)
  PROVE  CallOk(c, lit, id, e)
<1>1. c.what = "resume" \/ (c.what = "login entry" /\ c.use = "restore") => NeedsRender(c)
  BY DEF NeedsRender
<1> QED
  BY <1>1 DEF CallOk, Carries, Opens

\* A locked view is good whatever is admitted.
LEMMA UnlitGood ==
  ASSUME NEW p, NEW d, Good(p, d), ~Lit(p), NEW e
  PROVE  Good(p, e)
<1>1. Empty(p)
  BY DEF Good, Closed
<1>2. Holds(p, e)
  <2>1. Holds(p, d)
    BY DEF Good
  <2> QED
    BY <1>1, <2>1 DEF Holds, Empty, Maybe, Dialogs
<1>3. Asks(p, e)
  <2>1. AsksSent(p.sent, Lit(p), p.detail.id, e)
    BY CallUnlit DEF Good, Asks, AsksSent
  <2>2. AsksWaiting(p.waiting, Lit(p), p.detail.id, e)
    BY CallUnlit DEF Good, Asks, AsksWaiting
  <2>3. AsksInbox(p.inbox, Lit(p), p.detail.id, e)
    BY CallUnlit DEF Good, Asks, AsksInbox, InboxOk
  <2> QED
    BY <2>1, <2>2, <2>3 DEF Asks
<1> QED
  BY <1>2, <1>3 DEF Good

(***************************************************************************)
(* The invariant of what is held                                           *)
(***************************************************************************)
\* What may be held now.
AdmNow == Adm(popup, session, own, ownItems)
\* When the popup is about to be told of its change of a login, it holds no list and no
\* login: it has been told to drop them, and nothing comes between.
FirstOk == 1 \in DOMAIN popup.inbox /\ Told(popup.inbox[1]) => Missed(popup) \/ Good(popup, Bare(AdmNow))

\* The inductive invariant of what is held.
HeldInv == WorkerOk /\ HistoryOk /\ Good(popup, AdmNow) /\ Env(popup, W) /\ FirstOk

\* AdmNow is a choice of what is admitted.
LEMMA NowAdmitted ==
  ASSUME HistoryOk
  PROVE  Admits(AdmNow) /\ Admits(Bare(AdmNow))
BY AdmIs DEF AdmNow, Adm, HistoryOk

\* After the step as well.
LEMMA NextAdmitted ==
  ASSUME HistoryOk'
  PROVE  Admits(AdmNow') /\ Admits(Bare(AdmNow'))
BY AdmIs DEF AdmNow, Adm, HistoryOk

\* Doubts stay while slips do.
LEMMA SlipsGrow ==
  ASSUME NEW p, NEW q, p.slips \subseteq q.slips
  PROVE  /\ Missed(p) \in BOOLEAN /\ Missed(q) \in BOOLEAN /\ Unsure(p) \in BOOLEAN /\ Unsure(q) \in BOOLEAN
         /\ Missed(p) => Missed(q)
         /\ (TokenIn(p) => TokenIn(q)) => (Unsure(p) => Unsure(q))
BY DEF Missed, Unsure, TokenIn

\* A step in which the popup is told nothing keeps the invariant.
LEMMA HeldKept ==
  ASSUME HeldInv, Sound(popup, popup', AdmNow) \/ Anew(popup'),
         Good(popup, Bare(AdmNow)) => Sound(popup, popup', Bare(AdmNow)) \/ Anew(popup'),
         Extends(popup, popup'), WorkerOk', HistoryOk', UNCHANGED <<own, ownItems>>,
         session' = session \/ TokenIn(popup') \/ Locked, Env(popup', W')
  PROVE  HeldInv'
<1> DEFINE d == AdmNow  e == AdmNow'
<1>1. Admits(e) /\ Admits(Bare(e))
  BY NextAdmitted
<1>2. CASE Anew(popup')
  <2>1. Good(popup', e) /\ Good(popup', Bare(e))
    BY <1>1, <1>2 DEF Anew
  <2> QED
    BY <2>1 DEF HeldInv, FirstOk
<1>3. CASE ~Anew(popup')
  <2>1. Sound(popup, popup', d)
    BY <1>3
  <2>2. popup.slips \subseteq popup'.slips
    BY <2>1 DEF Sound
  <2>3. /\ Missed(popup) \in BOOLEAN /\ Missed(popup') \in BOOLEAN /\ Unsure(popup) \in BOOLEAN
        /\ Unsure(popup') \in BOOLEAN /\ (Missed(popup) => Missed(popup')) /\ (Unsure(popup) => Unsure(popup'))
    BY <2>2, SlipsGrow, StillIn
  <2>4. session = session' \/ Unsure(popup') \/ session \notin OpenSession
    BY DEF Unsure, Locked, OpenSession
  <2>5. d = AdmOf(session, own, ownItems, Unsure(popup), Missed(popup))
        /\ e = AdmOf(session', own, ownItems, Unsure(popup'), Missed(popup'))
    BY DEF AdmNow, Adm
  <2> HIDE DEF d, e
  <2>6. Within(d, e) /\ Within(Bare(d), Bare(e))
    BY <2>3, <2>4, <2>5, AdmGrows
  <2>7. Good(popup', e)
    BY <2>1, <2>6, GoodGrows DEF Sound
  <2>8. ASSUME 1 \in DOMAIN popup'.inbox, Told(popup'.inbox[1]) PROVE Missed(popup') \/ Good(popup', Bare(e))
    <3>1. 1 \in DOMAIN popup.inbox /\ Told(popup.inbox[1])
      BY <2>8, StillIn
    <3>2. Missed(popup) \/ Good(popup, Bare(d))
      BY <3>1 DEF HeldInv, FirstOk, d
    <3>3. CASE Missed(popup)
      BY <2>3, <3>3
    <3>4. CASE Good(popup, Bare(d))
      <4>1. Good(popup', Bare(d))
        BY <1>3, <3>4 DEF Sound, d
      <4> QED
        BY <2>6, <4>1, GoodGrows
    <3> QED
      BY <3>2, <3>3, <3>4
  <2> QED
    BY <2>7, <2>8 DEF HeldInv, FirstOk, e
<1> QED
  BY <1>2, <1>3

\* What the popup does by itself keeps it.
LEMMA OwnHeld ==
  ASSUME HeldInv, User \/ GoOn \/ Timers
  PROVE  HeldInv'
<1>1. Admits(AdmNow) /\ Admits(Bare(AdmNow)) /\ Good(popup, AdmNow) /\ WorkerOk
  BY NowAdmitted DEF HeldInv
<1>2. (Keeps(popup, popup', AdmNow) \/ Cleared(popup, popup')) /\ WorkerOk' /\ UNCHANGED <<worker, own, ownItems>>
  BY <1>1, OwnStep
<1>3. Good(popup, Bare(AdmNow)) => Keeps(popup, popup', Bare(AdmNow)) \/ Cleared(popup, popup')
  BY <1>1, OwnStep
<1>4. Follows(popup', popup)
  BY <1>2, Stays DEF Keeps, Cleared
<1>5. W' = W /\ HistoryOk' /\ session' = session
  BY <1>2 DEF W, worker, HeldInv, HistoryOk
<1>6. Env(popup', W') /\ Extends(popup, popup')
  BY <1>4, <1>5, EnvFollows DEF HeldInv
<1>7. Sound(popup, popup', AdmNow) \/ Anew(popup')
  BY <1>2 DEF Keeps, Cleared
<1>8. Good(popup, Bare(AdmNow)) => Sound(popup, popup', Bare(AdmNow)) \/ Anew(popup')
  BY <1>3 DEF Keeps, Cleared
<1> QED
  BY <1>2, <1>5, <1>6, <1>7, <1>8, HeldKept

\* What the worker does, and what happens outside, keeps it.
LEMMA WorkerHeld ==
  ASSUME HeldInv, Serve \/ Outside
  PROVE  HeldInv'
<1>1. Good(popup, AdmNow) /\ WorkerOk /\ HistoryOk /\ Env(popup, W)
  BY DEF HeldInv
<1>2. CASE ~CloseAndOpen
  <2>1. WorkerMoves
    BY <1>1, <1>2, ServeMoves, OutsideMoves
  <2>2. (Sound(popup, popup', AdmNow) \/ Anew(popup')) /\ WorkerOk'
    BY <1>1, ServeKeeps, OutsideKeeps
  <2>3. Good(popup, Bare(AdmNow)) => Sound(popup, popup', Bare(AdmNow)) \/ Anew(popup')
    BY <1>1, ServeKeeps, OutsideKeeps
  <2> QED
    BY <2>1, <2>2, <2>3, HeldKept DEF WorkerMoves
<1>3. CASE CloseAndOpen
  <2>1. /\ Anew(popup') /\ WorkerOk' /\ popup'.inbox = <<>>
        /\ \A c \in Elems(popup'.sent) : c.use = "dead" \/ Began(c)
    BY <1>1, <1>3, CloseAndOpenKeeps
  <2>2. HistoryOk'
    BY <1>1, <1>3 DEF CloseAndOpen, worker, HistoryOk
  <2>3. Env(popup', W')
    BY <2>1, EnvOpened
  <2>4. Good(popup', AdmNow') /\ Good(popup', Bare(AdmNow'))
    BY <2>1, <2>2, NextAdmitted DEF Anew
  <2> QED
    BY <2>1, <2>2, <2>3, <2>4 DEF HeldInv, FirstOk
<1> QED
  BY <1>2, <1>3

(***************************************************************************)
(* What the popup is told                                                  *)
(***************************************************************************)
\* The first event is taken, the others move up.
LEMMA Taken ==
  ASSUME NEW s, IsSeq(s), s # <<>>
  PROVE  LET t == Tail(s) IN
         /\ 1 \in DOMAIN s /\ Head(s) = s[1]
         /\ \A k \in DOMAIN t : k \in Nat /\ k > 0 /\ k + 1 \in DOMAIN s /\ t[k] = s[k + 1]
         /\ \A j \in DOMAIN s : j = 1 \/ (j > 1 /\ j - 1 \in DOMAIN t /\ t[j - 1] = s[j])
BY DEF IsSeq

\* What comes first may be held.
LEMMA HeadFits ==
  ASSUME HeldInv, popup.inbox # <<>>, Head(popup.inbox).kind = "answer"
  PROVE  Fits(Head(popup.inbox).call, Head(popup.inbox).result, AdmNow)
<1> DEFINE e == Head(popup.inbox)
<1>1. IsSeq(popup.inbox) /\ Env(popup, W) /\ Good(popup, AdmNow)
  BY DEF HeldInv, Good, Asks, AsksInbox
<1>2. 1 \in DOMAIN popup.inbox /\ e = popup.inbox[1] /\ e.kind = "answer"
  BY <1>1, Taken
<1> HIDE DEF e
<1>3. InboxOk(e, Lit(popup), popup.detail.id, AdmNow)
  BY <1>1, <1>2 DEF Good, Asks, AsksInbox, Elems
<1>4. AnswerOk(e.call, e.result)
  BY <1>2, <1>3 DEF InboxOk, TokenChanged, Event
<1>5. /\ \A x : Brings(e, x) => x.session = session \/ Unsure(popup)
      /\ NoOlder(e, own) /\ CardsNew(e, ownItems)
  BY <1>1, <1>2 DEF Env, Currently, W, Unsure, TokenIn
<1> SUFFICES ASSUME e.result.code = "ok" PROVE Fits(e.call, e.result, AdmNow)
  BY DEF Fits, e
<1>6. Given(e)
  BY <1>2 DEF Given
<1>7. \A x : HasList(e, x) => x \in AdmNow.lists
  BY <1>5 DEF HasList, Brings, NoOlder, AdmNow, Adm, AdmOf
<1>8. \A x : HasLogin(e, x) => x \in AdmNow.logins
  BY <1>5 DEF HasLogin, Brings, NoOlder, AdmNow, Adm, AdmOf
<1>9. \A x : HasCards(e, x) => x \in AdmNow.rows /\ ("cache" \in e.call.fresh /\ e.call.use # "migrate" => x \in AdmNow.cards)
  BY <1>5 DEF HasCards, Brings, CardsNew, AdmNow, Adm, AdmOf
<1>10. e.call.what = "list" => e.result.data \in Maybe(AdmNow.lists)
  BY <1>4, <1>6, <1>7 DEF AnswerOk, HasList, Maybe
<1>11. e.call.what = "login entry" => e.result.data \in Maybe(AdmNow.logins)
  BY <1>4, <1>6, <1>8 DEF AnswerOk, HasLogin, Maybe
<1>12. e.call.what = "bootstrap" => e.result.data.snapshot \in Maybe(AdmNow.lists)
  BY <1>4, <1>6, <1>7 DEF AnswerOk, HasList, Maybe
<1>13. e.call.what = "items" => HasCards(e, e.result.data)
  BY <1>4, <1>6 DEF AnswerOk, HasCards
<1> QED
  BY <1>9, <1>10, <1>11, <1>12, <1>13 DEF Fits, Fresh

\* A request whose render counter moved brings nothing, whatever is admitted.
LEMMA CallDropped ==
  ASSUME NEW c, NEW lit, NEW id, NEW d, NEW e, CallOk(c, lit, id, d), c.fresh \cap {"render"} = {}
  PROVE  CallOk(c, lit, id, e)
BY DEF CallOk, Carries

\* A popup without list and login, and with no answer under way that brings one.
LEMMA BareGood ==
  ASSUME NEW p, NEW d, Good(p, d), p.list = None, p.detail.login = None, Cut(p, {"render"})
  PROVE  Good(p, Bare(d))
<1>1. Holds(p, Bare(d))
  <2>1. Dialogs(Bare(d)) = Dialogs(d)
    BY DEF Dialogs, Bare
  <2>2. Bare(d).rows = d.rows /\ Bare(d).cards = d.cards /\ Bare(d).forms = d.forms
    BY DEF Bare
  <2>3. None \in Maybe(Bare(d).lists) /\ None \in Maybe(Bare(d).logins)
    BY DEF Maybe
  <2>4. Holds(p, d)
    BY DEF Good
  <2>5. p.detail \in [id : Maybe(Login), login : Maybe(Bare(d).logins), revealed : BOOLEAN]
    BY <2>3, <2>4 DEF Holds
  <2> QED
    BY <2>1, <2>2, <2>3, <2>4, <2>5 DEF Holds
<1>2. Asks(p, Bare(d))
  <2>1. AsksSent(p.sent, Lit(p), p.detail.id, Bare(d))
    BY CallDropped DEF Good, Asks, AsksSent, Cut
  <2>2. AsksWaiting(p.waiting, Lit(p), p.detail.id, Bare(d))
    BY CallDropped DEF Good, Asks, AsksWaiting, Cut
  <2>3. AsksInbox(p.inbox, Lit(p), p.detail.id, Bare(d))
    BY CallDropped DEF Good, Asks, AsksInbox, InboxOk, IsAnswer, Cut
  <2> QED
    BY <2>1, <2>2, <2>3 DEF Asks
<1> QED
  BY <1>1, <1>2 DEF Good

\* Reread leaves such a popup.
LEMMA RereadBare ==
  ASSUME NEW p, NEW d, Admits(d), Admits(Bare(d)), Good(p, d), Lit(p)
  PROVE  Good(Reread(p), Bare(d))
<1> DEFINE b == Bump(p, {"render"})  l == ListInvalidate(b)  q == DetailInvalidate(l)  e == Bare(d)
<1>1. Keeps(p, b, d) /\ Cut(b, {"render"})
  BY BumpGood
<1> HIDE DEF b
<1>2. Keeps(b, l, d) /\ l.list = None /\ Cut(l, {"render"})
  <2>1. Keeps(b, l, d) /\ l.list = None /\ Agree(b, l, Field \ {"list", "old", "timers", "rows"})
    BY <1>1, ListInvalidateGood DEF Keeps, Sound
  <2>2. Agree(b, l, Calls)
    BY <2>1 DEF Agree, Field, Calls
  <2> QED
    BY <1>1, <2>1, <2>2, CutKept
<1> HIDE DEF l
<1>3. Keeps(l, q, d) /\ q.list = None /\ q.detail.login = None /\ Cut(q, {"render"})
  <2>1. /\ Keeps(l, q, d) /\ Agree(l, q, ViewF \ {"detail", "old", "timers"})
        /\ q.detail = [id |-> l.detail.id, login |-> None, revealed |-> FALSE]
        /\ \A x : Cut(l, x) => Cut(q, x)
    BY <1>2, DetailInvalidated DEF Keeps, Sound
  <2>2. q.list = None
    BY <1>2, <2>1 DEF Agree, ViewF
  <2> QED
    BY <1>2, <2>1, <2>2
<1>4. Reread(p) = IF q.form.editing # None THEN FormClose(q)
                  ELSE IF Shows(q, "detail") /\ q.detail.id # None THEN DetailShow(q, q.detail.id)
                  ELSE IF OnPasswords(q) THEN ListRefresh(q, "reload")
                  ELSE q
  BY DEF Reread, l, b
<1> HIDE DEF q
<1>5. Good(q, d) /\ Lit(q)
  BY <1>1, <1>2, <1>3 DEF Keeps, Sound
<1>6. Good(q, e) /\ Admits(e)
  BY <1>3, <1>5, BareGood
<1> HIDE DEF e
<1>7. Keeps(q, FormClose(q), e)
  BY <1>5, <1>6, FormCloseGood
<1>8. q.detail.id # None => Keeps(q, DetailShow(q, q.detail.id), e)
  <2>1. q.detail.id \in Maybe(Login)
    BY <1>5 DEF Good, Holds
  <2> QED
    BY <1>5, <1>6, <2>1, DetailShowGood DEF Maybe
<1>9. Keeps(q, ListRefresh(q, "reload"), e)
  BY <1>5, <1>6, ListRefreshGood
<1>10. Good(Reread(p), e)
  BY <1>4, <1>6, <1>7, <1>8, <1>9 DEF Keeps, Sound
<1> QED
  BY <1>10 DEF e

\* The same while no cards are held.
NoCards(d) == [d EXCEPT !.cards = {}]

\* It is a choice of what is admitted.
LEMMA NoCardsAdmits ==
  ASSUME NEW d, Admits(d), DOMAIN d = {"lists", "logins", "forms", "cards", "rows"}
  PROVE  Admits(NoCards(d))
<1> DEFINE e == NoCards(d)
<1>1. e.lists = d.lists /\ e.logins = d.logins /\ e.forms = d.forms /\ e.cards = {} /\ e.rows = d.rows
  BY DEF NoCards
<1> HIDE DEF e
<1>2. Admits(e)
  BY <1>1 DEF Admits
<1> QED
  BY <1>2 DEF e

\* A popup without cards holds what is admitted when none are.
LEMMA NoCardsGood ==
  ASSUME NEW p, NEW d, Good(p, d), p.cards = None, DOMAIN d = {"lists", "logins", "forms", "cards", "rows"}
  PROVE  Good(p, NoCards(d))
<1> DEFINE e == NoCards(d)
<1>1. e.lists = d.lists /\ e.logins = d.logins /\ e.forms = d.forms /\ e.cards = {} /\ e.rows = d.rows
  BY DEF NoCards
<1> HIDE DEF e
<1>2. Holds(p, e)
  <2>1. Dialogs(e) = Dialogs(d)
    BY <1>1 DEF Dialogs
  <2> QED
    BY <1>1, <2>1 DEF Good, Holds, Maybe
<1>3. \A c, lit, id : CallOk(c, lit, id, d) => CallOk(c, lit, id, e)
  BY <1>1 DEF CallOk, Carries
<1>4. Asks(p, e)
  BY <1>3 DEF Good, Asks, AsksSent, AsksWaiting, AsksInbox, InboxOk
<1>5. Good(p, e)
  BY <1>2, <1>4 DEF Good
<1> QED
  BY <1>5 DEF e

\* What the popup does when it is told of its change of a card.
LEMMA CardToldIs ==
  ASSUME NEW p, NEW c, NEW r, c.what \in ItemMutations, c.use # "migrate", "view" \in c.fresh, r.code = "ok"
  PROVE  Answered(p, c, r) = RenderCards(ForgetCards(p), None)
<1>1. c.what \notin Storage \cup {"logout"} \cup Mutations
      /\ c.what \notin {"bootstrap", "status", "resume", "login", "list", "login entry", "items"}
  BY DEF Storage, ItemMutations, Mutations
<1> DEFINE v == Received(p, c, r)
<1>2. v = <<p, r>>
  BY <1>1 DEF Received, Fresh
<1>3. Answered(p, c, r) = Handled(v[1], c, v[2])
  BY DEF Answered, Handled
<1> HIDE DEF v
<1>4. Answered(p, c, r) = Handled(p, c, r)
  BY <1>2, <1>3
<1>5. Handled(p, c, r) = ItemChanged(p, r)
  BY <1>1 DEF Handled, Mutations
<1> QED
  BY <1>4, <1>5 DEF ItemChanged

\* It keeps no cards then, and no answer under way may bring some that it keeps.
LEMMA CardToldGood ==
  ASSUME NEW p, NEW d, Admits(d), DOMAIN d = {"lists", "logins", "forms", "cards", "rows"}, Good(p, d), Lit(p),
         NEW w, Env(p, w), NEW n
  PROVE  LET q == RenderCards(ForgetCards(p), None)
         IN  Keeps(p, q, d) /\ Good(q, NoCards(d)) /\ Env(q, [w EXCEPT !.oi = n]) /\ Extends(p, q)
<1> DEFINE f == ForgetCards(p)  q == RenderCards(f, None)  v == [w EXCEPT !.oi = n]
<1>1. Keeps(p, f, d) /\ f.cards = None /\ Cut(f, {"cache"})
  BY ForgetCardsGood
<1> HIDE DEF f
<1>2. Good(f, d) /\ Lit(f) /\ Follows(f, p)
  BY <1>1, Stays DEF Keeps, Sound
<1>3. Env(f, w) /\ Extends(p, f)
  BY <1>2, EnvFollows
<1>4. \A k \in DOMAIN f.inbox : CardsNew(f.inbox[k], n)
  BY <1>1 DEF CardsNew, HasCards, Given, Cut, Elems
<1>5. \A c \in Elems(f.sent) : SentNew(c, n)
  BY <1>1 DEF SentNew, Cut
<1>6. Env(f, v)
  BY <1>3, <1>4, <1>5 DEF Env
<1>7. Keeps(f, q, d)
  BY <1>2, RenderCardsGood
<1>8. Good(f, NoCards(d)) /\ Admits(NoCards(d))
  BY <1>1, <1>2, NoCardsGood, NoCardsAdmits
<1>9. Keeps(f, q, NoCards(d))
  BY <1>2, <1>8, RenderCardsGood
<1> HIDE DEF q, v
<1>10. Follows(q, f)
  BY <1>7, Stays DEF Keeps
<1>11. Env(q, v) /\ Extends(f, q)
  BY <1>6, <1>10, EnvFollows
<1>12. Keeps(p, q, d)
  BY <1>1, <1>7 DEF Keeps, Sound
<1>13. Good(q, NoCards(d)) /\ Extends(p, q)
  BY <1>3, <1>9, <1>11, Further DEF Keeps, Sound
<1> QED
  BY <1>11, <1>12, <1>13 DEF q, f, v

\* The popup takes the first event, and what is on its way is as it should be.
LEMMA DeliverEnv ==
  ASSUME HeldInv, Deliver
  PROVE  LET q == [popup EXCEPT !.inbox = Tail(@)]  e == Head(popup.inbox) IN
         /\ Sound(popup, q, AdmNow) /\ (Keeps(q, popup', AdmNow) \/ Cleared(q, popup')) /\ WorkerOk'
         /\ Env(q, W) /\ Env(popup', W) /\ Extends(q, popup') /\ UNCHANGED worker
         /\ 1 \in DOMAIN popup.inbox /\ e = popup.inbox[1] /\ q.inbox = Tail(popup.inbox)
         /\ (popup.slips \subseteq popup'.slips /\ Good(popup', AdmNow)) \/ Anew(popup')
         /\ e # TokenChanged => (TokenIn(popup) => TokenIn(popup'))
<1> DEFINE q == [popup EXCEPT !.inbox = Tail(@)]  e == Head(popup.inbox)
<1>1. popup.inbox # <<>> /\ UNCHANGED worker
  BY DEF Deliver
<1>2. WorkerOk /\ HistoryOk /\ Good(popup, AdmNow) /\ Env(popup, W) /\ IsSeq(popup.inbox) /\ Admits(AdmNow)
  BY NowAdmitted DEF HeldInv, Good, Asks, AsksInbox
<1>3. e.kind = "answer" => Fits(e.call, e.result, AdmNow)
  BY <1>1, HeadFits
<1>4. Sound(popup, q, AdmNow) /\ (Keeps(q, popup', AdmNow) \/ Cleared(q, popup')) /\ WorkerOk'
  BY <1>2, <1>3, DeliverKeeps
<1>5. q.inbox = Tail(popup.inbox) /\ q.sent = popup.sent
  BY <1>2 DEF Good, Shape, Field
<1>6. 1 \in DOMAIN popup.inbox /\ e = popup.inbox[1]
  BY <1>1, <1>2, Taken
<1> HIDE DEF q, e
<1>7. Env(q, W)
  BY <1>1, <1>2, <1>5, EnvTail
<1>8. Follows(popup', q)
  BY <1>4, Stays DEF Keeps, Cleared
<1>9. Env(popup', W) /\ Extends(q, popup')
  BY <1>7, <1>8, EnvFollows
<1>10. ASSUME e # TokenChanged, TokenIn(popup) PROVE TokenIn(popup')
  <2>1. PICK j \in DOMAIN popup.inbox : popup.inbox[j] = TokenChanged
    BY <1>10 DEF TokenIn
  <2>2. j - 1 \in DOMAIN q.inbox /\ q.inbox[j - 1] = TokenChanged
    BY <1>1, <1>2, <1>5, <1>6, <1>10, <2>1, Taken
  <2>3. TokenIn(q)
    BY <2>2 DEF TokenIn
  <2> QED
    BY <1>9, <2>3, StillIn
<1>11. (popup.slips \subseteq popup'.slips /\ Good(popup', AdmNow)) \/ Anew(popup')
  BY <1>4 DEF Keeps, Cleared, Sound
<1> QED
  BY <1>1, <1>4, <1>5, <1>6, <1>7, <1>9, <1>10, <1>11 DEF q, e

\* What the popup is told.
LEMMA HeardOf ==
  ASSUME Deliver
  PROVE  LET e == Head(popup.inbox) IN
         /\ own' = IF Told(e) THEN [own EXCEPT ![e.result.data.login] = e.result.data.version] ELSE own
         /\ ownItems' = IF ToldCard(e) THEN e.result.data ELSE ownItems
         /\ e.kind = "answer" => popup' = Answered([popup EXCEPT !.inbox = Tail(@)], e.call, e.result)
         /\ e.kind # "answer" => popup' = Announced([popup EXCEPT !.inbox = Tail(@)], e)
BY DEF Deliver, history, Told, ToldCard, Given, Fresh

\* It is told of its change of a login: it holds nothing that could be older.
LEMMA ToldHeld ==
  ASSUME HeldInv, Deliver, Told(Head(popup.inbox))
  PROVE  HistoryOk' /\ Env(popup', W') /\ Good(popup', AdmNow')
<1> DEFINE q == [popup EXCEPT !.inbox = Tail(@)]  e == Head(popup.inbox)  ch == e.result.data
<1>1. /\ Sound(popup, q, AdmNow) /\ WorkerOk'
      /\ Env(q, W) /\ Env(popup', W) /\ Extends(q, popup') /\ UNCHANGED worker
      /\ 1 \in DOMAIN popup.inbox /\ e = popup.inbox[1] /\ q.inbox = Tail(popup.inbox)
      /\ (popup.slips \subseteq popup'.slips /\ Good(popup', AdmNow)) \/ Anew(popup')
      /\ e # TokenChanged => (TokenIn(popup) => TokenIn(popup'))
      /\ (Keeps(q, popup', AdmNow) \/ Cleared(q, popup'))
  BY DeliverEnv
<1>2. WorkerOk /\ HistoryOk /\ Good(popup, AdmNow) /\ Env(popup, W) /\ IsSeq(popup.inbox)
      /\ Admits(AdmNow) /\ Admits(Bare(AdmNow))
  BY NowAdmitted DEF HeldInv, Good, Asks, AsksInbox
<1>3. popup.inbox # <<>>
  BY DEF Deliver
<1>4. own' = [own EXCEPT ![ch.login] = ch.version] /\ ownItems' = ownItems
  BY HeardOf DEF Told, ToldCard, Mutations, ItemMutations
<1>5. Told(e) /\ e.kind = "answer" /\ e.call.what \in Mutations
  BY DEF Told, Given
<1>6. Good(popup, Bare(AdmNow)) => Good(popup', Bare(AdmNow)) \/ Anew(popup')
  <2>1. Fits(e.call, e.result, Bare(AdmNow))
    BY <1>5 DEF Fits, Mutations
  <2>2. ASSUME Good(popup, Bare(AdmNow)) PROVE Keeps(q, popup', Bare(AdmNow)) \/ Cleared(q, popup')
    BY <1>2, <2>1, <2>2, DeliverKeeps
  <2> QED
    BY <2>2 DEF Keeps, Cleared, Sound
<1> HIDE DEF q, e, ch
<1>7. ch \in [login : Login, version : Version] /\ ch.version <= logins[ch.login]
  BY <1>1, <1>2, <1>5 DEF Env, TrueOf, W, ch
<1>8. HistoryOk'
  <2>1. own' \in [Login -> Version] /\ \A l \in Login : own'[l] <= logins[l]
    BY <1>2, <1>4, <1>7 DEF HistoryOk
  <2>2. logins' = logins /\ items' = items
    BY <1>1 DEF worker
  <2> QED
    BY <1>2, <1>4, <2>1, <2>2 DEF HistoryOk
<1>9. W' = [W EXCEPT !.o = own']
  BY <1>1, <1>4 DEF W, worker
<1>10. ASSUME NEW k \in DOMAIN popup'.inbox PROVE NoOlder(popup'.inbox[k], own')
  <2>1. k \in DOMAIN q.inbox /\ SameEvent(popup'.inbox[k], q.inbox[k])
    <3>1. Follows(popup', q)
      BY <1>1, Stays DEF Keeps, Cleared
    <3> QED
      BY <3>1 DEF Follows
  <2>2. k \in Nat /\ k > 0 /\ k + 1 \in DOMAIN popup.inbox /\ q.inbox[k] = popup.inbox[k + 1]
    BY <1>1, <1>2, <1>3, <2>1, Taken
  <2>3. NotBefore(q.inbox[k], ch) /\ NoOlder(q.inbox[k], own)
    <3>1. 1 < k + 1
      BY <2>2
    <3> QED
      BY <1>1, <1>2, <1>5, <2>2, <3>1 DEF Env, W, ch
  <2>4. NoOlder(q.inbox[k], own')
    <3> DEFINE f == q.inbox[k]
    <3> HIDE DEF f
    <3>1. NotBefore(f, ch) /\ NoOlder(f, own)
      BY <2>3 DEF f
    <3>2. own \in [Login -> Version]
      BY <1>2 DEF HistoryOk
    <3>3. \A l \in Login : own'[l] = IF l = ch.login THEN ch.version ELSE own[l]
      BY <1>4, <1>7, <3>2
    <3>4. \A x : HasList(f, x) => \A l \in Login : own'[l] <= x.of[l]
      BY <3>1, <3>3 DEF NotBefore, NoOlder
    <3>5. \A x : HasLogin(f, x) => own'[x.id] <= x.version
      <4>1. \A x : HasLogin(f, x) => x.id \in Login
        BY DEF HasLogin, LoginData
      <4> QED
        BY <3>1, <3>3, <4>1 DEF NotBefore, NoOlder
    <3> QED
      BY <3>4, <3>5 DEF NoOlder, f
  <2> QED
    BY <2>1, <2>4, SameJudged
<1>11. Env(popup', W')
  <2>1. /\ W'.s = W.s /\ W'.o = own' /\ W'.oi = W.oi /\ W'.lg = W.lg /\ W'.n = W.n
    BY <1>9 DEF W
  <2> QED
    BY <1>1, <1>10, <2>1 DEF Env
<1>12. Good(popup', AdmNow')
  <2>1. Admits(AdmNow')
    BY <1>8, NextAdmitted
  <2>2. CASE Anew(popup')
    BY <2>1, <2>2 DEF Anew
  <2>3. CASE ~Anew(popup')
    <3>1. popup.slips \subseteq popup'.slips /\ (TokenIn(popup) => TokenIn(popup'))
      BY <1>1, <1>5, <2>3 DEF TokenChanged, Event
    <3>2. (Missed(popup) => Missed(popup')) /\ (Unsure(popup) => Unsure(popup'))
      BY <3>1, SlipsGrow
    <3>3. session' = session
      BY <1>1 DEF worker
    <3> DEFINE a == AdmOf(session, own, ownItems, Unsure(popup), Missed(popup))
               b == AdmOf(session, own', ownItems, Unsure(popup'), Missed(popup'))
    <3>4. AdmNow = a /\ AdmNow' = b
      BY <1>4, <3>3 DEF AdmNow, Adm
    <3>5. Missed(popup) \/ Good(popup, Bare(a))
      BY <1>1, <1>5, <3>4 DEF HeldInv, FirstOk
    <3>6. CASE Missed(popup)
      <4>1. Within(a, b)
        BY <3>2, <3>6 DEF Within, AdmOf
      <4> QED
        BY <1>1, <2>3, <3>4, <4>1, GoodGrows
    <3>7. CASE Good(popup, Bare(a))
      <4>1. Good(popup', Bare(a))
        BY <1>6, <2>3, <3>4, <3>7
      <4>2. Within(Bare(a), b)
        BY <3>2 DEF Within, AdmOf, Bare
      <4> QED
        BY <3>4, <4>1, <4>2, GoodGrows
    <3> QED
      BY <3>5, <3>6, <3>7
  <2> QED
    BY <2>2, <2>3
<1> QED
  BY <1>8, <1>11, <1>12

\* It is told of its change of a card.
LEMMA CardToldHeld ==
  ASSUME HeldInv, Deliver, ToldCard(Head(popup.inbox))
  PROVE  HistoryOk' /\ Env(popup', W') /\ Good(popup', AdmNow')
<1> DEFINE q == [popup EXCEPT !.inbox = Tail(@)]  e == Head(popup.inbox)  c == e.call  n == e.result.data
<1>1. /\ Sound(popup, q, AdmNow) /\ Env(q, W) /\ UNCHANGED worker
      /\ 1 \in DOMAIN popup.inbox /\ e = popup.inbox[1]
      /\ e # TokenChanged => (TokenIn(popup) => TokenIn(popup'))
  BY DeliverEnv
<1>2. WorkerOk /\ HistoryOk /\ Good(popup, AdmNow) /\ Env(popup, W) /\ Admits(AdmNow)
  BY NowAdmitted DEF HeldInv
<1>3. ToldCard(e) /\ e.kind = "answer" /\ e.result.code = "ok" /\ c.what \in ItemMutations /\ c.use # "migrate"
      /\ "view" \in c.fresh
  BY DEF ToldCard, Given
<1>4. own' = own /\ ownItems' = n /\ popup' = Answered(q, c, e.result)
  BY <1>3, HeardOf DEF Told, Mutations, ItemMutations
<1> HIDE DEF q
<1>5. InboxOk(e, Lit(popup), popup.detail.id, AdmNow)
  BY <1>1, <1>2 DEF Good, Asks, AsksInbox, Elems
<1>6. CallOk(c, Lit(popup), popup.detail.id, AdmNow) /\ c.use # "dead" /\ AnswerOk(c, e.result)
  BY <1>3, <1>5 DEF InboxOk, TokenChanged, Event
<1>7. Lit(q)
  <2>1. NeedsView(c)
    BY <1>3 DEF NeedsView, ItemMutations
  <2>2. Lit(popup)
    BY <1>3, <1>6, <2>1 DEF CallOk, Opens
  <2> QED
    BY <1>1, <2>2 DEF Sound
<1>8. n \in Nat /\ n <= items.changes
  BY <1>1, <1>2, <1>3, <1>6 DEF AnswerOk, Env, W
<1> HIDE DEF c, n, e
<1>9. popup' = RenderCards(ForgetCards(q), None)
  BY <1>3, <1>4, CardToldIs
<1>10. W' = [W EXCEPT !.oi = n] /\ HistoryOk' /\ session' = session
  BY <1>1, <1>2, <1>4, <1>8 DEF W, worker, HistoryOk
<1>11. DOMAIN AdmNow = {"lists", "logins", "forms", "cards", "rows"}
  BY DEF AdmNow, Adm, AdmOf
<1>12. Keeps(q, popup', AdmNow) /\ Good(popup', NoCards(AdmNow)) /\ Env(popup', W')
  <2>1. Good(q, AdmNow)
    BY <1>1 DEF Sound
  <2> QED
    BY <1>1, <1>2, <1>7, <1>9, <1>10, <1>11, <2>1, CardToldGood
<1>13. Good(popup', AdmNow')
  <2>1. popup.slips \subseteq popup'.slips
    BY <1>1, <1>12 DEF Keeps, Sound
  <2>2. TokenIn(popup) => TokenIn(popup')
    BY <1>1, <1>3 DEF TokenChanged, Event
  <2>3. (Missed(popup) => Missed(popup')) /\ (Unsure(popup) => Unsure(popup'))
    BY <2>1, <2>2, SlipsGrow
  <2> DEFINE a == AdmOf(session, own, ownItems, Unsure(popup), Missed(popup))
             b == AdmOf(session, own, n, Unsure(popup'), Missed(popup'))
  <2>4. AdmNow = a /\ AdmNow' = b
    BY <1>4, <1>10 DEF AdmNow, Adm
  <2>5. Within(NoCards(a), b)
    BY <2>3 DEF Within, AdmOf, NoCards
  <2> QED
    BY <1>12, <2>4, <2>5, GoodGrows
<1> QED
  BY <1>10, <1>12, <1>13

\* It is told of neither: what is brought is current, and what is held stays so, unless
\* the token is gone; then nothing is left.
LEMMA UntoldHeld ==
  ASSUME HeldInv, Deliver, ~Told(Head(popup.inbox)), ~ToldCard(Head(popup.inbox))
  PROVE  HistoryOk' /\ Env(popup', W') /\ Good(popup', AdmNow')
<1> DEFINE q == [popup EXCEPT !.inbox = Tail(@)]  e == Head(popup.inbox)
<1>1. /\ Sound(popup, q, AdmNow) /\ Env(popup', W) /\ UNCHANGED worker
      /\ (popup.slips \subseteq popup'.slips /\ Good(popup', AdmNow)) \/ Anew(popup')
      /\ e # TokenChanged => (TokenIn(popup) => TokenIn(popup'))
  BY DeliverEnv
<1>2. own' = own /\ ownItems' = ownItems /\ (e.kind # "answer" => popup' = Announced(q, e))
  BY HeardOf
<1>3. W' = W /\ HistoryOk' /\ session' = session
  BY <1>1, <1>2 DEF W, worker, HeldInv, HistoryOk
<1>4. Admits(AdmNow')
  BY <1>3, NextAdmitted
<1> HIDE DEF q, e
<1>5. AdmNow = AdmOf(session, own, ownItems, Unsure(popup), Missed(popup))
      /\ AdmNow' = AdmOf(session, own, ownItems, Unsure(popup'), Missed(popup'))
  BY <1>2, <1>3 DEF AdmNow, Adm
<1>6. ASSUME ~Anew(popup'), Unsure(popup) => Unsure(popup') PROVE Good(popup', AdmNow')
  <2>1. popup.slips \subseteq popup'.slips /\ Good(popup', AdmNow)
    BY <1>1, <1>6
  <2>2. /\ Missed(popup) \in BOOLEAN /\ Missed(popup') \in BOOLEAN /\ Unsure(popup) \in BOOLEAN
        /\ Unsure(popup') \in BOOLEAN /\ (Missed(popup) => Missed(popup'))
    BY <2>1, SlipsGrow
  <2>3. Within(AdmNow, AdmNow')
    BY <1>5, <1>6, <2>2, AdmGrows
  <2> QED
    BY <2>1, <2>3, GoodGrows
<1> SUFFICES Good(popup', AdmNow')
  BY <1>1, <1>3
<1>7. CASE Anew(popup')
  BY <1>4, <1>7 DEF Anew
<1>8. CASE ~Anew(popup') /\ e # TokenChanged
  <2>1. Unsure(popup) => Unsure(popup')
    BY <1>1, <1>8, SlipsGrow
  <2> QED
    BY <1>6, <1>8, <2>1
<1>9. CASE ~Anew(popup') /\ e = TokenChanged
  <2>1. e.kind = "token"
    BY <1>9 DEF TokenChanged, Event
  <2>2. popup' = IF Shows(q, "login") THEN q ELSE LoseSession(q)
    BY <1>2, <2>1 DEF Announced
  <2>3. CASE ~Shows(q, "login")
    BY <1>1, <2>2, <2>3, LoseSessionGood DEF Sound
  <2>4. CASE Shows(q, "login") /\ Lit(q)
    <3>1. "overlaid" \in q.slips \/ "astray" \in q.slips
      BY <1>1, <2>4 DEF Sound, Good, Closed, Shows, Lit
    <3>2. Unsure(popup')
      BY <2>2, <2>4, <3>1 DEF Unsure
    <3> QED
      BY <1>6, <1>9, <3>2
  <2>5. CASE Shows(q, "login") /\ ~Lit(q)
    BY <1>1, <2>2, <2>5, UnlitGood DEF Sound
  <2> QED
    BY <2>3, <2>4, <2>5
<1> QED
  BY <1>7, <1>8, <1>9

\* What is told next, if it is of a change of a login, follows the announcement.
LEMMA FirstHeld ==
  ASSUME HeldInv, Deliver, HistoryOk', Good(popup', AdmNow')
  PROVE  FirstOk'
<1> DEFINE q == [popup EXCEPT !.inbox = Tail(@)]  e == Head(popup.inbox)
<1> SUFFICES ASSUME 1 \in DOMAIN popup'.inbox, Told(popup'.inbox[1])
             PROVE  Missed(popup') \/ Good(popup', Bare(AdmNow'))
  BY DEF FirstOk
<1>1. /\ Sound(popup, q, AdmNow) /\ UNCHANGED worker /\ Extends(q, popup')
      /\ 1 \in DOMAIN popup.inbox /\ e = popup.inbox[1] /\ q.inbox = Tail(popup.inbox)
      /\ (popup.slips \subseteq popup'.slips /\ Good(popup', AdmNow)) \/ Anew(popup')
      /\ e # TokenChanged => (TokenIn(popup) => TokenIn(popup'))
  BY DeliverEnv
<1>2. IsSeq(popup.inbox) /\ Env(popup, W) /\ popup.inbox # <<>> /\ Admits(AdmNow) /\ Admits(Bare(AdmNow))
      /\ Admits(Bare(AdmNow'))
  BY NowAdmitted, NextAdmitted DEF HeldInv, Good, Asks, AsksInbox, Deliver
<1>3. e.kind # "answer" => popup' = Announced(q, e)
  BY HeardOf
<1>4. own' = IF Told(e) THEN [own EXCEPT ![e.result.data.login] = e.result.data.version] ELSE own
  BY HeardOf
<1>5. ownItems' = IF ToldCard(e) THEN e.result.data ELSE ownItems
  BY HeardOf
<1> HIDE DEF q, e
<1>6. 1 \in DOMAIN q.inbox /\ Told(q.inbox[1])
  BY <1>1, StillIn
<1>7. e = Invalidated
  <2>1. 1 + 1 \in DOMAIN popup.inbox /\ q.inbox[1] = popup.inbox[1 + 1]
    BY <1>1, <1>2, <1>6, Taken
  <2>2. 1 + 1 > 1 /\ (1 + 1) - 1 = 1
    OBVIOUS
  <2>3. Told(popup.inbox[1 + 1])
    BY <1>6, <2>1
  <2>4. popup.inbox[(1 + 1) - 1] = Invalidated
    BY <1>2, <2>1, <2>2, <2>3 DEF Env
  <2> QED
    BY <1>1, <2>2, <2>4
<1>8. e.kind = "invalidated" /\ e # TokenChanged
  BY <1>7 DEF Invalidated, TokenChanged, Event
<1>9. own' = own /\ ownItems' = ownItems /\ session' = session
  BY <1>1, <1>4, <1>5, <1>8 DEF Told, ToldCard, Given, worker
<1>10. popup' = IF ~q.lockBtn THEN (IF q.unlocked THEN Slip(q, "deaf") ELSE q) ELSE Reread(q)
  BY <1>3, <1>8 DEF Announced
<1>11. Good(q, AdmNow)
  BY <1>1 DEF Sound
<1>12. CASE ~q.lockBtn /\ q.unlocked
  <2>1. popup' = Slip(q, "deaf")
    BY <1>10, <1>12
  <2>2. "deaf" \in popup'.slips
    BY <1>11, <2>1 DEF Slip, Good, Shape, Field
  <2> QED
    BY <2>2 DEF Missed
<1>13. CASE ~q.lockBtn /\ ~q.unlocked
  <2>1. popup' = q
    BY <1>10, <1>13
  <2> QED
    BY <1>13, <2>1, UnlitGood DEF Missed, Lit
<1>14. CASE q.lockBtn
  <2>1. popup' = Reread(q)
    BY <1>10, <1>14
  <2>2. Good(popup', Bare(AdmNow))
    <3>1. Lit(q)
      BY <1>11, <1>14, LitIf
    <3> QED
      BY <1>2, <1>11, <2>1, <3>1, RereadBare
  <2>3. CASE Anew(popup')
    BY <1>2, <2>3 DEF Anew
  <2>4. CASE ~Anew(popup')
    <3>1. /\ Missed(popup) \in BOOLEAN /\ Missed(popup') \in BOOLEAN /\ Unsure(popup) \in BOOLEAN
          /\ Unsure(popup') \in BOOLEAN /\ (Missed(popup) => Missed(popup')) /\ (Unsure(popup) => Unsure(popup'))
      BY <1>1, <1>8, <2>4, SlipsGrow
    <3>2. AdmNow = AdmOf(session, own, ownItems, Unsure(popup), Missed(popup))
          /\ AdmNow' = AdmOf(session, own, ownItems, Unsure(popup'), Missed(popup'))
      BY <1>9 DEF AdmNow, Adm
    <3>3. Within(Bare(AdmNow), Bare(AdmNow'))
      BY <3>1, <3>2, AdmGrows
    <3> QED
      BY <2>2, <3>3, GoodGrows
  <2> QED
    BY <2>3, <2>4
<1> QED
  BY <1>12, <1>13, <1>14

\* Deliver keeps the invariant.
LEMMA DeliverHeld ==
  ASSUME HeldInv, Deliver
  PROVE  HeldInv'
<1>1. WorkerOk'
  BY DeliverEnv
<1>2. HistoryOk' /\ Env(popup', W') /\ Good(popup', AdmNow')
  BY ToldHeld, CardToldHeld, UntoldHeld
<1>3. FirstOk'
  BY <1>2, FirstHeld
<1> QED
  BY <1>1, <1>2, <1>3 DEF HeldInv

(***************************************************************************)
(* What is held is current                                                 *)
(***************************************************************************)
\* The invariant holds initially.
LEMMA HeldInit == Init => HeldInv
<1> SUFFICES ASSUME Init PROVE HeldInv
  OBVIOUS
<1>1. WorkerOk
  BY ViewInit DEF ViewInv
<1>2. popup = Opened(scene.resume, <<>>) /\ logins = scene.logins /\ items = [changes |-> 0, of |-> scene.vault]
      /\ own = [l \in Login |-> 0] /\ ownItems = 0
  BY DEF Init
<1>3. scene.resume \in Maybe(Login)
  BY ConstantAssumption DEF Init, Maybe
<1>4. Anew(popup) /\ popup.inbox = <<>> /\ \A c \in Elems(popup.sent) : c.use = "dead" \/ Began(c)
  <2>1. IsSeq(<<>>) /\ Elems(<<>>) = {}
    BY EmptySeq DEF IsSeq, Elems
  <2> QED
    BY <1>2, <1>3, <2>1, OpenedGood
<1>5. HistoryOk
  <2>1. 0 \in Version /\ Version \subseteq Nat
    BY ConstantAssumption DEF Version, Gone
  <2>2. logins \in [Login -> Version] /\ items.changes = 0
    BY <1>1, <1>2 DEF WorkerOk
  <2>3. own \in [Login -> Version] /\ ownItems \in Nat
    BY <1>2, <2>1
  <2>4. ASSUME NEW l \in Login PROVE own[l] <= logins[l]
    <3>1. own[l] = 0 /\ logins[l] \in Nat
      BY <1>2, <2>1, <2>2
    <3> QED
      BY <3>1
  <2> QED
    BY <1>2, <2>2, <2>3, <2>4 DEF HistoryOk
<1>6. Env(popup, W)
  BY <1>4, EnvOpened
<1>7. Good(popup, AdmNow)
  BY <1>4, <1>5, NowAdmitted DEF Anew
<1>8. FirstOk
  BY <1>4 DEF FirstOk
<1> QED
  BY <1>1, <1>5, <1>6, <1>7, <1>8 DEF HeldInv

\* Every step keeps it.
LEMMA HeldStep == HeldInv /\ [Next]_vars => HeldInv'
<1> SUFFICES ASSUME HeldInv, [Next]_vars PROVE HeldInv'
  OBVIOUS
<1>1. CASE Next
  BY <1>1, OwnHeld, WorkerHeld, DeliverHeld DEF Next
<1>2. CASE UNCHANGED vars
  BY <1>2 DEF vars, worker, history, HeldInv, WorkerOk, HistoryOk, AdmNow, W, FirstOk
<1> QED
  BY <1>1, <1>2

\* It holds always.
LEMMA HeldIsHeld == Spec => []HeldInv
BY HeldInit, HeldStep, PTL DEF Spec

\* What the popup holds is of the session that is open, or the announcement that its
\* token is gone is on its way (NewToken before any answer of the next session): but
\* after the start of the popup has put the login screen over an unlocked vault.
THEOREM HeldStaysCurrent == Spec => []HeldIsCurrent
<1>1. HeldInv => HeldIsCurrent
  <2> SUFFICES ASSUME HeldInv, popup.slips \cap {"overlaid", "astray"} = {}, NEW x \in Data, x # None
               PROVE  x.session = session \/ TokenIn(popup)
    BY DEF HeldIsCurrent, TokenIn
  <2> DEFINE d == AdmNow
  <2>1. Holds(popup, d)
    BY DEF HeldInv, Good
  <2>2. CASE TokenIn(popup)
    BY <2>2
  <2>3. CASE ~TokenIn(popup)
    <3>1. ~Unsure(popup)
      BY <2>3 DEF Unsure
    <3>2. \A y : y \in d.lists \/ y \in d.logins \/ y \in d.forms \/ y \in d.cards \/ y \in d.rows
                 => y.session = session
      BY <3>1 DEF AdmNow, Adm, AdmOf
    <3> HIDE DEF d
    <3>3. x \in d.lists \/ x \in d.logins \/ x \in d.forms \/ x \in d.cards \/ x \in d.rows
      <4>1. CASE x \in {popup.list, popup.detail.login, popup.form.from, popup.cards, popup.rows.of}
        <5>1. /\ popup.list \in Maybe(d.lists) /\ popup.detail.login \in Maybe(d.logins)
              /\ popup.form.from \in Maybe(d.forms) /\ popup.cards \in Maybe(d.cards)
              /\ popup.rows.of \in Maybe(d.rows)
          BY <2>1 DEF Holds
        <5> QED
          BY <4>1, <5>1 DEF Maybe
      <4>2. CASE x \in {m.of : m \in popup.dialogs}
        <5>1. PICK m \in popup.dialogs : x = m.of
          BY <4>2
        <5>2. m \in Dialogs(d)
          BY <2>1 DEF Holds
        <5>3. m.of \in {None} \cup d.rows
          BY <5>2 DEF Dialogs
        <5> QED
          BY <5>1, <5>3
      <4> QED
        BY <4>1, <4>2 DEF Data
    <3> QED
      BY <3>2, <3>3
  <2> QED
    BY <2>2, <2>3
<1> QED
  BY <1>1, HeldIsHeld, PTL

\* The popup does not show a login, list it, or keep cards, as they were before a change
\* of its own that it was told of: the change drops what is held and the counters of
\* what is read before it is told (invalidateData, cacheGeneration).
THEOREM OwnChangeIsShown == Spec => []OwnChangeShown
<1>1. HeldInv => OwnChangeShown
  <2> SUFFICES ASSUME HeldInv, popup.slips \cap {"deaf", "astray"} = {} PROVE
        /\ popup.detail.login # None => popup.detail.login.version >= own[popup.detail.login.id]
        /\ popup.list # None => \A l \in Login : popup.list.of[l] >= own[l]
        /\ popup.cards # None => popup.cards.changes >= ownItems
    BY DEF OwnChangeShown
  <2> DEFINE d == AdmNow
  <2>1. Holds(popup, d) /\ own \in [Login -> Version] /\ ownItems \in Nat
    BY DEF HeldInv, Good, HistoryOk
  <2>2. ~Missed(popup)
    BY DEF Missed
  <2>3. /\ \A y \in d.lists : y \in ListData /\ \A l \in Login : own[l] <= y.of[l]
        /\ \A y \in d.logins : y \in LoginData /\ own[y.id] <= y.version
        /\ \A y \in d.cards : y \in CardData /\ ownItems <= y.changes
    BY <2>2 DEF AdmNow, Adm, AdmOf
  <2> HIDE DEF d
  <2>4. popup.detail.login \in Maybe(d.logins) /\ popup.list \in Maybe(d.lists) /\ popup.cards \in Maybe(d.cards)
    BY <2>1 DEF Holds
  <2>5. Version \subseteq Nat
    BY ConstantAssumption DEF Version, Gone
  <2>6. popup.detail.login # None => popup.detail.login.version >= own[popup.detail.login.id]
    BY <2>1, <2>3, <2>4, <2>5 DEF Maybe, LoginData
  <2>7. popup.list # None => \A l \in Login : popup.list.of[l] >= own[l]
    BY <2>1, <2>3, <2>4, <2>5 DEF Maybe, ListData
  <2>8. popup.cards # None => popup.cards.changes >= ownItems
    BY <2>1, <2>3, <2>4 DEF Maybe, CardData
  <2> QED
    BY <2>6, <2>7, <2>8
<1> QED
  BY <1>1, HeldIsHeld, PTL

(***************************************************************************)
(* The migration of the old cards                                          *)
(***************************************************************************)
\* The cards the vault has.
CardsIn(of) == {of[i] : i \in Item} \ {None}
\* The form of a request.
Form(c) == DOMAIN c = {"what", "use", "arg", "chain", "fresh", "got"}
\* What the migration asks for.
MigrationSteps == {"local", "items", "create item", "forget local"}

\* A request that is none of the migration's, when the user changes no card: it changes
\* none either.
Usual(c) ==
    /\ Form(c) /\ c.use # "migrate" /\ c.what \notin ItemMutations \cup {"forget local"}
    /\ c.what = "items" => c.use = "render"

\* A request of the migration.  x says how the vault stands: the cards it has, the old
\* ones, and whether the popup is still the one that was opened first (alive).  Then
\* what was read, or known, is all the vault has: a card is created only when it has
\* none such.  The old storage is emptied only when the vault has all of it.
Asking(c, left, known, x) ==
    /\ Form(c) /\ c.use = "migrate" /\ c.what \in MigrationSteps
    /\ c.what = "items" =>
          /\ left = x.old
          /\ c.got # None => CardsIn(c.got.of) \subseteq x.cards /\ (x.alive => x.cards \subseteq CardsIn(c.got.of))
    /\ c.what = "create item" =>
          /\ left = x.old /\ c.arg \in Elems(x.old)
          /\ x.alive => x.cards \subseteq known /\ c.arg \notin x.cards
    /\ c.what = "forget local" => Elems(x.old) \subseteq x.cards

\* A request of a popup that was closed.
Orphan(c, x) ==
    /\ Form(c) /\ c.use = "dead" /\ ~x.alive
    /\ c.what \in ItemMutations => c.what = "create item" /\ c.arg \in Elems(x.old)
    /\ c.what = "forget local" => Elems(x.old) \subseteq x.cards

\* What an answer to the migration says of the vault.
Resolved(c, r, left, known, x) == r.code = "ok" =>
    /\ c.what = "local" => r.data = x.old \/ r.data = <<>>
    /\ c.what = "items" => /\ left = x.old /\ CardsIn(r.data.of) \subseteq x.cards
                           /\ x.alive => x.cards \subseteq CardsIn(r.data.of)
    /\ c.what = "create item" => /\ left = x.old /\ c.arg \in x.cards
                                 /\ x.alive => x.cards \subseteq known \cup {c.arg}

\* An answer on its way to the popup.
Reports(e, left, known, x) == e.kind = "answer" =>
    /\ IsAnswer(e)
    /\ \/ Usual(e.call)
       \/ /\ Form(e.call) /\ e.call.use = "migrate" /\ e.call.what \in MigrationSteps
          /\ Resolved(e.call, e.result, left, known, x)

\* Where the migration waits, or its answer does; and that this is in one place at most.
AskedAt(s) == {k \in DOMAIN s : s[k].use = "migrate"}
ToldAt(b) == {k \in DOMAIN b : b[k].kind = "answer" /\ b[k].call.use = "migrate"}
One(S) == \A j \in S, k \in S : j = k
Sole(s, b) == One(AskedAt(s)) /\ One(ToldAt(b)) /\ (AskedAt(s) = {} \/ ToldAt(b) = {})
Idle(p) == AskedAt(p.sent) = {} /\ ToldAt(p.inbox) = {}

\* The migration goes as it should: the popup makes one request for it at a time, knows
\* only cards that the vault has, and when it is not running asks for nothing.  x.idle
\* says that it neither asks nor waits, and holds what x holds.
Migr(p, x) ==
    /\ DOMAIN p = Field /\ IsSeq(p.sent) /\ IsSeq(p.waiting) /\ IsSeq(p.inbox)
    /\ \A m \in p.dialogs : m.kind \in LoginDialog
    /\ \A c \in Elems(p.waiting) : Usual(c)
    /\ \A c \in Elems(p.sent) : Usual(c) \/ Asking(c, p.left, p.known, x) \/ Orphan(c, x)
    /\ \A e \in Elems(p.inbox) : Reports(e, p.left, p.known, x)
    /\ p.known \ {None} \subseteq x.cards
    /\ p.migration \in {"no", "running", "done"}
    /\ Sole(p.sent, p.inbox) /\ (p.migration # "running" => Idle(p))
    /\ x.idle => Idle(p) /\ p.migration = "running" /\ p.left = x.left /\ p.known = x.known

\* The fields Migr is about.
MigrF == {"sent", "waiting", "inbox", "dialogs", "migration", "left", "known"}

(***************************************************************************)
(* The popup's handlers leave the migration alone                          *)
(***************************************************************************)
\* A step that leaves these fields alone.
LEMMA SameRun ==
  ASSUME NEW p, NEW q, NEW x, Migr(p, x), Agree(p, q, MigrF)
  PROVE  Migr(q, x)
BY DEF Migr, Agree, MigrF, Idle

\* Counters move, and requests stay what they were,
LEMMA StaleUsual ==
  ASSUME NEW c, NEW cs, Form(c)
  PROVE  LET s == Stale(c, cs) IN
         Form(s) /\ s.what = c.what /\ s.use = c.use /\ s.arg = c.arg /\ s.got = c.got
BY DEF Stale, Form

\* answers too,
LEMMA StaleReports ==
  ASSUME NEW e, NEW cs, NEW l, NEW k, NEW x, Reports(e, l, k, x)
  PROVE  LET s == StaleAnswer(e, cs) IN
         /\ Reports(s, l, k, x) /\ (s.kind = "answer" <=> e.kind = "answer")
         /\ e.kind = "answer" => (s.call.use = e.call.use)
<1> DEFINE s == StaleAnswer(e, cs)
<1>1. CASE e.kind # "answer"
  BY <1>1 DEF StaleAnswer
<1>2. CASE e.kind = "answer"
  <2>1. IsAnswer(e) /\ Form(e.call)
    BY <1>2 DEF Reports, Usual
  <2>2. s = [e EXCEPT !.call = Stale(e.call, cs)]
    BY <1>2 DEF StaleAnswer
  <2>3. IsAnswer(s) /\ s.call = Stale(e.call, cs) /\ s.result = e.result
    BY <2>1, <2>2 DEF IsAnswer
  <2> HIDE DEF s
  <2>4. Form(s.call) /\ s.call.what = e.call.what /\ s.call.use = e.call.use /\ s.call.arg = e.call.arg
    BY <2>1, <2>3, StaleUsual
  <2>5. Reports(s, l, k, x)
    BY <1>2, <2>3, <2>4 DEF Reports, Usual, Resolved
  <2>6. s.kind = "answer"
    BY <2>3 DEF IsAnswer
  <2> QED
    BY <1>2, <2>4, <2>5, <2>6 DEF s
<1> QED
  BY <1>1, <1>2

\* Bump.
LEMMA BumpRun ==
  ASSUME NEW p, NEW x, Migr(p, x), NEW cs
  PROVE  Migr(Bump(p, cs), x)
<1> DEFINE q == Bump(p, cs)
<1>1. Agree(p, q, {"dialogs", "migration", "left", "known"})
      /\ q.sent = [i \in DOMAIN p.sent |-> Stale(p.sent[i], cs)]
      /\ q.waiting = [i \in DOMAIN p.waiting |-> Stale(p.waiting[i], cs)]
      /\ q.inbox = [i \in DOMAIN p.inbox |-> StaleAnswer(p.inbox[i], cs)]
  BY DEF Migr, Bump, Field, Agree
<1> HIDE DEF q
<1>2. DOMAIN q = Field /\ q.dialogs = p.dialogs /\ q.migration = p.migration /\ q.left = p.left /\ q.known = p.known
  BY <1>1 DEF Agree
<1>3. IsSeq(q.sent) /\ IsSeq(q.waiting) /\ IsSeq(q.inbox)
  BY <1>1, Mapped DEF Migr
<1>4. \A c \in Elems(q.waiting) : Usual(c)
  <2> SUFFICES ASSUME NEW k \in DOMAIN p.waiting PROVE Usual(Stale(p.waiting[k], cs))
    BY <1>1 DEF Elems
  <2>1. Usual(p.waiting[k])
    BY DEF Migr, Elems
  <2> QED
    BY <2>1, StaleUsual DEF Usual
<1>5. ASSUME NEW k \in DOMAIN p.sent
      PROVE  /\ Usual(q.sent[k]) \/ Asking(q.sent[k], p.left, p.known, x) \/ Orphan(q.sent[k], x)
             /\ q.sent[k].use = p.sent[k].use
  <2>1. Usual(p.sent[k]) \/ Asking(p.sent[k], p.left, p.known, x) \/ Orphan(p.sent[k], x)
    BY DEF Migr, Elems
  <2>2. Form(p.sent[k]) /\ q.sent[k] = Stale(p.sent[k], cs)
    BY <1>1, <2>1 DEF Usual, Asking, Orphan
  <2>3. /\ Form(q.sent[k]) /\ q.sent[k].what = p.sent[k].what /\ q.sent[k].use = p.sent[k].use
        /\ q.sent[k].arg = p.sent[k].arg /\ q.sent[k].got = p.sent[k].got
    BY <2>2, StaleUsual
  <2>4. CASE Usual(p.sent[k])
    BY <2>3, <2>4 DEF Usual
  <2>5. CASE Asking(p.sent[k], p.left, p.known, x)
    <3>1. Asking(q.sent[k], p.left, p.known, x)
      BY <2>3, <2>5 DEF Asking
    <3> QED
      BY <2>3, <3>1
  <2>6. CASE Orphan(p.sent[k], x)
    <3>1. Orphan(q.sent[k], x)
      BY <2>3, <2>6 DEF Orphan
    <3> QED
      BY <2>3, <3>1
  <2> QED
    BY <2>1, <2>4, <2>5, <2>6
<1>6. ASSUME NEW k \in DOMAIN p.inbox
      PROVE  /\ Reports(q.inbox[k], p.left, p.known, x)
             /\ q.inbox[k].kind = "answer" <=> p.inbox[k].kind = "answer"
             /\ p.inbox[k].kind = "answer" => q.inbox[k].call.use = p.inbox[k].call.use
  <2>1. Reports(p.inbox[k], p.left, p.known, x) /\ q.inbox[k] = StaleAnswer(p.inbox[k], cs)
    BY <1>1 DEF Migr, Elems
  <2> QED
    BY <2>1, StaleReports
<1>7. AskedAt(q.sent) = AskedAt(p.sent) /\ ToldAt(q.inbox) = ToldAt(p.inbox)
  BY <1>1, <1>5, <1>6 DEF AskedAt, ToldAt
<1>8. /\ \A c \in Elems(q.sent) : Usual(c) \/ Asking(c, q.left, q.known, x) \/ Orphan(c, x)
      /\ \A e \in Elems(q.inbox) : Reports(e, q.left, q.known, x)
  BY <1>1, <1>2, <1>5, <1>6 DEF Elems
<1>9. Sole(q.sent, q.inbox) /\ (Idle(q) <=> Idle(p))
  BY <1>7 DEF Migr, Sole, Idle
<1> QED
  BY <1>2, <1>3, <1>4, <1>8, <1>9 DEF Migr, q

\* A request is added at the end.
LEMMA AskedAfter ==
  ASSUME NEW s, IsSeq(s), NEW c
  PROVE  /\ c.use # "migrate" => AskedAt(Append(s, c)) = AskedAt(s)
         /\ AskedAt(s) = {} => One(AskedAt(Append(s, c)))
<1> DEFINE t == Append(s, c)
<1>1. DOMAIN t = (DOMAIN s) \cup {Len(s) + 1} /\ (\A k \in DOMAIN s : t[k] = s[k]) /\ t[Len(s) + 1] = c
      /\ Len(s) + 1 \notin DOMAIN s
  <2>1. s \in Seq(Elems(s))
    BY DEF IsSeq
  <2> QED
    BY <2>1
<1> HIDE DEF t
<1>2. ASSUME c.use # "migrate" PROVE AskedAt(t) = AskedAt(s)
  <2>1. AskedAt(t) \subseteq AskedAt(s)
    BY <1>1, <1>2 DEF AskedAt
  <2>2. AskedAt(s) \subseteq AskedAt(t)
    BY <1>1 DEF AskedAt
  <2> QED
    BY <2>1, <2>2
<1>3. ASSUME AskedAt(s) = {} PROVE One(AskedAt(t))
  <2>1. AskedAt(t) \subseteq {Len(s) + 1}
    BY <1>1, <1>3 DEF AskedAt
  <2> QED
    BY <2>1 DEF One
<1> QED
  BY <1>2, <1>3 DEF t

\* A request is sent that is none of the migration's.
LEMMA SendRun ==
  ASSUME NEW p, NEW x, Migr(p, x), NEW c, Usual(c)
  PROVE  Migr(SendCall(p, c), x)
<1> DEFINE q == SendCall(p, c)
<1>1. Agree(p, q, {"waiting", "inbox", "dialogs", "migration", "left", "known"}) /\ q.sent = Append(p.sent, c)
  BY DEF Migr, SendCall, Field, Agree
<1> HIDE DEF q
<1>2. DOMAIN q = Field /\ q.waiting = p.waiting /\ q.inbox = p.inbox /\ q.dialogs = p.dialogs
      /\ q.migration = p.migration /\ q.left = p.left /\ q.known = p.known
  BY <1>1 DEF Agree
<1>3. IsSeq(q.sent) /\ Elems(q.sent) = Elems(p.sent) \cup {c}
  BY <1>1, Appended DEF Migr
<1>4. AskedAt(q.sent) = AskedAt(p.sent)
  BY <1>1, AskedAfter DEF Migr, Usual
<1> QED
  BY <1>2, <1>3, <1>4 DEF Migr, Sole, Idle, q

\* Or it waits for the migration.
LEMMA WaitRun ==
  ASSUME NEW p, NEW x, Migr(p, x), NEW c, Usual(c)
  PROVE  Migr([p EXCEPT !.waiting = Append(@, c)], x)
<1> DEFINE q == [p EXCEPT !.waiting = Append(@, c)]
<1>1. Agree(p, q, {"sent", "inbox", "dialogs", "migration", "left", "known"}) /\ q.waiting = Append(p.waiting, c)
  BY DEF Migr, Field, Agree
<1> HIDE DEF q
<1>2. DOMAIN q = Field /\ q.sent = p.sent /\ q.inbox = p.inbox /\ q.dialogs = p.dialogs
      /\ q.migration = p.migration /\ q.left = p.left /\ q.known = p.known
  BY <1>1 DEF Agree
<1>3. IsSeq(q.waiting) /\ Elems(q.waiting) = Elems(p.waiting) \cup {c}
  BY <1>1, Appended DEF Migr
<1> QED
  BY <1>2, <1>3 DEF Migr, Idle, q

\* Screens, rows and slips.
LEMMA PlainRun ==
  ASSUME NEW p, NEW x, Migr(p, x), NEW s, NEW d
  PROVE  /\ Migr(Show(p, s), x) /\ Migr(Hide(p, s), x) /\ Migr(Paint(p, s, d), x) /\ Migr(Slip(p, s), x)
<1>1. DOMAIN p = Field
  BY DEF Migr
<1>2. Agree(p, Show(p, s), MigrF) /\ Agree(p, Hide(p, s), MigrF) /\ Agree(p, Paint(p, s, d), MigrF)
      /\ Agree(p, Slip(p, s), MigrF)
  BY <1>1 DEF Agree, MigrF, Field, Show, Hide, Paint, Slip
<1> QED
  BY <1>2, SameRun

\* Finish.
LEMMA FinishRun ==
  ASSUME NEW p, NEW x, Migr(p, x), NEW chain
  PROVE  Migr(Finish(p, chain), x)
<1> DEFINE q == IF p.unlocked THEN p ELSE Slip(p, "astray")
           r == [q EXCEPT !.lockBtn = TRUE, !.busy = FALSE]
<1>1. Migr(q, x)
  BY PlainRun
<1> HIDE DEF q
<1>2. Agree(q, r, MigrF)
  BY <1>1 DEF Migr, Agree, MigrF, Field
<1>3. Migr(r, x)
  BY <1>1, <1>2, SameRun
<1> QED
  BY <1>3 DEF Finish, q

\* The requests the popup makes besides.
LEMMA RequestUsual ==
  ASSUME NEW what, NEW use, NEW arg, NEW chain, what \notin ItemMutations \cup {"forget local"}, use # "migrate",
         what = "items" => use = "render"
  PROVE  Usual(Request(what, use, arg, chain))
BY DEF Usual, Request, Form

\* ListInvalidate.
LEMMA ListInvalidateRun ==
  ASSUME NEW p, NEW x, Migr(p, x)
  PROVE  Migr(ListInvalidate(p), x)
<1> DEFINE q == [p EXCEPT !.list = None, !.old = @ \ {"list"}, !.timers = @ \ {"list"}]
<1>1. Agree(p, q, MigrF)
  BY DEF Migr, Agree, MigrF, Field
<1>2. Migr(q, x)
  BY <1>1, SameRun
<1> HIDE DEF q
<1>3. Migr(Paint(q, "reload", None), x)
  BY <1>2, PlainRun
<1> QED
  BY <1>2, <1>3 DEF ListInvalidate, q

\* ListApply.
LEMMA ListApplyRun ==
  ASSUME NEW p, NEW x, Migr(p, x), NEW s
  PROVE  Migr(ListApply(p, s), x)
<1> DEFINE q == [p EXCEPT !.list = s, !.old = @ \ {"list"}, !.timers = @ \cup {"list"}]
<1>1. Agree(p, q, MigrF)
  BY DEF Migr, Agree, MigrF, Field
<1>2. Migr(q, x)
  BY <1>1, SameRun
<1> HIDE DEF q
<1>3. Migr(Paint(q, "passwords", s), x)
  BY <1>2, PlainRun
<1> QED
  BY <1>2, <1>3 DEF ListApply, q

\* ListRefresh.
LEMMA ListRefreshRun ==
  ASSUME NEW p, NEW x, Migr(p, x), NEW use, use # "migrate"
  PROVE  Migr(ListRefresh(p, use), x)
BY RequestUsual, SendRun DEF ListRefresh, Send, ItemMutations

\* ForgetCards.
LEMMA ForgetCardsRun ==
  ASSUME NEW p, NEW x, Migr(p, x)
  PROVE  Migr(ForgetCards(p), x)
<1> DEFINE q == Bump(p, {"cache"})  r == [q EXCEPT !.cards = None]
<1>1. Migr(q, x)
  BY BumpRun
<1> HIDE DEF q
<1>2. Agree(q, r, MigrF)
  BY <1>1 DEF Migr, Agree, MigrF, Field
<1>3. Migr(r, x)
  BY <1>1, <1>2, SameRun
<1> QED
  BY <1>3 DEF ForgetCards, q

\* CardsShown.
LEMMA CardsShownRun ==
  ASSUME NEW p, NEW x, Migr(p, x), NEW c, c.use = "render", NEW r
  PROVE  Migr(CardsShown(p, c, r), x)
<1>1. CardsShown(p, c, r) \in {p, Paint(p, "cards", r.data), Paint(p, "failed", None)}
  BY DEF CardsShown
<1>2. Migr(Paint(p, "cards", r.data), x) /\ Migr(Paint(p, "failed", None), x)
  BY PlainRun
<1> QED
  BY <1>1, <1>2

\* CardsListed.
LEMMA CardsListedRun ==
  ASSUME NEW p, NEW x, Migr(p, x), NEW c, c.use = "render", NEW r
  PROVE  Migr(CardsListed(p, c, r), x)
<1> DEFINE q == IF r.code = "ok" /\ "cache" \in c.fresh THEN [p EXCEPT !.cards = r.data] ELSE p
           s == CardsShown(q, c, r)
<1>1. Agree(p, q, MigrF)
  BY DEF Migr, Agree, MigrF, Field
<1>2. Migr(q, x)
  BY <1>1, SameRun
<1> HIDE DEF q
<1>3. Migr(s, x)
  BY <1>2, CardsShownRun
<1> HIDE DEF s
<1>4. Migr(Finish(s, c.chain), x)
  BY <1>3, FinishRun
<1> QED
  BY <1>4 DEF CardsListed, q, s

\* CardsFetch.
LEMMA CardsFetchRun ==
  ASSUME NEW p, NEW x, Migr(p, x), NEW c, Usual(c), c.use = "render"
  PROVE  Migr(CardsFetch(c, p), x)
<1> DEFINE s == CardsShown(p, c, Ok(p.cards))  t == [c EXCEPT !.fresh = @ \cup {"view", "session"}]
<1>1. Migr(s, x)
  BY CardsShownRun
<1> HIDE DEF s
<1>2. Migr(Finish(s, c.chain), x)
  BY <1>1, FinishRun
<1>3. Usual(t)
  BY DEF Usual, Form
<1> HIDE DEF t
<1>4. Migr(SendCall(p, t), x)
  BY <1>3, SendRun
<1>5. CardsFetch(c, p) = IF p.cards # None THEN Finish(s, c.chain) ELSE SendCall(p, t)
  BY DEF CardsFetch, s, t
<1> QED
  BY <1>2, <1>4, <1>5

\* The migration starts: no other is running.
LEMMA StartRun ==
  ASSUME NEW p, NEW x, Migr(p, x), p.migration = "no"
  PROVE  Migr([Send(p, "local", "migrate", None) EXCEPT !.migration = "running"], x)
<1> DEFINE c == Request("local", "migrate", None, None)  q == [SendCall(p, c) EXCEPT !.migration = "running"]
<1>1. /\ Agree(p, q, {"waiting", "inbox", "dialogs", "left", "known"}) /\ q.sent = Append(p.sent, c)
      /\ q.migration = "running"
  BY DEF Migr, SendCall, Field, Agree
<1>2. Asking(c, p.left, p.known, x)
  BY DEF Asking, Request, Form, MigrationSteps
<1> HIDE DEF q, c
<1>3. DOMAIN q = Field /\ q.waiting = p.waiting /\ q.inbox = p.inbox /\ q.dialogs = p.dialogs
      /\ q.left = p.left /\ q.known = p.known
  BY <1>1 DEF Agree
<1>4. IsSeq(q.sent) /\ Elems(q.sent) = Elems(p.sent) \cup {c}
  BY <1>1, Appended DEF Migr
<1>5. Idle(p) /\ ~x.idle
  BY DEF Migr
<1>6. One(AskedAt(q.sent)) /\ ToldAt(q.inbox) = {}
  BY <1>1, <1>3, <1>5, AskedAfter DEF Migr, Idle
<1>7. Sole(q.sent, q.inbox)
  BY <1>6 DEF Sole, One
<1>8. Migr(q, x)
  BY <1>1, <1>2, <1>3, <1>4, <1>5, <1>7 DEF Migr
<1> QED
  BY <1>8 DEF q, c, Send

\* CardsList.
LEMMA CardsListRun ==
  ASSUME NEW p, NEW x, Migr(p, x), NEW id, NEW chain
  PROVE  Migr(CardsList(p, "render", id, chain), x)
<1> DEFINE c == Request("items", "render", id, chain)  q == [p EXCEPT !.waiting = Append(@, c)]
<1>1. Usual(c) /\ c.use = "render"
  BY RequestUsual DEF ItemMutations, Request
<1> HIDE DEF c
<1>2. Migr(q, x)
  BY <1>1, WaitRun
<1>3. q.migration = p.migration
  BY DEF Migr, Field
<1> HIDE DEF q
<1>4. Migr(CardsFetch(c, p), x)
  BY <1>1, CardsFetchRun
<1>5. p.migration = "no" => Migr([Send(q, "local", "migrate", None) EXCEPT !.migration = "running"], x)
  BY <1>2, <1>3, StartRun
<1> QED
  BY <1>2, <1>4, <1>5 DEF CardsList, Migr, q, c

\* RenderCards.
LEMMA RenderCardsRun ==
  ASSUME NEW p, NEW x, Migr(p, x), NEW chain
  PROVE  Migr(RenderCards(p, chain), x)
BY BumpRun, CardsListRun DEF RenderCards

\* Filter.
LEMMA FilterRun ==
  ASSUME NEW p, NEW x, Migr(p, x)
  PROVE  Migr(Filter(p), x)
BY PlainRun, RenderCardsRun DEF Filter

\* ListShow.
LEMMA ListShowRun ==
  ASSUME NEW p, NEW x, Migr(p, x), NEW s, NEW chain
  PROVE  Migr(ListShow(p, s, chain), x)
<1> DEFINE b == Bump(p, {"render"})  q == Show(b, "list")
           r == IF q.list # None /\ "list" \notin q.old THEN Filter(q) ELSE Paint(q, "loading", None)
           c == Request("list", "show", None, chain)
<1>1. Migr(b, x)
  BY BumpRun
<1> HIDE DEF b
<1>2. Migr(q, x)
  BY <1>1, PlainRun
<1> HIDE DEF q
<1>3. Migr(r, x)
  BY <1>2, PlainRun, FilterRun
<1> HIDE DEF r
<1>4. Usual(c)
  BY RequestUsual DEF ItemMutations
<1> HIDE DEF c
<1>5. Migr(SendCall(r, c), x)
  BY <1>3, <1>4, SendRun
<1>6. Migr(ListApply(q, s), x)
  BY <1>2, ListApplyRun
<1>7. Migr(Finish(ListApply(q, s), chain), x)
  BY <1>6, FinishRun
<1> QED
  BY <1>5, <1>7 DEF ListShow, b, q, r, c

\* DetailInvalidate.
LEMMA DetailInvalidateRun ==
  ASSUME NEW p, NEW x, Migr(p, x)
  PROVE  Migr(DetailInvalidate(p), x)
<1> DEFINE b == Bump(p, {"revision"})
           q == [b EXCEPT !.detail.login = None, !.detail.revealed = FALSE,
                          !.old = @ \ {"detail"}, !.timers = @ \ {"detail"}]
<1>1. Migr(b, x)
  BY BumpRun
<1> HIDE DEF b
<1>2. Agree(b, q, MigrF)
  BY <1>1 DEF Migr, Agree, MigrF, Field
<1>3. Migr(q, x)
  BY <1>1, <1>2, SameRun
<1> QED
  BY <1>3 DEF DetailInvalidate, b

\* DetailApply.
LEMMA DetailApplyRun ==
  ASSUME NEW p, NEW x, Migr(p, x), NEW s
  PROVE  Migr(DetailApply(p, s), x)
<1> DEFINE q == [p EXCEPT !.detail.login = s, !.detail.revealed = FALSE,
                          !.old = @ \ {"detail"}, !.timers = @ \cup {"detail"}]
<1>1. Agree(p, q, MigrF)
  BY DEF Migr, Agree, MigrF, Field
<1>2. Migr(q, x)
  BY <1>1, SameRun
<1> QED
  BY <1>2, DetailInvalidateRun DEF DetailApply

\* DetailOpen.
LEMMA DetailOpenRun ==
  ASSUME NEW p, NEW x, Migr(p, x), NEW id
  PROVE  Migr(DetailOpen(p, id), x)
<1> DEFINE b == Bump(p, {"render"})  q == [b EXCEPT !.detail.id = id]  r == DetailInvalidate(q)
<1>1. Migr(b, x)
  BY BumpRun
<1> HIDE DEF b
<1>2. Agree(b, q, MigrF)
  BY <1>1 DEF Migr, Agree, MigrF, Field
<1>3. Migr(q, x)
  BY <1>1, <1>2, SameRun
<1> HIDE DEF q
<1>4. Migr(r, x)
  BY <1>3, DetailInvalidateRun
<1> HIDE DEF r
<1>5. Migr(Hide(r, "list"), x)
  BY <1>4, PlainRun
<1>6. Migr(Show(Hide(r, "list"), "detail"), x)
  BY <1>5, PlainRun
<1> QED
  BY <1>6 DEF DetailOpen, b, q, r

\* A login is asked for.
LEMMA LoginAsked ==
  ASSUME NEW p, NEW x, Migr(p, x), NEW use, use # "migrate", NEW id
  PROVE  Migr(Send(p, "login entry", use, id), x)
BY RequestUsual, SendRun DEF Send, ItemMutations

\* DetailShow.
LEMMA DetailShowRun ==
  ASSUME NEW p, NEW x, Migr(p, x), NEW id
  PROVE  Migr(DetailShow(p, id), x)
BY DetailOpenRun, LoginAsked DEF DetailShow

\* DetailHide.
LEMMA DetailHideRun ==
  ASSUME NEW p, NEW x, Migr(p, x)
  PROVE  Migr(DetailHide(p), x)
<1> DEFINE b == Bump(p, {"render"})  q == DetailInvalidate(b)  r == [q EXCEPT !.detail.id = None, !.resume = None]
<1>1. Migr(b, x)
  BY BumpRun
<1> HIDE DEF b
<1>2. Migr(q, x)
  BY <1>1, DetailInvalidateRun
<1> HIDE DEF q
<1>3. Agree(q, r, MigrF)
  BY <1>2 DEF Migr, Agree, MigrF, Field
<1>4. Migr(r, x)
  BY <1>2, <1>3, SameRun
<1> HIDE DEF r
<1>5. Migr(Hide(r, "detail"), x)
  BY <1>4, PlainRun
<1> QED
  BY <1>5 DEF DetailHide, b, q, r

\* DetailRefresh.
LEMMA DetailRefreshRun ==
  ASSUME NEW p, NEW x, Migr(p, x)
  PROVE  Migr(DetailRefresh(p), x)
BY LoginAsked DEF DetailRefresh

\* FormClear.
LEMMA FormClearRun ==
  ASSUME NEW p, NEW x, Migr(p, x)
  PROVE  Migr(FormClear(p), x)
<1>1. Agree(p, FormClear(p), MigrF)
  BY DEF Migr, Agree, MigrF, Field, FormClear
<1> QED
  BY <1>1, SameRun

\* FormClose.
LEMMA FormCloseRun ==
  ASSUME NEW p, NEW x, Migr(p, x)
  PROVE  Migr(FormClose(p), x)
BY FormClearRun, PlainRun, ListShowRun DEF FormClose

\* FormCancel.
LEMMA FormCancelRun ==
  ASSUME NEW p, NEW x, Migr(p, x)
  PROVE  Migr(FormCancel(p), x)
BY FormClearRun, PlainRun, ListShowRun, DetailShowRun DEF FormCancel

\* FormEdit.
LEMMA FormEditRun ==
  ASSUME NEW p, NEW x, Migr(p, x)
  PROVE  Migr(FormEdit(p), x)
<1> DEFINE q == [p EXCEPT !.form.editing = p.detail.id, !.form.from = p.detail.login,
                          !.old = @ \ {"form"}, !.timers = @ \cup {"form"}]
<1>1. Agree(p, q, MigrF)
  BY DEF Migr, Agree, MigrF, Field
<1>2. Migr(q, x)
  BY <1>1, SameRun
<1> HIDE DEF q
<1>3. Migr(Show(DetailHide(q), "form"), x)
  BY <1>2, DetailHideRun, PlainRun
<1> QED
  BY <1>3 DEF FormEdit, q

\* FormAdd.
LEMMA FormAddRun ==
  ASSUME NEW p, NEW x, Migr(p, x)
  PROVE  Migr(FormAdd(p), x)
<1> DEFINE b == Bump(p, {"render"})
           q == [b EXCEPT !.form.editing = None, !.form.from = None, !.old = @ \ {"form"}, !.timers = @ \ {"form"}]
<1>1. Migr(b, x)
  BY BumpRun
<1> HIDE DEF b
<1>2. Agree(b, q, MigrF)
  BY <1>1 DEF Migr, Agree, MigrF, Field
<1>3. Migr(q, x)
  BY <1>1, <1>2, SameRun
<1> HIDE DEF q
<1>4. Migr(Show(Hide(q, "list"), "form"), x)
  BY <1>3, PlainRun
<1> QED
  BY <1>4 DEF FormAdd, b, q

\* SelectTab.
LEMMA SelectTabRun ==
  ASSUME NEW p, NEW x, Migr(p, x), NEW tab, NEW s, NEW chain
  PROVE  Migr(SelectTab(p, tab, s, chain), x)
<1> DEFINE b == Bump(p, {"render"})  q == [b EXCEPT !.tab = tab, !.screens = @ \ {"detail", "form"}]
           r == Paint(Show(q, "list"), "loading", None)
<1>1. Migr(b, x)
  BY BumpRun
<1> HIDE DEF b
<1>2. Agree(b, q, MigrF)
  BY <1>1 DEF Migr, Agree, MigrF, Field
<1>3. Migr(q, x)
  BY <1>1, <1>2, SameRun
<1> HIDE DEF q
<1>4. Migr(r, x)
  BY <1>3, PlainRun
<1> HIDE DEF r
<1>5. Migr(ListShow(q, s, chain), x) /\ Migr(RenderCards(r, chain), x)
  BY <1>3, <1>4, ListShowRun, RenderCardsRun
<1> QED
  BY <1>5 DEF SelectTab, b, q, r

\* ClearView: the migration goes on.
LEMMA ClearViewRun ==
  ASSUME NEW p, NEW x, Migr(p, x)
  PROVE  Migr(ClearView(p), x)
<1> DEFINE b == ForgetCards(Bump(p, {"view", "render"}))  h == FormClear(DetailHide(b))
           r == Paint(ListInvalidate(h), "blank", None)
           q == [r EXCEPT !.dialogs = {}, !.lockBtn = FALSE, !.unlocked = FALSE, !.slips = {}, !.screens = {}]
<1>1. Migr(b, x)
  BY BumpRun, ForgetCardsRun
<1> HIDE DEF b
<1>2. Migr(h, x)
  BY <1>1, DetailHideRun, FormClearRun
<1> HIDE DEF h
<1>3. Migr(r, x)
  BY <1>2, ListInvalidateRun, PlainRun
<1> HIDE DEF r
<1>4. Agree(r, q, {"sent", "waiting", "inbox", "migration", "left", "known"}) /\ q.dialogs = {}
  BY <1>3 DEF Migr, Agree, Field
<1> HIDE DEF q
<1>5. Migr(q, x)
  BY <1>3, <1>4 DEF Migr, Agree, Idle
<1> QED
  BY <1>5 DEF ClearView, b, h, r, q

\* LoseSession.
LEMMA LoseSessionRun ==
  ASSUME NEW p, NEW x, Migr(p, x)
  PROVE  Migr(LoseSession(p), x)
BY ClearViewRun, PlainRun DEF LoseSession

\* ShowVault.
LEMMA ShowVaultRun ==
  ASSUME NEW p, NEW x, Migr(p, x), NEW s, NEW chain
  PROVE  Migr(ShowVault(p, s, chain), x)
<1> DEFINE q == [p EXCEPT !.screens = {}, !.lockBtn = TRUE, !.unlocked = TRUE]
           r == IF s # None THEN ListApply(q, s) ELSE q
           c == Request("resume", "show", s, chain)
<1>1. Agree(p, q, MigrF)
  BY DEF Migr, Agree, MigrF, Field
<1>2. Migr(q, x)
  BY <1>1, SameRun
<1> HIDE DEF q
<1>3. Migr(r, x)
  BY <1>2, ListApplyRun
<1> HIDE DEF r
<1>4. Usual(c)
  BY RequestUsual DEF ItemMutations
<1> HIDE DEF c
<1>5. Migr(SendCall(r, c), x)
  BY <1>3, <1>4, SendRun
<1> QED
  BY <1>5 DEF ShowVault, q, r, c

\* AfterRestore.
LEMMA AfterRestoreRun ==
  ASSUME NEW p, NEW x, Migr(p, x), NEW c, NEW s
  PROVE  Migr(AfterRestore(p, c, s), x)
BY SelectTabRun DEF AfterRestore

\* Fields that have nothing to do with it are set.
LEMMA ResumeSetRun ==
  ASSUME NEW p, NEW x, Migr(p, x), NEW s
  PROVE  Migr([p EXCEPT !.resume = s], x) /\ Migr([p EXCEPT !.busy = s], x) /\ Migr([p EXCEPT !.tab = s], x)
         /\ Migr([p EXCEPT !.unlocked = s], x) /\ Migr([p EXCEPT !.detail.revealed = s], x)
         /\ Migr([p EXCEPT !.form.saving = s], x) /\ Migr([p EXCEPT !.old = s], x)
<1>1. DOMAIN p = Field
  BY DEF Migr
<1>2. /\ Agree(p, [p EXCEPT !.resume = s], MigrF) /\ Agree(p, [p EXCEPT !.busy = s], MigrF)
      /\ Agree(p, [p EXCEPT !.tab = s], MigrF) /\ Agree(p, [p EXCEPT !.unlocked = s], MigrF)
  BY <1>1 DEF Agree, MigrF, Field
<1>3. /\ Agree(p, [p EXCEPT !.detail.revealed = s], MigrF) /\ Agree(p, [p EXCEPT !.form.saving = s], MigrF)
      /\ Agree(p, [p EXCEPT !.old = s], MigrF)
  BY <1>1 DEF Agree, MigrF, Field
<1> QED
  BY <1>2, <1>3, SameRun

\* BootstrapAnswer.
LEMMA BootstrapAnswerRun ==
  ASSUME NEW p, NEW x, Migr(p, x), NEW c, NEW r
  PROVE  Migr(BootstrapAnswer(p, c, r), x)
<1> DEFINE q == [p EXCEPT !.resume = IF r.code = "ok" THEN None ELSE @]  d == Request("status", "boot", None, None)
<1>1. Migr(q, x)
  BY ResumeSetRun
<1> HIDE DEF q
<1>2. Usual(d)
  BY RequestUsual DEF ItemMutations
<1> HIDE DEF d
<1>3. Migr(SendCall(q, d), x)
  BY <1>1, <1>2, SendRun
<1> QED
  BY <1>3, ShowVaultRun DEF BootstrapAnswer, Send, q, d

\* ResumeAnswer.
LEMMA ResumeAnswerRun ==
  ASSUME NEW p, NEW x, Migr(p, x), NEW c
  PROVE  Migr(ResumeAnswer(p, c), x)
<1> DEFINE q == [p EXCEPT !.tab = "passwords"]  b == Request("login entry", "restore", p.resume, c.chain)
           d == [b EXCEPT !.got = c.arg]
<1>1. Migr(q, x)
  BY ResumeSetRun
<1> HIDE DEF q
<1>2. Usual(b)
  BY RequestUsual DEF ItemMutations
<1> HIDE DEF b
<1>3. Usual(d)
  BY <1>2 DEF Usual, Form
<1> HIDE DEF d
<1>4. Migr(SendCall(DetailOpen(q, p.resume), d), x)
  BY <1>1, <1>3, DetailOpenRun, SendRun
<1> QED
  BY <1>4, AfterRestoreRun DEF ResumeAnswer, q, b, d

\* LoginAnswer.
LEMMA LoginAnswerRun ==
  ASSUME NEW p, NEW x, Migr(p, x), NEW r
  PROVE  Migr(LoginAnswer(p, r), x)
<1> DEFINE h == Hide(ForgetCards(p), "login")  q == [h EXCEPT !.unlocked = TRUE]
<1>1. Migr(h, x)
  BY ForgetCardsRun, PlainRun
<1> HIDE DEF h
<1>2. Migr(q, x)
  BY <1>1, ResumeSetRun
<1> HIDE DEF q
<1>3. Migr(SelectTab(q, p.tab, None, "unlock"), x)
  BY <1>2, SelectTabRun
<1>4. Migr([p EXCEPT !.busy = FALSE], x)
  BY ResumeSetRun
<1> QED
  BY <1>3, <1>4 DEF LoginAnswer, h, q

\* ListAnswer.
LEMMA ListAnswerRun ==
  ASSUME NEW p, NEW x, Migr(p, x), NEW c, NEW r
  PROVE  Migr(ListAnswer(p, c, r), x)
BY PlainRun, ListApplyRun, ListInvalidateRun, FinishRun DEF ListAnswer

\* DetailShown.
LEMMA DetailShownRun ==
  ASSUME NEW p, NEW x, Migr(p, x), NEW c, NEW r
  PROVE  Migr(DetailShown(p, c, r), x)
<1>1. Migr([DetailApply(p, r.data) EXCEPT !.resume = p.detail.id], x)
  BY DetailApplyRun, ResumeSetRun
<1>2. Migr(AfterRestore([p EXCEPT !.resume = None], c, c.got), x)
  BY ResumeSetRun, AfterRestoreRun
<1> QED
  BY <1>1, <1>2, DetailInvalidateRun DEF DetailShown

\* DetailActs.
LEMMA DetailActsRun ==
  ASSUME NEW p, NEW x, Migr(p, x), NEW c, c.use \in {"refresh", "reveal", "edit"}, NEW r
  PROVE  Migr(DetailActs(p, c, r), x)
<1> DEFINE q == DetailApply(p, r.data)
<1>1. Migr(q, x)
  BY DetailApplyRun
<1> HIDE DEF q
<1>2. Migr([q EXCEPT !.detail.revealed = TRUE], x) /\ Migr(FormEdit(q), x)
  BY <1>1, ResumeSetRun, FormEditRun
<1> QED
  BY <1>1, <1>2, DetailInvalidateRun DEF DetailActs, q

\* SavedAnswer.
LEMMA SavedAnswerRun ==
  ASSUME NEW p, NEW x, Migr(p, x), NEW r
  PROVE  Migr(SavedAnswer(p, r), x)
BY ResumeSetRun, FormCloseRun DEF SavedAnswer

\* DeletedAnswer.
LEMMA DeletedAnswerRun ==
  ASSUME NEW p, NEW x, Migr(p, x), NEW c, NEW r
  PROVE  Migr(DeletedAnswer(p, c, r), x)
<1> DEFINE q == IF p.list = None THEN p ELSE [p EXCEPT !.list.of[c.arg] = Gone]
<1>1. Agree(p, q, MigrF)
  BY DEF Migr, Agree, MigrF, Field
<1>2. Migr(q, x)
  BY <1>1, SameRun
<1> HIDE DEF q
<1>3. Migr(Filter(q), x)
  BY <1>2, FilterRun
<1>4. Migr(ListShow(DetailHide(p), None, None), x)
  BY DetailHideRun, ListShowRun
<1> QED
  BY <1>3, <1>4 DEF DeletedAnswer, q

\* Received: the session may be lost first.
LEMMA ReceivedRun ==
  ASSUME NEW p, NEW x, Migr(p, x), NEW c, NEW r
  PROVE  Migr(Received(p, c, r)[1], x) /\ (Received(p, c, r)[2] = r \/ Received(p, c, r)[2].code # "ok")
BY LoseSessionRun DEF Received, Failed

\* Any answer that is none of the migration's.
LEMMA HandledRun ==
  ASSUME NEW p, NEW x, Migr(p, x), NEW c, Kinds(c), Usual(c), c.use # "dead", NEW r
  PROVE  Migr(Handled(p, c, r), x)
<1>1. c.use # "migrate"
  BY DEF Usual
<1>2. c.what \in {"bootstrap", "status", "resume", "login", "list", "login entry", "create", "update", "delete",
                  "items", "logout"}
  BY DEF Kinds, Usual, Mutations, ItemMutations
<1>3. CASE c.what = "bootstrap"
  <2>1. Handled(p, c, r) = BootstrapAnswer(p, c, r)
    BY <1>3, <1>1 DEF Handled, ItemMutations
  <2> QED
    BY <2>1, BootstrapAnswerRun
<1>4. CASE c.what = "status"
  <2> DEFINE b == IF p.unlocked THEN Slip(Hide(p, "boot"), "overlaid") ELSE Hide(p, "boot")
  <2>1. Handled(p, c, r) = Show(b, "login")
    BY <1>4, <1>1 DEF Handled, ItemMutations
  <2>2. Migr(b, x)
    BY PlainRun
  <2> HIDE DEF b
  <2> QED
    BY <2>1, <2>2, PlainRun
<1>5. CASE c.what = "resume"
  <2>1. Handled(p, c, r) = ResumeAnswer(p, c)
    BY <1>5, <1>1 DEF Handled, ItemMutations
  <2> QED
    BY <2>1, ResumeAnswerRun
<1>6. CASE c.what = "login"
  <2>1. Handled(p, c, r) = LoginAnswer(p, r)
    BY <1>6, <1>1 DEF Handled, ItemMutations
  <2> QED
    BY <2>1, LoginAnswerRun
<1>7. CASE c.what = "list"
  <2>1. Handled(p, c, r) = ListAnswer(p, c, r)
    BY <1>7, <1>1 DEF Handled, ItemMutations
  <2> QED
    BY <2>1, ListAnswerRun
<1>8. CASE c.what = "login entry"
  <2>1. CASE c.use \in {"show", "restore"}
    <3>1. Handled(p, c, r) = DetailShown(p, c, r)
      BY <1>1, <1>8, <2>1 DEF Handled, ItemMutations
    <3> QED
      BY <3>1, DetailShownRun
  <2>2. CASE c.use \notin {"show", "restore"}
    <3>1. Handled(p, c, r) = DetailActs(p, c, r)
      BY <1>1, <1>8, <2>2 DEF Handled, ItemMutations
    <3>2. c.use \in {"refresh", "reveal", "edit"}
      BY <1>8, <2>2 DEF Kinds
    <3> QED
      BY <3>1, <3>2, DetailActsRun
  <2> QED
    BY <2>1, <2>2
<1>9. CASE c.what \in {"create", "update"}
  <2>1. Handled(p, c, r) = SavedAnswer(p, r)
    BY <1>9, <1>1 DEF Handled, ItemMutations
  <2> QED
    BY <2>1, SavedAnswerRun
<1>10. CASE c.what = "delete"
  <2>1. Handled(p, c, r) = DeletedAnswer(p, c, r)
    BY <1>10, <1>1 DEF Handled, ItemMutations
  <2> QED
    BY <2>1, DeletedAnswerRun
<1>11. CASE c.what = "items"
  <2>1. Handled(p, c, r) = CardsListed(p, c, r)
    BY <1>11, <1>1 DEF Handled, ItemMutations
  <2>2. c.use = "render"
    BY <1>11 DEF Usual
  <2> QED
    BY <2>1, <2>2, CardsListedRun
<1>12. CASE c.what = "logout"
  BY <1>12, <1>1 DEF Handled, ItemMutations
<1> QED
  BY <1>2, <1>3, <1>4, <1>5, <1>6, <1>7, <1>8, <1>9, <1>10, <1>11, <1>12

\* Such an answer as it comes.
LEMMA UsualAnswered ==
  ASSUME NEW p, NEW x, Migr(p, x), NEW c, Kinds(c), Usual(c), c.use # "dead", NEW r
  PROVE  Migr(Answered(p, c, r), x)
<1> DEFINE v == Received(p, c, r)
<1>1. Answered(p, c, r) = Handled(v[1], c, v[2])
  BY DEF Answered, Handled
<1>2. Migr(v[1], x)
  BY ReceivedRun
<1> HIDE DEF v
<1> QED
  BY <1>1, <1>2, HandledRun

\* Reread.
LEMMA RereadRun ==
  ASSUME NEW p, NEW x, Migr(p, x)
  PROVE  Migr(Reread(p), x)
<1> DEFINE q == DetailInvalidate(ListInvalidate(Bump(p, {"render"})))
<1>1. Migr(q, x)
  BY BumpRun, ListInvalidateRun, DetailInvalidateRun
<1> HIDE DEF q
<1>2. Migr(FormClose(q), x) /\ Migr(DetailShow(q, q.detail.id), x) /\ Migr(ListRefresh(q, "reload"), x)
  BY <1>1, FormCloseRun, DetailShowRun, ListRefreshRun
<1> QED
  BY <1>1, <1>2 DEF Reread, q

\* Any announcement.
LEMMA AnnouncedRun ==
  ASSUME NEW p, NEW x, Migr(p, x), NEW e
  PROVE  Migr(Announced(p, e), x)
<1>1. \A q : Migr(q, x) => Migr(DropKeys(q, e), x)
  BY ListInvalidateRun, DetailInvalidateRun, FormCloseRun DEF DropKeys
<1>2. \A q : Migr(q, x) => Migr(RenewKeys(q, e), x)
  BY ListRefreshRun, DetailRefreshRun DEF RenewKeys
<1> QED
  BY <1>1, <1>2, PlainRun, LoseSessionRun, RereadRun DEF Announced

(***************************************************************************)
(* The steps of the migration                                              *)
(***************************************************************************)
\* The migration asks when it is not waiting.
LEMMA AskRun ==
  ASSUME NEW p, NEW x, Migr(p, x), Idle(p), p.migration = "running", ~x.idle,
         NEW c, Asking(c, p.left, p.known, x)
  PROVE  Migr(SendCall(p, c), x)
<1> DEFINE q == SendCall(p, c)
<1>1. Agree(p, q, {"waiting", "inbox", "dialogs", "migration", "left", "known"}) /\ q.sent = Append(p.sent, c)
  BY DEF Migr, SendCall, Field, Agree
<1> HIDE DEF q
<1>2. DOMAIN q = Field /\ q.waiting = p.waiting /\ q.inbox = p.inbox /\ q.dialogs = p.dialogs
      /\ q.migration = p.migration /\ q.left = p.left /\ q.known = p.known
  BY <1>1 DEF Agree
<1>3. IsSeq(q.sent) /\ Elems(q.sent) = Elems(p.sent) \cup {c}
  BY <1>1, Appended DEF Migr
<1>4. One(AskedAt(q.sent)) /\ ToldAt(q.inbox) = {}
  BY <1>1, <1>2, AskedAfter DEF Migr, Idle
<1>5. Sole(q.sent, q.inbox)
  BY <1>4 DEF Sole, One
<1> QED
  BY <1>2, <1>3, <1>5 DEF Migr, q

\* While it neither asks nor waits, what it knows may change.
LEMMA IdleRun ==
  ASSUME NEW p, NEW x, Migr(p, x), Idle(p), ~x.idle,
         NEW q, Agree(p, q, {"sent", "waiting", "inbox", "dialogs"}),
         q.migration = "no" \/ q.migration = "running" \/ q.migration = "done",
         q.known \ {None} \subseteq x.cards
  PROVE  Migr(q, x) /\ Idle(q)
<1>1. DOMAIN q = Field /\ q.sent = p.sent /\ q.waiting = p.waiting /\ q.inbox = p.inbox /\ q.dialogs = p.dialogs
  BY DEF Agree
<1>2. Idle(q)
  BY <1>1 DEF Idle
<1>3. ASSUME NEW c \in Elems(p.sent) PROVE Usual(c) \/ Orphan(c, x)
  <2>1. c.use # "migrate"
    BY DEF Idle, AskedAt, Elems
  <2> QED
    BY <2>1 DEF Migr, Asking
<1>4. ASSUME NEW e \in Elems(p.inbox) PROVE Reports(e, q.left, q.known, x)
  <2>1. e.kind = "answer" => e.call.use # "migrate"
    BY DEF Idle, ToldAt, Elems
  <2>2. Reports(e, p.left, p.known, x)
    BY DEF Migr
  <2> QED
    BY <2>1, <2>2 DEF Reports
<1> QED
  BY <1>1, <1>2, <1>3, <1>4 DEF Migr

\* MigrateNext: a card is asked for that is not known, so the vault has none such; when
\* all are known, the vault has them all.
LEMMA NextRun ==
  ASSUME NEW p, NEW x, Migr(p, x), Idle(p), p.migration = "running", ~x.idle,
         p.left = x.old, x.alive => x.cards \subseteq p.known, IsSeq(x.old), None \notin Elems(x.old)
  PROVE  Migr(MigrateNext(p), x)
<1>1. CASE Missing(p) = {}
  <2> DEFINE c == Request("forget local", "migrate", None, None)
  <2>1. Elems(x.old) \subseteq x.cards
    BY <1>1 DEF Missing, Elems, Migr
  <2>2. Asking(c, p.left, p.known, x)
    BY <2>1 DEF Asking, Request, Form, MigrationSteps
  <2> HIDE DEF c
  <2>3. Migr(SendCall(p, c), x)
    BY <2>2, AskRun
  <2> QED
    BY <1>1, <2>3 DEF MigrateNext, Send, c
<1>2. CASE Missing(p) # {}
  <2> DEFINE first == CHOOSE i \in Missing(p) : \A j \in Missing(p) : i <= j
             c == Request("create item", "migrate", p.left[first], None)
  <2>1. Missing(p) \subseteq Nat
    <3>1. DOMAIN x.old \subseteq Nat
      BY DEF IsSeq
    <3> QED
      BY <3>1 DEF Missing
  <2>2. first \in Missing(p)
    BY <1>2, <2>1, Least
  <2> HIDE DEF first
  <2>3. p.left[first] \in Elems(x.old) /\ p.left[first] \notin p.known
    BY <2>2 DEF Missing, Elems
  <2>4. Asking(c, p.left, p.known, x)
    <3>1. c.what = "create item" /\ c.use = "migrate" /\ c.arg = p.left[first] /\ Form(c)
      BY DEF Request, Form
    <3> HIDE DEF c
    <3> QED
      BY <2>3, <3>1 DEF Asking, MigrationSteps
  <2> HIDE DEF c
  <2>5. Migr(SendCall(p, c), x)
    BY <2>4, AskRun
  <2> QED
    BY <1>2, <2>5 DEF MigrateNext, Send, c, first
<1> QED
  BY <1>1, <1>2

\* MigrationAnswer.
LEMMA MigrationAnswerRun ==
  ASSUME NEW p, NEW x, Migr(p, x), Idle(p), p.migration = "running", ~x.idle,
         IsSeq(x.old), None \notin Elems(x.old),
         NEW c, c.what \in MigrationSteps, NEW r, Resolved(c, r, p.left, p.known, x)
  PROVE  Migr(MigrationAnswer(p, c, r), x)
<1>1. Migr(MigrationEnds(p, "no"), x) /\ Migr(MigrationEnds(p, "done"), x)
  <2> DEFINE n == MigrationEnds(p, "no")  d == MigrationEnds(p, "done")
  <2>1. /\ Agree(p, n, {"sent", "waiting", "inbox", "dialogs"}) /\ n.migration = "no" /\ n.known = {}
        /\ Agree(p, d, {"sent", "waiting", "inbox", "dialogs"}) /\ d.migration = "done" /\ d.known = {}
    BY DEF MigrationEnds, Migr, Agree, Field
  <2> HIDE DEF n, d
  <2>2. Migr(n, x) /\ Migr(d, x)
    BY <2>1, IdleRun
  <2> QED
    BY <2>2 DEF n, d
<1>2. CASE r.code # "ok"
  BY <1>1, <1>2 DEF MigrationAnswer
<1>3. CASE r.code = "ok" /\ c.what = "local"
  <2> DEFINE q == [p EXCEPT !.left = r.data]  a == Request("items", "migrate", None, None)
  <2>1. Agree(p, q, {"sent", "waiting", "inbox", "dialogs"}) /\ q.migration = p.migration /\ q.known = p.known
        /\ q.left = r.data
    BY DEF Migr, Agree, Field
  <2> HIDE DEF q
  <2>2. Migr(q, x) /\ Idle(q)
    BY <2>1, IdleRun DEF Migr
  <2>3. CASE r.data # <<>>
    <3>1. q.left = x.old
      BY <1>3, <2>1, <2>3 DEF Resolved
    <3>2. Asking(a, q.left, q.known, x)
      BY <3>1 DEF Asking, Request, Form, MigrationSteps
    <3> HIDE DEF a
    <3>3. Migr(SendCall(q, a), x)
      BY <2>1, <2>2, <3>2, AskRun
    <3> QED
      BY <1>3, <2>3, <3>3 DEF MigrationAnswer, Send, q, a
  <2>4. CASE r.data = <<>>
    BY <1>1, <1>3, <2>4 DEF MigrationAnswer
  <2> QED
    BY <2>3, <2>4
<1>4. CASE r.code = "ok" /\ c.what = "items"
  <2> DEFINE q == [p EXCEPT !.known = {r.data.of[i] : i \in Item}]
  <2>1. Agree(p, q, {"sent", "waiting", "inbox", "dialogs"}) /\ q.migration = p.migration /\ q.left = p.left
        /\ q.known = {r.data.of[i] : i \in Item}
    BY DEF Migr, Agree, Field
  <2> HIDE DEF q
  <2>2. p.left = x.old /\ CardsIn(r.data.of) = q.known \ {None}
    BY <1>4, <2>1 DEF Resolved, CardsIn
  <2>3. CardsIn(r.data.of) \subseteq x.cards /\ (x.alive => x.cards \subseteq CardsIn(r.data.of))
    BY <1>4 DEF Resolved
  <2>4. Migr(q, x) /\ Idle(q)
    BY <2>1, <2>2, <2>3, IdleRun
  <2>5. Migr(MigrateNext(q), x)
    BY <2>1, <2>2, <2>3, <2>4, NextRun
  <2> QED
    BY <1>4, <2>5 DEF MigrationAnswer, q
<1>5. CASE r.code = "ok" /\ c.what = "create item"
  <2> DEFINE q == [p EXCEPT !.known = @ \cup {c.arg}]
  <2>1. Agree(p, q, {"sent", "waiting", "inbox", "dialogs"}) /\ q.migration = p.migration /\ q.left = p.left
        /\ q.known = p.known \cup {c.arg}
    BY DEF Migr, Agree, Field
  <2> HIDE DEF q
  <2>2. p.left = x.old /\ c.arg \in x.cards /\ (x.alive => x.cards \subseteq q.known)
    BY <1>5, <2>1 DEF Resolved
  <2>3. Migr(q, x) /\ Idle(q)
    BY <2>1, <2>2, IdleRun DEF Migr
  <2>4. Migr(MigrateNext(q), x)
    BY <2>1, <2>2, <2>3, NextRun
  <2> QED
    BY <1>5, <2>4 DEF MigrationAnswer, q
<1>6. CASE r.code = "ok" /\ c.what = "forget local"
  BY <1>1, <1>6 DEF MigrationAnswer
<1> QED
  BY <1>2, <1>3, <1>4, <1>5, <1>6 DEF MigrationSteps

\* The same with x.idle set or not.
LEMMA Renamed ==
  ASSUME NEW p, NEW x, NEW y, y.cards = x.cards, y.old = x.old, y.alive = x.alive, Migr(p, x),
         y.idle => Idle(p) /\ p.migration = "running" /\ p.left = y.left /\ p.known = y.known
  PROVE  Migr(p, y)
<1>1. \A c : Asking(c, p.left, p.known, x) => Asking(c, p.left, p.known, y)
  BY DEF Asking
<1>2. \A c : Orphan(c, x) => Orphan(c, y)
  BY DEF Orphan
<1>3. \A e : Reports(e, p.left, p.known, x) => Reports(e, p.left, p.known, y)
  BY DEF Reports, Resolved
<1> QED
  BY <1>1, <1>2, <1>3 DEF Migr

\* An answer to the migration, before which the session may be lost.
LEMMA StepAnswered ==
  ASSUME NEW p, NEW x, Migr(p, x), Idle(p), p.migration = "running", ~x.idle,
         IsSeq(x.old), None \notin Elems(x.old),
         NEW c, c.use = "migrate", c.what \in MigrationSteps, NEW r, Resolved(c, r, p.left, p.known, x)
  PROVE  Migr(Answered(p, c, r), x)
<1> DEFINE v == Received(p, c, r)
           y == [cards |-> x.cards, old |-> x.old, alive |-> x.alive, idle |-> TRUE, left |-> p.left, known |-> p.known]
<1>1. Answered(p, c, r) = MigrationAnswer(v[1], c, v[2])
  BY DEF Answered
<1>2. Migr(p, y)
  BY Renamed
<1>3. Migr(v[1], y) /\ (v[2] = r \/ v[2].code # "ok")
  BY <1>2, ReceivedRun
<1> HIDE DEF v
<1>4. Idle(v[1]) /\ v[1].migration = "running" /\ v[1].left = p.left /\ v[1].known = p.known
  BY <1>3 DEF Migr
<1>5. Migr(v[1], x)
  BY <1>3, Renamed
<1>6. Resolved(c, v[2], v[1].left, v[1].known, x)
  BY <1>3, <1>4 DEF Resolved
<1> QED
  BY <1>1, <1>4, <1>5, <1>6, MigrationAnswerRun

(***************************************************************************)
(* The user and the timers                                                 *)
(***************************************************************************)
\* Dialogs open and close.
LEMMA DialogRun ==
  ASSUME NEW p, NEW x, Migr(p, x), NEW D, \A m \in D : m \in p.dialogs \/ m.kind = "delete row" \/ m.kind = "delete login"
  PROVE  Migr([p EXCEPT !.dialogs = D], x)
<1> DEFINE q == [p EXCEPT !.dialogs = D]
<1>1. Agree(p, q, {"sent", "waiting", "inbox", "migration", "left", "known"}) /\ q.dialogs = D
  BY DEF Migr, Agree, Field
<1> HIDE DEF q
<1>2. DOMAIN q = Field /\ q.sent = p.sent /\ q.waiting = p.waiting /\ q.inbox = p.inbox
      /\ q.migration = p.migration /\ q.left = p.left /\ q.known = p.known
  BY <1>1 DEF Agree
<1>3. \A m \in q.dialogs : m.kind \in LoginDialog
  BY <1>1 DEF Migr, LoginDialog
<1>4. Migr(q, x)
  BY <1>2, <1>3 DEF Migr, Idle
<1> QED
  BY <1>4 DEF q

\* OpenDialog.
LEMMA OpenDialogRun ==
  ASSUME NEW p, NEW x, Migr(p, x), NEW kind, kind = "delete row" \/ kind = "delete login", NEW id, NEW data
  PROVE  Migr(OpenDialog(p, kind, id, data), x)
<1> DEFINE n == [kind |-> kind, id |-> id, of |-> data]
<1>1. OpenDialog(p, kind, id, data) = [p EXCEPT !.dialogs = p.dialogs \cup {n}] /\ n.kind = kind
  BY DEF OpenDialog
<1> HIDE DEF n
<1> DEFINE D == p.dialogs \cup {n}
<1>2. \A m \in D : m \in p.dialogs \/ m.kind = "delete row" \/ m.kind = "delete login"
  BY <1>1
<1> HIDE DEF D
<1>3. Migr([p EXCEPT !.dialogs = D], x)
  BY <1>2, DialogRun
<1> QED
  BY <1>1, <1>3 DEF D

\* DetailAction.
LEMMA DetailActionRun ==
  ASSUME NEW x, Migr(popup, x), NEW use, use # "migrate"
  PROVE  Migr(DetailAction(use), x)
BY DetailInvalidateRun, LoginAsked DEF DetailAction

\* Whatever the user does but change cards.
LEMMA UserRun ==
  ASSUME NEW x, Migr(popup, x), User, scene.may \cap {"addCard", "editCard", "deleteCard"} = {}
  PROVE  Migr(popup', x)
<1>1. CASE Unlock
  <2> DEFINE b == [popup EXCEPT !.busy = TRUE]  c == Request("login", "unlock", None, None)
  <2>1. popup' = SendCall(b, c)
    BY <1>1 DEF Unlock, Changed, Send
  <2>2. Migr(b, x)
    BY ResumeSetRun
  <2>3. Usual(c)
    BY RequestUsual DEF ItemMutations
  <2> HIDE DEF b, c
  <2> QED
    BY <2>1, <2>2, <2>3, SendRun
<1>2. CASE Poll
  <2> DEFINE c == Request("bootstrap", "resume", None, None)
  <2>1. popup' = SendCall(popup, c)
    BY <1>2 DEF Poll, Changed, Send
  <2>2. Usual(c)
    BY RequestUsual DEF ItemMutations
  <2> HIDE DEF c
  <2> QED
    BY <2>1, <2>2, SendRun
<1>3. CASE LockButton
  <2> DEFINE c == Request("logout", "lock", None, None)  q == SendCall(popup, c)
  <2>1. popup' = LoseSession(q)
    BY <1>3 DEF LockButton, Changed, Send
  <2>2. Usual(c)
    BY RequestUsual DEF ItemMutations
  <2> HIDE DEF c
  <2>3. Migr(q, x)
    BY <2>2, SendRun
  <2> HIDE DEF q
  <2> QED
    BY <2>1, <2>3, LoseSessionRun
<1>4. CASE Back
  <2>1. popup' = ListShow(DetailHide(popup), None, None)
    BY <1>4 DEF Back, Changed
  <2> QED
    BY <2>1, DetailHideRun, ListShowRun
<1>5. CASE Reveal
  <2>1. popup' = [popup EXCEPT !.detail.revealed = FALSE] \/ popup' = DetailAction("reveal")
    BY <1>5 DEF Reveal, Changed
  <2>2. Migr([popup EXCEPT !.detail.revealed = FALSE], x)
    BY ResumeSetRun
  <2>3. Migr(DetailAction("reveal"), x)
    BY DetailActionRun
  <2> QED
    BY <2>1, <2>2, <2>3
<1>6. CASE Edit
  <2>1. popup' = DetailAction("edit")
    BY <1>6 DEF Edit, Changed
  <2> QED
    BY <2>1, DetailActionRun
<1>7. CASE Add
  BY <1>7, FormAddRun DEF Add, Changed
<1>8. CASE Save
  <2> DEFINE q == [popup EXCEPT !.form.saving = TRUE]
             create == Request("create", "form", None, None)
             update == Request("update", "form", popup.form.editing, None)
  <2>1. popup' = SendCall(q, create) \/ popup' = FormCancel(popup) \/ popup' = SendCall(q, update)
    BY <1>8 DEF Save, Changed, Send
  <2>2. Migr(q, x)
    BY ResumeSetRun
  <2>3. Usual(create) /\ Usual(update)
    BY RequestUsual DEF ItemMutations
  <2> HIDE DEF q, create, update
  <2>4. Migr(SendCall(q, create), x) /\ Migr(SendCall(q, update), x)
    BY <2>2, <2>3, SendRun
  <2> QED
    BY <2>1, <2>4, FormCancelRun
<1>9. CASE Cancel
  BY <1>9, FormCancelRun DEF Cancel, Changed
<1>10. CASE DeleteLogin
  <2>1. popup' = OpenDialog(popup, "delete login", popup.detail.id, None)
    BY <1>10 DEF DeleteLogin, Changed
  <2> QED
    BY <2>1, OpenDialogRun
<1>11. CASE AddCard
  BY <1>11 DEF AddCard, Act
<1>12. ASSUME NEW t \in Tabs, Tab(t) PROVE Migr(popup', x)
  BY <1>12, SelectTabRun DEF Tab, Changed
<1>13. ASSUME NEW l \in Login, Open(l) PROVE Migr(popup', x)
  BY <1>13, DetailShowRun DEF Open, Changed
<1>14. ASSUME NEW l \in Login, DeleteRow(l) PROVE Migr(popup', x)
  <2>1. popup' = OpenDialog(popup, "delete row", l, None)
    BY <1>14 DEF DeleteRow, Changed
  <2> QED
    BY <2>1, OpenDialogRun
<1>15. ASSUME NEW i \in Item, EditCard(i) \/ DeleteCard(i) PROVE Migr(popup', x)
  BY <1>15 DEF EditCard, DeleteCard, Act
<1>16. ASSUME NEW m \in popup.dialogs, Answer(m) PROVE Migr(popup', x)
  <2> DEFINE D == popup.dialogs \ {m}  q == [popup EXCEPT !.dialogs = D]
             c == Request("delete", "list", m.id, None)  d == Request("delete", "detail", m.id, None)
  <2>1. Migr(q, x)
    BY DialogRun
  <2>2. m.kind = "delete row" \/ m.kind = "delete login"
    BY DEF Migr, LoginDialog
  <2>3. popup' = q \/ popup' = SendCall(q, c) \/ popup' = SendCall(q, d)
    BY <1>16, <2>2 DEF Answer, Changed, Confirmed, Send
  <2>4. Usual(c) /\ Usual(d)
    BY RequestUsual DEF ItemMutations
  <2> HIDE DEF q, c, d
  <2>5. Migr(SendCall(q, c), x) /\ Migr(SendCall(q, d), x)
    BY <2>1, <2>4, SendRun
  <2> QED
    BY <2>1, <2>3, <2>5
<1> QED
  BY <1>1, <1>2, <1>3, <1>4, <1>5, <1>6, <1>7, <1>8, <1>9, <1>10, <1>11, <1>12, <1>13, <1>14, <1>15, <1>16 DEF User

\* The timers.
LEMMA TimersRun ==
  ASSUME NEW x, Migr(popup, x), Timers
  PROVE  Migr(popup', x)
BY ListInvalidateRun, DetailInvalidateRun, FormCloseRun DEF Timers, ListExpires, DetailExpires, FormExpires, Changed

\* One of those that waited is taken.
LEMMA TailRun ==
  ASSUME NEW p, NEW x, Migr(p, x), p.waiting # <<>>
  PROVE  Migr([p EXCEPT !.waiting = Tail(@)], x) /\ Head(p.waiting) \in Elems(p.waiting)
<1> DEFINE q == [p EXCEPT !.waiting = Tail(@)]
<1>1. Agree(p, q, {"sent", "inbox", "dialogs", "migration", "left", "known"}) /\ q.waiting = Tail(p.waiting)
  BY DEF Migr, Agree, Field
<1> HIDE DEF q
<1>2. DOMAIN q = Field /\ q.sent = p.sent /\ q.inbox = p.inbox /\ q.dialogs = p.dialogs
      /\ q.migration = p.migration /\ q.left = p.left /\ q.known = p.known
  BY <1>1 DEF Agree
<1>3. IsSeq(q.waiting) /\ Elems(q.waiting) \subseteq Elems(p.waiting) /\ Head(p.waiting) \in Elems(p.waiting)
  BY <1>1, Tailed DEF Migr
<1>4. Migr(q, x)
  BY <1>2, <1>3 DEF Migr, Idle
<1> QED
  BY <1>3, <1>4 DEF q

\* GoOn.
LEMMA GoOnRun ==
  ASSUME NEW x, Migr(popup, x), NEW d, Good(popup, d), GoOn
  PROVE  Migr(popup', x)
<1> DEFINE q == [popup EXCEPT !.waiting = Tail(@)]  c == Head(popup.waiting)
<1>1. popup.waiting # <<>> /\ popup' = CardsFetch(c, q)
  BY DEF GoOn, Going
<1>2. Migr(q, x) /\ c \in Elems(popup.waiting)
  BY <1>1, TailRun
<1>3. Usual(c) /\ c.what = "items"
  BY <1>2 DEF Migr, Good, Asks, AsksWaiting, Waits
<1>4. c.use = "render"
  BY <1>3 DEF Usual
<1> HIDE DEF q, c
<1> QED
  BY <1>1, <1>2, <1>3, <1>4, CardsFetchRun

(***************************************************************************)
(* The worker                                                              *)
(***************************************************************************)
\* An event is added at the end.
LEMMA ToldAfter ==
  ASSUME NEW b, IsSeq(b), NEW e
  PROVE  /\ ~(e.kind = "answer" /\ e.call.use = "migrate") => ToldAt(Append(b, e)) = ToldAt(b)
         /\ ToldAt(b) = {} => One(ToldAt(Append(b, e)))
<1> DEFINE t == Append(b, e)
<1>1. DOMAIN t = (DOMAIN b) \cup {Len(b) + 1} /\ (\A k \in DOMAIN b : t[k] = b[k]) /\ t[Len(b) + 1] = e
      /\ Len(b) + 1 \notin DOMAIN b
  <2>1. b \in Seq(Elems(b))
    BY DEF IsSeq
  <2> QED
    BY <2>1
<1> HIDE DEF t
<1>2. ASSUME ~(e.kind = "answer" /\ e.call.use = "migrate") PROVE ToldAt(t) = ToldAt(b)
  <2>1. ToldAt(t) \subseteq ToldAt(b)
    BY <1>1, <1>2 DEF ToldAt
  <2>2. ToldAt(b) \subseteq ToldAt(t)
    BY <1>1 DEF ToldAt
  <2> QED
    BY <2>1, <2>2
<1>3. ASSUME ToldAt(b) = {} PROVE One(ToldAt(t))
  <2>1. ToldAt(t) \subseteq {Len(b) + 1}
    BY <1>1, <1>3 DEF ToldAt
  <2> QED
    BY <2>1 DEF One
<1> QED
  BY <1>2, <1>3 DEF t

\* Tell.
LEMMA TellRun ==
  ASSUME NEW p, NEW x, Migr(p, x), NEW e, Reports(e, p.left, p.known, x),
         \/ ~(e.kind = "answer" /\ e.call.use = "migrate")
         \/ Idle(p) /\ p.migration = "running" /\ ~x.idle
  PROVE  Migr(Tell(p, e), x)
<1> DEFINE q == Tell(p, e)
<1>1. Agree(p, q, {"waiting", "sent", "dialogs", "migration", "left", "known"}) /\ q.inbox = Append(p.inbox, e)
  BY DEF Migr, Tell, Field, Agree
<1> HIDE DEF q
<1>2. DOMAIN q = Field /\ q.waiting = p.waiting /\ q.sent = p.sent /\ q.dialogs = p.dialogs
      /\ q.migration = p.migration /\ q.left = p.left /\ q.known = p.known
  BY <1>1 DEF Agree
<1>3. IsSeq(q.inbox) /\ Elems(q.inbox) = Elems(p.inbox) \cup {e}
  BY <1>1, Appended DEF Migr
<1>4. CASE ~(e.kind = "answer" /\ e.call.use = "migrate")
  <2>1. ToldAt(q.inbox) = ToldAt(p.inbox)
    BY <1>1, <1>4, ToldAfter DEF Migr
  <2> QED
    BY <1>2, <1>3, <2>1 DEF Migr, Sole, Idle, q
<1>5. CASE Idle(p) /\ p.migration = "running" /\ ~x.idle
  <2>1. One(ToldAt(q.inbox)) /\ AskedAt(q.sent) = {}
    BY <1>1, <1>2, <1>5, ToldAfter DEF Migr, Idle
  <2>2. Sole(q.sent, q.inbox)
    BY <2>1 DEF Sole, One
  <2> QED
    BY <1>2, <1>3, <1>5, <2>2 DEF Migr, q
<1> QED
  BY <1>4, <1>5

\* Reply: the migration hears of what it asked for.
LEMMA ReplyRun ==
  ASSUME NEW p, NEW x, Migr(p, x), NEW c, NEW r,
         \/ c.use = "dead"
         \/ Usual(c)
         \/ /\ Form(c) /\ c.use = "migrate" /\ c.what \in MigrationSteps /\ Resolved(c, r, p.left, p.known, x)
            /\ Idle(p) /\ p.migration = "running" /\ ~x.idle
  PROVE  Migr(Reply(p, c, r), x)
<1> DEFINE e == [kind |-> "answer", call |-> c, result |-> r]
<1>1. IsAnswer(e) /\ e.call = c /\ e.result = r
  BY DEF IsAnswer
<1>2. Reply(p, c, r) = IF c.use = "dead" THEN p ELSE Tell(p, e)
  BY DEF Reply
<1> HIDE DEF e
<1>3. ASSUME c.use # "dead" PROVE Migr(Tell(p, e), x)
  <2>1. Reports(e, p.left, p.known, x)
    BY <1>1, <1>3 DEF Reports
  <2>2. \/ ~(e.kind = "answer" /\ e.call.use = "migrate")
        \/ Idle(p) /\ p.migration = "running" /\ ~x.idle
    BY <1>1, <1>3 DEF Usual
  <2> QED
    BY <2>1, <2>2, TellRun
<1> QED
  BY <1>2, <1>3

\* A request is taken out.
LEMMA AskedWithout ==
  ASSUME NEW s, IsSeq(s), One(AskedAt(s)), NEW i \in DOMAIN s
  PROVE  LET t == SubSeq(s, 1, i - 1) \o SubSeq(s, i + 1, Len(s)) IN
         /\ One(AskedAt(t)) /\ (AskedAt(s) = {} => AskedAt(t) = {})
         /\ s[i].use = "migrate" => AskedAt(t) = {}
<1> DEFINE t == SubSeq(s, 1, i - 1) \o SubSeq(s, i + 1, Len(s))  f(k) == IF k < i THEN k ELSE k + 1
<1>1. s \in Seq(Elems(s)) /\ Len(s) \in Nat /\ DOMAIN s = 1 .. Len(s) /\ i \in 1 .. Len(s)
  BY DEF IsSeq
<1>2. \A k \in DOMAIN t : k \in Nat /\ f(k) \in DOMAIN s /\ f(k) # i /\ t[k] = s[f(k)]
  <2> DEFINE a == SubSeq(s, 1, i - 1)  b == SubSeq(s, i + 1, Len(s))
  <2>1. a \in Seq(Elems(s)) /\ Len(a) = i - 1 /\ \A k \in 1 .. i - 1 : a[k] = s[k]
    BY <1>1
  <2>2. b \in Seq(Elems(s)) /\ Len(b) = Len(s) - i /\ \A k \in 1 .. Len(s) - i : b[k] = s[k + i]
    BY <1>1
  <2> HIDE DEF a, b
  <2>3. t = a \o b
    BY DEF a, b
  <2> HIDE DEF t
  <2>4. /\ t \in Seq(Elems(s)) /\ Len(t) = Len(a) + Len(b)
        /\ \A k \in 1 .. Len(a) + Len(b) : t[k] = IF k <= Len(a) THEN a[k] ELSE b[k - Len(a)]
    BY <2>1, <2>2, <2>3, ConcatProperties
  <2>5. DOMAIN t = 1 .. Len(s) - 1
    BY <1>1, <2>1, <2>2, <2>4
  <2>6. \A k \in 1 .. Len(s) - 1 : t[k] = IF k <= i - 1 THEN a[k] ELSE b[k - (i - 1)]
    BY <1>1, <2>1, <2>2, <2>4
  <2> SUFFICES ASSUME NEW k \in 1 .. Len(s) - 1
               PROVE  k \in Nat /\ f(k) \in DOMAIN s /\ f(k) # i /\ t[k] = s[f(k)]
    BY <2>5
  <2>7. CASE k < i
    <3>1. k \in 1 .. i - 1 /\ t[k] = a[k]
      BY <1>1, <2>6, <2>7
    <3> QED
      BY <1>1, <2>1, <2>7, <3>1
  <2>8. CASE ~(k < i)
    <3>1. k - (i - 1) \in 1 .. Len(s) - i /\ t[k] = b[k - (i - 1)] /\ k - (i - 1) + i = k + 1
      BY <1>1, <2>6, <2>8
    <3>2. b[k - (i - 1)] = s[k + 1]
      BY <2>2, <3>1
    <3> QED
      BY <1>1, <2>8, <3>1, <3>2
  <2> QED
    BY <2>7, <2>8
<1> HIDE DEF t
<1>3. \A k \in AskedAt(t) : k \in Nat /\ f(k) \in AskedAt(s) /\ f(k) # i
  BY <1>2 DEF AskedAt
<1>4. One(AskedAt(t))
  <2> SUFFICES ASSUME NEW j \in AskedAt(t), NEW k \in AskedAt(t) PROVE j = k
    BY DEF One
  <2>1. f(j) = f(k) /\ j \in Nat /\ k \in Nat
    BY <1>3 DEF One
  <2> QED
    BY <1>1, <2>1
<1> HIDE DEF f
<1>5. s[i].use = "migrate" => AskedAt(t) = {}
  <2>1. s[i].use = "migrate" => i \in AskedAt(s)
    BY DEF AskedAt
  <2> QED
    BY <1>3, <2>1 DEF One
<1> QED
  BY <1>3, <1>4, <1>5 DEF t

\* Without; when it was the migration's, this neither asks nor waits any more.
LEMMA WithoutRun ==
  ASSUME NEW x, Migr(popup, x), ~x.idle, NEW i \in DOMAIN popup.sent
  PROVE  LET q == Without(i) IN
         /\ Migr(q, x) /\ q.left = popup.left /\ q.known = popup.known
         /\ popup.sent[i].use = "migrate" => Idle(q) /\ q.migration = "running"
<1> DEFINE q == Without(i)  s == popup.sent
<1>1. /\ Agree(popup, q, {"waiting", "inbox", "dialogs", "migration", "left", "known"})
      /\ q.sent = SubSeq(s, 1, i - 1) \o SubSeq(s, i + 1, Len(s))
  BY DEF Migr, Without, Field, Agree
<1> HIDE DEF q
<1>2. DOMAIN q = Field /\ q.waiting = popup.waiting /\ q.inbox = popup.inbox /\ q.dialogs = popup.dialogs
      /\ q.migration = popup.migration /\ q.left = popup.left /\ q.known = popup.known
  BY <1>1 DEF Agree
<1>3. IsSeq(q.sent) /\ Elems(q.sent) \subseteq Elems(s)
  BY <1>1, Removed DEF Migr
<1>4. /\ One(AskedAt(q.sent)) /\ (AskedAt(s) = {} => AskedAt(q.sent) = {})
      /\ s[i].use = "migrate" => AskedAt(q.sent) = {}
  BY <1>1, AskedWithout DEF Migr, Sole
<1>5. Sole(q.sent, q.inbox) /\ (Idle(popup) => Idle(q))
  BY <1>2, <1>4 DEF Migr, Sole, Idle
<1>6. Migr(q, x)
  BY <1>2, <1>3, <1>5 DEF Migr
<1>7. s[i].use = "migrate" => Idle(q) /\ q.migration = "running"
  <2>1. s[i].use = "migrate" => AskedAt(s) # {}
    BY DEF AskedAt
  <2> QED
    BY <1>2, <1>4, <2>1 DEF Migr, Sole, Idle
<1> QED
  BY <1>2, <1>6, <1>7 DEF q

\* A request is answered.
LEMMA AnswerRun ==
  ASSUME NEW x, Migr(popup, x), ~x.idle, NEW i \in DOMAIN popup.sent, NEW r,
         popup.sent[i].use = "migrate" => Resolved(popup.sent[i], r, popup.left, popup.known, x)
  PROVE  Migr(Reply(Without(i), popup.sent[i], r), x)
<1> DEFINE q == Without(i)  c == popup.sent[i]
<1>1. /\ Migr(q, x) /\ q.left = popup.left /\ q.known = popup.known
      /\ c.use = "migrate" => Idle(q) /\ q.migration = "running"
  BY WithoutRun
<1>2. Usual(c) \/ Asking(c, popup.left, popup.known, x) \/ Orphan(c, x)
  BY DEF Migr, Elems
<1> HIDE DEF q
<1>3. \/ c.use = "dead"
      \/ Usual(c)
      \/ /\ Form(c) /\ c.use = "migrate" /\ c.what \in MigrationSteps /\ Resolved(c, r, q.left, q.known, x)
         /\ Idle(q) /\ q.migration = "running" /\ ~x.idle
  BY <1>1, <1>2 DEF Asking, Orphan
<1> HIDE DEF c
<1> QED
  BY <1>1, <1>3, ReplyRun DEF q, c

\* An announcement.
LEMMA AnnounceRun ==
  ASSUME NEW p, NEW x, Migr(p, x), NEW kind, kind # "answer", NEW u, NEW v
  PROVE  Migr(Tell(p, Event(kind, u, v)), x)
<1> DEFINE e == Event(kind, u, v)
<1>1. e.kind # "answer"
  BY DEF Event
<1> HIDE DEF e
<1>2. Migr(Tell(p, e), x)
  BY <1>1, TellRun DEF Reports
<1> QED
  BY <1>2 DEF e

\* CutReads.
LEMMA CutReadsRun ==
  ASSUME NEW p, NEW x, Migr(p, x)
  PROVE  Migr(CutReads(p), x)
BY BumpRun, AnnounceRun DEF CutReads, Invalidated

\* NewToken.
LEMMA NewTokenRun ==
  ASSUME NEW p, NEW x, Migr(p, x)
  PROVE  Migr(NewToken(p), x)
<1> DEFINE q == CutReads(Bump(p, {"session"}))
<1>1. Migr(q, x)
  BY BumpRun, CutReadsRun
<1> HIDE DEF q
<1>2. Migr(Tell(q, TokenChanged), x)
  BY <1>1, AnnounceRun DEF TokenChanged
<1> QED
  BY <1>1, <1>2 DEF NewToken, q

\* Something is read for a request, and of the cards it is all of them.
LEMMA GotRun ==
  ASSUME NEW p, NEW x, Migr(p, x), NEW i \in DOMAIN p.sent, NEW g,
         p.sent[i].what = "items" => CardsIn(g.of) = x.cards
  PROVE  Migr([p EXCEPT !.sent[i].got = g], x)
<1> DEFINE q == [p EXCEPT !.sent[i].got = g]  c == p.sent[i]  b == [c EXCEPT !.got = g]
<1>1. Agree(p, q, {"waiting", "inbox", "dialogs", "migration", "left", "known"})
      /\ q.sent = [p.sent EXCEPT ![i] = b]
  BY DEF Migr, Field, Agree
<1> HIDE DEF q
<1>2. DOMAIN q = Field /\ q.waiting = p.waiting /\ q.inbox = p.inbox /\ q.dialogs = p.dialogs
      /\ q.migration = p.migration /\ q.left = p.left /\ q.known = p.known
  BY <1>1 DEF Agree
<1>3. Usual(c) \/ Asking(c, p.left, p.known, x) \/ Orphan(c, x)
  BY DEF Migr, Elems
<1>4. Form(b) /\ b.what = c.what /\ b.use = c.use /\ b.arg = c.arg /\ b.got = g
  BY <1>3 DEF Usual, Asking, Orphan, Form
<1> HIDE DEF b
<1>5. Usual(b) \/ Asking(b, p.left, p.known, x) \/ Orphan(b, x)
  <2>1. CASE Usual(c)
    BY <1>4, <2>1 DEF Usual
  <2>2. CASE Asking(c, p.left, p.known, x)
    <3>1. Asking(b, p.left, p.known, x)
      BY <1>4, <2>2 DEF Asking
    <3> QED
      BY <3>1
  <2>3. CASE Orphan(c, x)
    <3>1. Orphan(b, x)
      BY <1>4, <2>3 DEF Orphan
    <3> QED
      BY <3>1
  <2> QED
    BY <1>3, <2>1, <2>2, <2>3
<1>6. IsSeq(q.sent)
  <2>1. DOMAIN q.sent = DOMAIN p.sent /\ q.sent = [j \in DOMAIN q.sent |-> q.sent[j]]
    BY <1>1
  <2> QED
    BY <2>1, Mapped DEF Migr
<1>7. DOMAIN q.sent = DOMAIN p.sent /\ \A k \in DOMAIN p.sent : q.sent[k] = IF k = i THEN b ELSE p.sent[k]
  BY <1>1
<1>8. AskedAt(q.sent) = AskedAt(p.sent)
  BY <1>4, <1>7 DEF AskedAt
<1>9. \A k \in Elems(q.sent) : k = b \/ k \in Elems(p.sent)
  BY <1>7 DEF Elems
<1>10. Migr(q, x)
  BY <1>2, <1>5, <1>6, <1>8, <1>9 DEF Migr, Sole, Idle
<1> QED
  BY <1>10 DEF q, b

\* The vault gets a card: what the migration read before is not all of it any more, so
\* that it may have read nothing.
LEMMA GrowRun ==
  ASSUME NEW p, NEW x, Migr(p, x), NEW y, y.old = x.old, y.alive = x.alive, ~y.idle, x.cards \subseteq y.cards,
         x.alive => Idle(p)
  PROVE  Migr(p, y)
<1>1. ASSUME NEW c \in Elems(p.sent)
      PROVE  Usual(c) \/ Asking(c, p.left, p.known, y) \/ Orphan(c, y)
  <2>1. CASE Usual(c)
    BY <2>1
  <2>2. CASE Asking(c, p.left, p.known, x)
    <3>1. ~x.alive
      BY <2>2 DEF Idle, AskedAt, Elems, Asking
    <3>2. Asking(c, p.left, p.known, y)
      BY <2>2, <3>1 DEF Asking
    <3> QED
      BY <3>2
  <2>3. CASE Orphan(c, x)
    <3>1. Orphan(c, y)
      BY <2>3 DEF Orphan
    <3> QED
      BY <3>1
  <2> QED
    BY <2>1, <2>2, <2>3 DEF Migr
<1>2. ASSUME NEW e \in Elems(p.inbox)
      PROVE  Reports(e, p.left, p.known, y)
  <2>1. Reports(e, p.left, p.known, x)
    BY DEF Migr
  <2>2. e.kind = "answer" /\ e.call.use = "migrate" => ~x.alive
    BY DEF Idle, ToldAt, Elems
  <2>3. ASSUME e.kind = "answer", e.call.use = "migrate", Resolved(e.call, e.result, p.left, p.known, x)
        PROVE  Resolved(e.call, e.result, p.left, p.known, y)
    BY <2>2, <2>3 DEF Resolved
  <2> QED
    BY <2>1, <2>3 DEF Reports
<1> QED
  BY <1>1, <1>2 DEF Migr

\* A request is one of the three.
LEMMA CallIs ==
  ASSUME NEW x, Migr(popup, x), NEW i \in DOMAIN popup.sent
  PROVE  LET c == popup.sent[i] IN
         /\ Usual(c) \/ Asking(c, popup.left, popup.known, x) \/ Orphan(c, x)
         /\ c.what \notin MigrationSteps => c.use # "migrate" /\ (Usual(c) \/ c.use = "dead")
<1> DEFINE c == popup.sent[i]
<1>1. Usual(c) \/ Asking(c, popup.left, popup.known, x) \/ Orphan(c, x)
  BY DEF Migr, Elems
<1> HIDE DEF c
<1>2. c.what \notin MigrationSteps => c.use # "migrate" /\ (Usual(c) \/ c.use = "dead")
  BY <1>1 DEF Usual, Asking, Orphan
<1> QED
  BY <1>1, <1>2 DEF c

\* Read.
LEMMA ReadRun ==
  ASSUME NEW x, Migr(popup, x), ~x.idle, local = x.old \/ local = <<>>, NEW i \in DOMAIN popup.sent, Read(i)
  PROVE  Migr(popup', x)
<1> DEFINE c == popup.sent[i]
<1>1. PICK r \in Results(c) : popup' = Reply(Without(i), c, r)
  BY DEF Read
<1>2. CASE c.what = "local"
  <2>1. r = Ok(local)
    BY <1>2 DEF Results
  <2>2. r.code = "ok" /\ r.data = local
    BY <2>1 DEF Ok
  <2>3. Resolved(c, r, popup.left, popup.known, x)
    BY <1>2, <2>2 DEF Resolved
  <2> QED
    BY <1>1, <2>3, AnswerRun
<1>3. CASE c.what # "local"
  <2>1. c.what \notin MigrationSteps
    BY <1>3 DEF Results, MigrationSteps
  <2>2. c.use # "migrate"
    BY <2>1, CallIs
  <2> QED
    BY <1>1, <2>2, AnswerRun
<1> QED
  BY <1>2, <1>3

\* A request fails.
LEMMA FailedRun ==
  ASSUME NEW x, Migr(popup, x), ~x.idle, NEW i \in DOMAIN popup.sent, NEW code, code # "ok"
  PROVE  Migr(Reply(Without(i), popup.sent[i], Failed(code)), x)
<1>1. Resolved(popup.sent[i], Failed(code), popup.left, popup.known, x)
  BY DEF Resolved, Failed
<1> QED
  BY <1>1, AnswerRun

\* ReadItems.
LEMMA ReadItemsRun ==
  ASSUME NEW x, Migr(popup, x), ~x.idle, x.cards = CardsIn(items.of), NEW i \in DOMAIN popup.sent, ReadItems(i)
  PROVE  Migr(popup', x)
<1>1. popup' = Reply(Without(i), popup.sent[i], Failed("lost")) \/ popup' = [popup EXCEPT !.sent[i].got = CardList]
  BY DEF ReadItems
<1>2. Migr(Reply(Without(i), popup.sent[i], Failed("lost")), x)
  BY FailedRun
<1>3. CardsIn(CardList.of) = x.cards
  BY DEF CardList
<1>4. Migr([popup EXCEPT !.sent[i].got = CardList], x)
  BY <1>3, GotRun
<1> QED
  BY <1>1, <1>2, <1>4

\* AnswerItems.
LEMMA AnswerItemsRun ==
  ASSUME NEW x, Migr(popup, x), ~x.idle, NEW i \in DOMAIN popup.sent, AnswerItems(i)
  PROVE  Migr(popup', x)
<1> DEFINE c == popup.sent[i]
<1>1. c.what = "items" /\ c.got # None
      /\ (popup' = Reply(Without(i), c, Ok(c.got)) \/ popup' = Reply(Without(i), c, Failed("lost")))
  BY DEF AnswerItems
<1>2. Migr(Reply(Without(i), c, Failed("lost")), x)
  BY FailedRun
<1>3. c.use = "migrate" => Resolved(c, Ok(c.got), popup.left, popup.known, x)
  <2>1. Ok(c.got).data = c.got
    BY DEF Ok
  <2>2. c.use = "migrate" => Asking(c, popup.left, popup.known, x)
    BY CallIs DEF Usual, Orphan
  <2> HIDE DEF c
  <2> QED
    BY <1>1, <2>1, <2>2 DEF Asking, Resolved
<1>4. Migr(Reply(Without(i), c, Ok(c.got)), x)
  BY <1>3, AnswerRun
<1> QED
  BY <1>1, <1>2, <1>4

\* BeginMutation and EndMutation.
LEMMA MutationRun ==
  ASSUME NEW x, Migr(popup, x), ~x.idle, NEW i \in DOMAIN popup.sent, BeginMutation(i) \/ EndMutation(i)
  PROVE  Migr(popup', x)
<1> DEFINE c == popup.sent[i]  q == CutReads(Without(i))  g == [popup EXCEPT !.sent[i].got = session]
<1>1. c.what \in Mutations
  BY DEF BeginMutation, EndMutation, Applying
<1>2. c.what \notin MigrationSteps /\ c.what # "items"
  BY <1>1 DEF Mutations, MigrationSteps
<1>3. Usual(c) \/ c.use = "dead"
  BY <1>2, CallIs
<1>4. Migr(q, x)
  BY WithoutRun, CutReadsRun
<1> HIDE DEF q
<1>5. \A r : Migr(Reply(q, c, r), x)
  BY <1>3, <1>4, ReplyRun
<1>6. Migr(g, x)
  BY <1>2, GotRun
<1> HIDE DEF g
<1>7. Migr(CutReads(g), x) /\ Migr(Reply(Without(i), c, Failed("lost")), x)
  BY <1>6, CutReadsRun, FailedRun
<1>8. CASE BeginMutation(i)
  <2>1. popup' = Reply(Without(i), c, Failed("lost")) \/ popup' = CutReads(g)
    BY <1>8 DEF BeginMutation, g
  <2> QED
    BY <1>7, <2>1
<1>9. CASE EndMutation(i)
  <2>1. \E r : popup' = Reply(q, c, r)
    BY <1>9 DEF EndMutation, q
  <2> QED
    BY <1>5, <2>1
<1> QED
  BY <1>8, <1>9

\* ForgetLocal, ServeLogin, RefuseLogin and ServeLogout.
LEMMA TokensRun ==
  ASSUME NEW x, Migr(popup, x), ~x.idle, NEW i \in DOMAIN popup.sent,
         ForgetLocal(i) \/ ServeLogin(i) \/ RefuseLogin(i) \/ ServeLogout(i)
  PROVE  Migr(popup', x)
<1> DEFINE c == popup.sent[i]  w == Without(i)  n == NewToken(w)
<1>1. Migr(w, x)
  BY WithoutRun
<1> HIDE DEF w
<1>2. Migr(n, x)
  BY <1>1, NewTokenRun
<1> HIDE DEF n
<1>3. CASE ForgetLocal(i)
  <2>1. c.what = "forget local" /\ popup' = Reply(Without(i), c, Ok(None))
    BY <1>3 DEF ForgetLocal
  <2>2. Resolved(c, Ok(None), popup.left, popup.known, x)
    BY <2>1 DEF Resolved
  <2> QED
    BY <2>1, <2>2, AnswerRun
<1>4. CASE ServeLogin(i) \/ RefuseLogin(i) \/ ServeLogout(i)
  <2>1. (c.what = "login" \/ c.what = "logout") /\ \E r : popup' = Reply(w, c, r) \/ popup' = Reply(n, c, r)
    BY <1>4 DEF ServeLogin, RefuseLogin, ServeLogout, w, n
  <2>2. c.what \notin MigrationSteps
    BY <2>1 DEF MigrationSteps
  <2>3. Usual(c) \/ c.use = "dead"
    BY <2>2, CallIs
  <2>4. \A r : Migr(Reply(w, c, r), x) /\ Migr(Reply(n, c, r), x)
    BY <1>1, <1>2, <2>3, ReplyRun
  <2> QED
    BY <2>1, <2>4
<1> QED
  BY <1>3, <1>4

\* What happens outside, except that the popup is closed and opened.
LEMMA OutsideRun ==
  ASSUME NEW x, Migr(popup, x), ~x.idle,
         \/ Age \/ Expire \/ Clear \/ (\E l \in Login : Refresh(l)) \/ (\E i \in DOMAIN popup.sent : Fail(i))
  PROVE  Migr(popup', x)
<1>1. CASE Age
  BY <1>1, ResumeSetRun DEF Age, Changed
<1>2. CASE Expire
  BY <1>2, NewTokenRun DEF Expire
<1>3. CASE Clear
  BY <1>3, CutReadsRun DEF Clear, Changed
<1>4. ASSUME NEW l \in Login, Refresh(l) PROVE Migr(popup', x)
  <2>1. \E u, v : popup' = Tell(popup, Event("cache", u, v))
    BY <1>4 DEF Refresh
  <2> QED
    BY <2>1, AnnounceRun
<1>5. ASSUME NEW i \in DOMAIN popup.sent, Fail(i) PROVE Migr(popup', x)
  BY <1>5, FailedRun DEF Fail
<1> QED
  BY <1>1, <1>2, <1>3, <1>4, <1>5

\* Of an old card the vault has what it had before, or one copy at most.
NoDoubles(of, was, old) == \A v \in Elems(old) :
    \/ \A i \in Item : of[i] = v <=> was[i] = v
    \/ \A i \in Item, j \in Item : of[i] = v /\ of[j] = v => i = j

\* MutateItem: the only change of a card is one that the migration asked for, now or in
\* a popup that was closed.
LEMMA MutateItemRun ==
  ASSUME NEW x, Migr(popup, x), ~x.idle, x.cards = CardsIn(items.of), None \notin Elems(x.old), WorkerOk,
         NEW y, y.cards = CardsIn(items'.of), y.old = x.old, y.alive = x.alive, ~y.idle,
         NEW i \in DOMAIN popup.sent, MutateItem(i), NEW was
  PROVE  /\ Migr(popup', y) /\ x.cards \subseteq y.cards
         /\ x.alive /\ NoDoubles(items.of, was, x.old) => NoDoubles(items'.of, was, x.old)
<1> DEFINE c == popup.sent[i]  q == Without(i)  New == CHOOSE id \in Item : items.of[id] = None
<1>1. c.what \in ItemMutations
  BY DEF MutateItem
<1>2. Asking(c, popup.left, popup.known, x) \/ Orphan(c, x)
  BY <1>1, CallIs DEF Usual
<1>3. /\ c.what = "create item" /\ c.arg \in Elems(x.old) /\ Form(c)
      /\ (c.use = "dead" /\ ~x.alive) \/ (c.use = "migrate" /\ Asking(c, popup.left, popup.known, x))
  <2> HIDE DEF c
  <2>1. Asking(c, popup.left, popup.known, x) => c.what = "create item" /\ c.arg \in Elems(x.old) /\ Form(c) /\ c.use = "migrate"
    BY <1>1 DEF Asking, ItemMutations, MigrationSteps
  <2>2. Orphan(c, x) => c.what = "create item" /\ c.arg \in Elems(x.old) /\ Form(c) /\ c.use = "dead" /\ ~x.alive
    BY <1>1 DEF Orphan
  <2> QED
    BY <1>2, <2>1, <2>2
<1>4. CASE popup' = Reply(q, c, Failed("lost")) /\ UNCHANGED items
  <2>1. Migr(popup', x)
    BY <1>4, FailedRun
  <2>2. y.cards = x.cards
    BY <1>4
  <2>3. Migr(popup', y)
    BY <2>1, <2>2, Renamed
  <2> QED
    BY <1>4, <2>2, <2>3
<1>5. ASSUME (\E id \in Item : items.of[id] = None),
             items' = [changes |-> items.changes + 1, of |-> [items.of EXCEPT ![New] = c.arg]],
             popup' = Reply(q, c, Ok(items'.changes)) \/ popup' = Reply(q, c, Failed("error"))
      PROVE  /\ Migr(popup', y) /\ x.cards \subseteq y.cards
             /\ x.alive /\ NoDoubles(items.of, was, x.old) => NoDoubles(items'.of, was, x.old)
  <2>1. New \in Item /\ items.of[New] = None
    BY <1>5
  <2> HIDE DEF New
  <2>2. \A id \in Item : items'.of[id] = IF id = New THEN c.arg ELSE items.of[id]
    BY <1>5 DEF WorkerOk
  <2>3. c.arg # None
    BY <1>3
  <2>4. y.cards = x.cards \cup {c.arg}
    <3>1. \A v : v \in CardsIn(items.of) <=> v # None /\ \E id \in Item : v = items.of[id]
      BY DEF CardsIn
    <3>2. \A v : v \in CardsIn(items'.of) <=> v # None /\ \E id \in Item : v = items'.of[id]
      BY DEF CardsIn
    <3>3. x.cards \subseteq y.cards
      BY <2>1, <2>2, <3>1, <3>2
    <3>4. c.arg \in y.cards
      BY <2>1, <2>2, <2>3, <3>2
    <3>5. y.cards \subseteq x.cards \cup {c.arg}
      BY <2>2, <3>1, <3>2
    <3> QED
      BY <3>3, <3>4, <3>5
  <2>5. /\ Migr(q, x) /\ q.left = popup.left /\ q.known = popup.known
        /\ c.use = "migrate" => Idle(q) /\ q.migration = "running"
    BY WithoutRun
  <2> HIDE DEF q, c
  <2>6. Migr(q, y)
    BY <1>3, <2>4, <2>5, GrowRun
  <2>7. ASSUME NEW r PROVE Migr(Reply(q, c, r), y)
    <3>1. CASE c.use = "dead"
      BY <2>6, <3>1, ReplyRun
    <3>2. CASE c.use = "migrate" /\ Asking(c, popup.left, popup.known, x)
      <4>1. Resolved(c, r, q.left, q.known, y)
        BY <1>3, <2>4, <2>5, <3>2 DEF Asking, Resolved
      <4>2. c.what \in MigrationSteps
        BY <1>3 DEF MigrationSteps
      <4> QED
        BY <1>3, <2>5, <2>6, <3>2, <4>1, <4>2, ReplyRun
    <3> QED
      BY <1>3, <3>1, <3>2
  <2>8. ASSUME x.alive, NoDoubles(items.of, was, x.old) PROVE NoDoubles(items'.of, was, x.old)
    <3>1. c.arg \notin x.cards
      BY <1>3, <2>8 DEF Asking
    <3>2. \A id \in Item : items.of[id] # c.arg
      BY <2>3, <3>1 DEF CardsIn
    <3> SUFFICES ASSUME NEW v \in Elems(x.old)
                 PROVE  \/ \A id \in Item : items'.of[id] = v <=> was[id] = v
                        \/ \A id \in Item, jd \in Item : items'.of[id] = v /\ items'.of[jd] = v => id = jd
      BY DEF NoDoubles
    <3>3. CASE v = c.arg
      BY <2>2, <3>2, <3>3
    <3>4. CASE v # c.arg
      <4>1. \A id \in Item : items'.of[id] = v <=> items.of[id] = v
        BY <2>1, <2>2, <3>4
      <4>2. \/ \A id \in Item : items.of[id] = v <=> was[id] = v
            \/ \A id \in Item, jd \in Item : items.of[id] = v /\ items.of[jd] = v => id = jd
        BY <2>8 DEF NoDoubles
      <4> QED
        BY <4>1, <4>2
    <3> QED
      BY <3>3, <3>4
  <2> QED
    BY <1>5, <2>4, <2>7, <2>8
<1>6. \/ popup' = Reply(q, c, Failed("lost")) /\ UNCHANGED items
      \/ /\ \E id \in Item : items.of[id] = None
         /\ items' = [changes |-> items.changes + 1, of |-> [items.of EXCEPT ![New] = c.arg]]
         /\ popup' = Reply(q, c, Ok(items'.changes)) \/ popup' = Reply(q, c, Failed("error"))
  BY <1>3 DEF MutateItem
<1> QED
  BY <1>4, <1>5, <1>6

\* CloseAndOpen: what was asked for is done for nobody.
LEMMA CloseRun ==
  ASSUME NEW x, Migr(popup, x), NEW y, y.cards = x.cards, y.old = x.old, ~y.alive, ~y.idle, CloseAndOpen
  PROVE  Migr(popup', y)
<1> DEFINE s == [k \in DOMAIN popup.sent |-> [popup.sent[k] EXCEPT !.use = "dead"]]
           c == Request("bootstrap", "boot", None, None)
<1>1. /\ DOMAIN popup' = Field /\ popup'.sent = Append(s, c) /\ popup'.waiting = <<>> /\ popup'.inbox = <<>>
      /\ popup'.dialogs = {} /\ popup'.migration = "no" /\ popup'.known = {}
  BY DEF CloseAndOpen, Opened, Send, SendCall, Field
<1>2. Usual(c)
  BY RequestUsual DEF ItemMutations
<1> HIDE DEF c
<1>3. IsSeq(s)
  BY Mapped DEF Migr
<1>4. ASSUME NEW k \in DOMAIN popup.sent PROVE Orphan(s[k], y)
  <2> DEFINE a == popup.sent[k]  b == [a EXCEPT !.use = "dead"]
  <2>1. Usual(a) \/ Asking(a, popup.left, popup.known, x) \/ Orphan(a, x)
    BY CallIs
  <2>2. Form(b) /\ b.what = a.what /\ b.use = "dead" /\ b.arg = a.arg
    BY <2>1 DEF Usual, Asking, Orphan, Form
  <2> HIDE DEF a, b
  <2>3. Usual(a) => Orphan(b, y)
    BY <2>2 DEF Usual, Orphan
  <2>4. Asking(a, popup.left, popup.known, x) => Orphan(b, y)
    BY <2>2 DEF Asking, Orphan, ItemMutations, MigrationSteps
  <2>5. Orphan(a, x) => Orphan(b, y)
    BY <2>2 DEF Orphan
  <2>6. Orphan(b, y)
    BY <2>1, <2>3, <2>4, <2>5
  <2> QED
    BY <2>6 DEF a, b
<1>5. AskedAt(s) = {}
  BY <1>4 DEF AskedAt, Orphan
<1>6. \A k \in Elems(s) : Orphan(k, y)
  BY <1>4 DEF Elems
<1> HIDE DEF s
<1>7. IsSeq(popup'.sent) /\ \A k \in Elems(popup'.sent) : k = c \/ k \in Elems(s)
  BY <1>1, <1>3, Appended
<1>8. AskedAt(popup'.sent) = {}
  BY <1>1, <1>2, <1>3, <1>5, AskedAfter DEF Usual
<1>9. IsSeq(<<>>) /\ Elems(<<>>) = {} /\ ToldAt(<<>>) = {}
  BY EmptySeq DEF IsSeq, Elems, ToldAt
<1>10. Sole(popup'.sent, popup'.inbox) /\ Idle(popup')
  BY <1>1, <1>8, <1>9 DEF Sole, Idle, One
<1> QED
  BY <1>1, <1>2, <1>6, <1>7, <1>9, <1>10 DEF Migr

\* The first event is taken.
LEMMA InboxTailRun ==
  ASSUME NEW p, NEW x, Migr(p, x), ~x.idle, p.inbox # <<>>
  PROVE  LET q == [p EXCEPT !.inbox = Tail(@)]  e == Head(p.inbox) IN
         /\ Migr(q, x) /\ q.left = p.left /\ q.known = p.known /\ e \in Elems(p.inbox)
         /\ e.kind = "answer" /\ e.call.use = "migrate" => Idle(q) /\ q.migration = "running"
<1> DEFINE q == [p EXCEPT !.inbox = Tail(@)]  e == Head(p.inbox)  b == p.inbox  t == Tail(b)
<1>1. Agree(p, q, {"sent", "waiting", "dialogs", "migration", "left", "known"}) /\ q.inbox = t
  BY DEF Migr, Agree, Field
<1> HIDE DEF q
<1>2. DOMAIN q = Field /\ q.sent = p.sent /\ q.waiting = p.waiting /\ q.dialogs = p.dialogs
      /\ q.migration = p.migration /\ q.left = p.left /\ q.known = p.known
  BY <1>1 DEF Agree
<1>3. IsSeq(t) /\ Elems(t) \subseteq Elems(b) /\ e \in Elems(b)
  BY <1>1, Tailed DEF Migr
<1>4. \A k \in DOMAIN t : k \in Nat /\ k + 1 \in DOMAIN b /\ t[k] = b[k + 1] /\ k + 1 # 1
  <2>1. b \in Seq(Elems(b)) /\ b # <<>>
    BY DEF Migr, IsSeq
  <2> QED
    BY <2>1
<1>5. 1 \in DOMAIN b /\ e = b[1]
  <2>1. b \in Seq(Elems(b)) /\ b # <<>>
    BY DEF Migr, IsSeq
  <2> QED
    BY <2>1
<1> HIDE DEF t, e
<1>6. \A k \in ToldAt(t) : k \in Nat /\ k + 1 \in ToldAt(b) /\ k + 1 # 1
  BY <1>4 DEF ToldAt
<1>7. One(ToldAt(t)) /\ (ToldAt(b) = {} => ToldAt(t) = {})
  <2>1. ASSUME NEW j \in ToldAt(t), NEW k \in ToldAt(t) PROVE j = k
    <3>1. j + 1 = k + 1 /\ j \in Nat /\ k \in Nat
      BY <1>6 DEF Migr, Sole, One
    <3> QED
      BY <3>1
  <2> QED
    BY <1>6, <2>1 DEF One
<1>8. Sole(q.sent, q.inbox) /\ (Idle(p) => Idle(q))
  BY <1>1, <1>2, <1>7 DEF Migr, Sole, Idle
<1>9. Migr(q, x)
  BY <1>1, <1>2, <1>3, <1>8 DEF Migr
<1>10. ASSUME e.kind = "answer", e.call.use = "migrate" PROVE Idle(q) /\ q.migration = "running"
  <2>1. 1 \in ToldAt(b)
    BY <1>5, <1>10 DEF ToldAt
  <2>2. ToldAt(t) = {}
    BY <1>6, <2>1 DEF Migr, Sole, One
  <2> QED
    BY <1>1, <1>2, <2>1, <2>2 DEF Migr, Sole, Idle
<1> QED
  BY <1>2, <1>3, <1>9, <1>10 DEF q, e

\* Deliver.
LEMMA DeliverRun ==
  ASSUME NEW x, Migr(popup, x), ~x.idle, IsSeq(x.old), None \notin Elems(x.old), NEW d, Good(popup, d), Deliver
  PROVE  Migr(popup', x)
<1> DEFINE q == [popup EXCEPT !.inbox = Tail(@)]  e == Head(popup.inbox)
<1>1. popup.inbox # <<>>
      /\ popup' = (IF e.kind # "answer" THEN Announced(q, e) ELSE Answered(q, e.call, e.result))
  BY DEF Deliver
<1>2. /\ Migr(q, x) /\ q.left = popup.left /\ q.known = popup.known /\ e \in Elems(popup.inbox)
      /\ e.kind = "answer" /\ e.call.use = "migrate" => Idle(q) /\ q.migration = "running"
  BY <1>1, InboxTailRun
<1>3. Reports(e, popup.left, popup.known, x) /\ InboxOk(e, Lit(popup), popup.detail.id, d)
  BY <1>2 DEF Good, Asks, AsksInbox, Migr
<1> HIDE DEF q, e
<1>4. CASE e.kind # "answer"
  BY <1>1, <1>2, <1>4, AnnouncedRun
<1>5. CASE e.kind = "answer" /\ Usual(e.call)
  <2>1. Kinds(e.call) /\ e.call.use # "dead"
    BY <1>3, <1>5 DEF InboxOk, CallOk, TokenChanged, Event
  <2> QED
    BY <1>1, <1>2, <1>5, <2>1, UsualAnswered
<1>6. CASE e.kind = "answer" /\ ~Usual(e.call)
  <2>1. e.call.use = "migrate" /\ e.call.what \in MigrationSteps /\ Resolved(e.call, e.result, q.left, q.known, x)
    BY <1>2, <1>3, <1>6 DEF Reports
  <2> QED
    BY <1>1, <1>2, <1>6, <2>1, StepAnswered
<1> QED
  BY <1>4, <1>5, <1>6

(***************************************************************************)
(* The invariant of the migration                                          *)
(***************************************************************************)
\* The behaviours in which the user changes no card.
Quiet == scene.may \cap {"addCard", "editCard", "deleteCard"} = {}

\* How the vault stands.
Moving == [cards |-> CardsIn(items.of), old |-> scene.local, alive |-> ~closed,
           idle |-> FALSE, left |-> <<>>, known |-> {}]

\* The inductive invariant of the migration.
CardsInv ==
    /\ Migr(popup, Moving)
    /\ local = scene.local \/ local = <<>>
    /\ local # scene.local => Elems(scene.local) \subseteq CardsIn(items.of)
    /\ ~closed => NoDoubles(items.of, scene.vault, scene.local)

\* The fields of Moving.
LEMMA MovingIs ==
  /\ Moving.cards = CardsIn(items.of) /\ Moving.old = scene.local /\ (Moving.alive <=> ~closed) /\ ~Moving.idle
BY DEF Moving

\* The old cards are a sequence of cards.
LEMMA OldCards ==
  ASSUME WorkerOk
  PROVE  IsSeq(scene.local) /\ None \notin Elems(scene.local)
<1>1. scene.local \in Seq(Card)
  BY ConstantAssumption DEF WorkerOk
<1>2. Elems(scene.local) \subseteq Card
  BY <1>1 DEF Elems
<1>3. DOMAIN scene.local = 1 .. Len(scene.local) /\ Len(scene.local) \in Nat
  BY <1>1
<1>4. IsSeq(scene.local)
  BY <1>1, <1>3, SeqDef DEF IsSeq, Elems
<1> QED
  BY <1>2, <1>4, ConstantAssumption

\* The invariant holds initially.
LEMMA CardsInit == Init => (Quiet => CardsInv)
<1> SUFFICES ASSUME Init PROVE CardsInv
  OBVIOUS
<1>1. /\ local = scene.local /\ items = [changes |-> 0, of |-> scene.vault] /\ closed = FALSE
      /\ popup = Opened(scene.resume, <<>>)
  BY DEF Init
<1> DEFINE c == Request("bootstrap", "boot", None, None)
<1>2. /\ DOMAIN popup = Field /\ popup.sent = Append(<<>>, c) /\ popup.waiting = <<>> /\ popup.inbox = <<>>
      /\ popup.dialogs = {} /\ popup.migration = "no" /\ popup.known = {}
  BY <1>1 DEF Opened, Send, SendCall, Field
<1>3. Usual(c)
  BY RequestUsual DEF ItemMutations
<1> HIDE DEF c
<1>4. IsSeq(<<>>) /\ Elems(<<>>) = {} /\ ToldAt(<<>>) = {} /\ AskedAt(<<>>) = {}
  BY EmptySeq DEF IsSeq, Elems, ToldAt, AskedAt
<1>5. IsSeq(popup.sent) /\ \A k \in Elems(popup.sent) : k = c
  <2> DEFINE z == <<>>
  <2>1. IsSeq(z) /\ Elems(z) = {} /\ popup.sent = Append(z, c)
    BY <1>2, <1>4
  <2> HIDE DEF z
  <2> QED
    BY <2>1, Appended
<1>6. AskedAt(popup.sent) = {}
  BY <1>2, <1>3, <1>4, AskedAfter DEF Usual
<1>7. Sole(popup.sent, popup.inbox) /\ Idle(popup)
  BY <1>2, <1>4, <1>6 DEF Sole, Idle, One
<1>8. Migr(popup, Moving)
  BY <1>2, <1>3, <1>4, <1>5, <1>7, MovingIs DEF Migr
<1>9. NoDoubles(items.of, scene.vault, scene.local)
  BY <1>1 DEF NoDoubles
<1> QED
  BY <1>1, <1>8, <1>9 DEF CardsInv

\* A step that changes no card.
LEMMA CardsStay ==
  ASSUME CardsInv, UNCHANGED <<items, local, scene, closed>>, Migr(popup', Moving)
  PROVE  CardsInv'
<1>1. Moving' = Moving
  BY DEF Moving, CardsIn
<1>2. Elems(scene.local)' = Elems(scene.local) /\ CardsIn(items.of)' = CardsIn(items.of)
  BY DEF Elems, CardsIn
<1>3. (~closed)' => NoDoubles(items.of, scene.vault, scene.local)'
  BY <1>2 DEF CardsInv, NoDoubles
<1>4. Migr(popup', Moving')
  BY <1>1
<1>5. local' = scene.local' \/ local' = <<>>
  BY DEF CardsInv
<1>6. local' # scene.local' => Elems(scene.local)' \subseteq CardsIn(items.of)'
  BY <1>2 DEF CardsInv
<1> QED
  BY <1>3, <1>4, <1>5, <1>6 DEF CardsInv

\* What the worker does keeps it.
LEMMA ServeCards ==
  ASSUME CardsInv, WorkerOk, Serve
  PROVE  CardsInv'
<1>1. PICK i \in DOMAIN popup.sent :
        Read(i) \/ ReadItems(i) \/ AnswerItems(i) \/ BeginMutation(i) \/ EndMutation(i)
        \/ MutateItem(i) \/ ForgetLocal(i) \/ ServeLogin(i) \/ RefuseLogin(i) \/ ServeLogout(i)
  BY DEF Serve
<1> DEFINE x == Moving
<1>2. /\ Migr(popup, x) /\ x.cards = CardsIn(items.of) /\ x.old = scene.local /\ (x.alive <=> ~closed) /\ ~x.idle
      /\ local = x.old \/ local = <<>>
  BY MovingIs DEF CardsInv
<1>3. IsSeq(x.old) /\ None \notin Elems(x.old)
  BY <1>2, OldCards
<1> HIDE DEF x
<1>4. CASE Read(i) \/ ReadItems(i) \/ AnswerItems(i)
  <2>1. UNCHANGED <<items, local, scene, closed>>
    BY <1>4 DEF Read, ReadItems, AnswerItems, worker, history
  <2>2. Migr(popup', x)
    BY <1>2, <1>4, ReadRun, ReadItemsRun, AnswerItemsRun
  <2> QED
    BY <2>1, <2>2, CardsStay DEF x
<1>5. CASE BeginMutation(i) \/ EndMutation(i)
  <2>1. UNCHANGED <<items, local, scene, closed>>
    BY <1>5 DEF BeginMutation, EndMutation, worker, history
  <2>2. Migr(popup', x)
    BY <1>2, <1>5, MutationRun
  <2> QED
    BY <2>1, <2>2, CardsStay DEF x
<1>6. CASE ServeLogin(i) \/ RefuseLogin(i) \/ ServeLogout(i)
  <2>1. UNCHANGED <<items, local, scene, closed>>
    BY <1>6 DEF ServeLogin, RefuseLogin, ServeLogout, worker, history
  <2>2. Migr(popup', x)
    BY <1>2, <1>6, TokensRun
  <2> QED
    BY <2>1, <2>2, CardsStay DEF x
<1>7. CASE ForgetLocal(i)
  <2>1. popup.sent[i].what = "forget local" /\ local' = <<>> /\ UNCHANGED <<items, scene, closed>>
    BY <1>7 DEF ForgetLocal, history
  <2>2. Migr(popup', x)
    BY <1>2, <1>7, TokensRun
  <2>3. Elems(x.old) \subseteq x.cards
    <3>1. Asking(popup.sent[i], popup.left, popup.known, x) \/ Orphan(popup.sent[i], x)
      BY <1>2, <2>1, CallIs DEF Usual
    <3> QED
      BY <2>1, <3>1 DEF Asking, Orphan
  <2>4. Moving' = Moving
    BY <2>1 DEF Moving, CardsIn
  <2>5. Elems(scene.local) \subseteq CardsIn(items.of)
    BY <1>2, <2>3
  <2>6. ~closed => NoDoubles(items.of, scene.vault, scene.local)
    BY DEF CardsInv
  <2>7. Elems(scene.local)' = Elems(scene.local) /\ CardsIn(items.of)' = CardsIn(items.of)
    BY <2>1 DEF Elems, CardsIn
  <2>8. (~closed)' => NoDoubles(items.of, scene.vault, scene.local)'
    BY <2>1, <2>6, <2>7 DEF NoDoubles
  <2>9. Migr(popup', Moving')
    BY <2>2, <2>4 DEF x
  <2> QED
    BY <2>1, <2>5, <2>7, <2>8, <2>9 DEF CardsInv
<1>8. CASE MutateItem(i)
  <2> DEFINE y == Moving'  was == scene.vault
  <2>1. UNCHANGED <<local, scene, closed>>
    BY <1>8 DEF MutateItem, history
  <2>2. y.cards = CardsIn(items'.of) /\ y.old = x.old /\ y.alive = x.alive /\ ~y.idle
    BY <2>1 DEF Moving, x, CardsIn
  <2> HIDE DEF y, was
  <2>3. /\ Migr(popup', y) /\ x.cards \subseteq y.cards
        /\ x.alive /\ NoDoubles(items.of, was, x.old) => NoDoubles(items'.of, was, x.old)
    BY <1>2, <1>3, <1>8, <2>2, MutateItemRun
  <2>4. CardsIn(items.of) \subseteq CardsIn(items'.of)
    BY <1>2, <2>2, <2>3
  <2>5. Elems(scene.local)' = Elems(scene.local)
    BY <2>1 DEF Elems
  <2>6. local' # scene.local' => Elems(scene.local) \subseteq CardsIn(items'.of)
    BY <2>1, <2>4 DEF CardsInv
  <2>7. ~closed => NoDoubles(items'.of, scene.vault, scene.local)
    BY <1>2, <2>3 DEF CardsInv, was
  <2>8. local' = scene.local' \/ local' = <<>>
    BY <2>1 DEF CardsInv
  <2> QED
    BY <2>1, <2>3, <2>5, <2>6, <2>7, <2>8 DEF CardsInv, y, CardsIn, NoDoubles
<1> QED
  BY <1>1, <1>4, <1>5, <1>6, <1>7, <1>8

\* What happens outside keeps it.
LEMMA OutsideCards ==
  ASSUME CardsInv, Outside
  PROVE  CardsInv'
<1> DEFINE x == Moving
<1>1. Migr(popup, x) /\ ~x.idle
  BY MovingIs DEF CardsInv
<1> HIDE DEF x
<1>2. CASE Age \/ Expire \/ Clear \/ (\E l \in Login : Refresh(l)) \/ (\E i \in DOMAIN popup.sent : Fail(i))
  <2>1. UNCHANGED <<items, local, scene, closed>>
    BY <1>2 DEF Age, Expire, Clear, Refresh, Fail, Changed, Act, worker, history
  <2>2. Migr(popup', x)
    BY <1>1, <1>2, OutsideRun
  <2> QED
    BY <2>1, <2>2, CardsStay DEF x
<1>3. CASE CloseAndOpen
  <2> DEFINE y == Moving'
  <2>1. UNCHANGED <<items, local, scene>> /\ closed'
    BY <1>3 DEF CloseAndOpen, Act, worker
  <2>2. y.cards = x.cards /\ y.old = x.old /\ ~y.alive /\ ~y.idle
    BY <2>1 DEF Moving, x, CardsIn
  <2> HIDE DEF y
  <2>3. Migr(popup', y)
    BY <1>1, <1>3, <2>2, CloseRun
  <2> QED
    BY <2>1, <2>3 DEF CardsInv, y, CardsIn, Elems
<1> QED
  BY <1>2, <1>3 DEF Outside

\* Every step keeps it.
LEMMA CardsStep ==
  ASSUME ViewInv, CardsInv, Quiet, [Next]_vars
  PROVE  CardsInv'
<1> DEFINE x == Moving
<1>1. Migr(popup, x) /\ x.old = scene.local /\ ~x.idle
  BY MovingIs DEF CardsInv
<1>2. WorkerOk /\ Good(popup, AllD)
  BY DEF ViewInv
<1> HIDE DEF x
<1>3. CASE User \/ Timers \/ GoOn
  <2>1. UNCHANGED <<items, local, scene, closed>>
    BY <1>3, UserOutside DEF Timers, ListExpires, DetailExpires, FormExpires, GoOn, Changed, worker, history
  <2>2. Migr(popup', x)
    BY <1>1, <1>2, <1>3, UserRun, TimersRun, GoOnRun DEF Quiet
  <2> QED
    BY <2>1, <2>2, CardsStay DEF x
<1>4. CASE Deliver
  <2>1. UNCHANGED <<items, local, scene, closed>>
    BY <1>4 DEF Deliver, worker, history
  <2>2. Migr(popup', x)
    BY <1>1, <1>2, <1>4, OldCards, DeliverRun
  <2> QED
    BY <2>1, <2>2, CardsStay DEF x
<1>5. CASE UNCHANGED vars
  <2>1. UNCHANGED <<items, local, scene, closed>> /\ popup' = popup
    BY <1>5 DEF vars, worker, history
  <2> QED
    BY <1>1, <2>1, CardsStay DEF x
<1>6. CASE Serve \/ Outside
  BY <1>2, <1>6, ServeCards, OutsideCards
<1> QED
  BY <1>3, <1>4, <1>5, <1>6 DEF Next

\* What may happen is decided at the start.
LEMMA SceneStays == [Next]_vars => UNCHANGED scene
<1> SUFFICES ASSUME [Next]_vars PROVE UNCHANGED scene
  OBVIOUS
<1>1. CASE User
  BY <1>1, UserOutside
<1>2. CASE Serve
  BY <1>2 DEF Serve, Read, ReadItems, AnswerItems, BeginMutation, EndMutation, MutateItem, ForgetLocal, ServeLogin,
              RefuseLogin, ServeLogout
<1>3. CASE Outside
  BY <1>3 DEF Outside, Age, Expire, Clear, Refresh, Fail, CloseAndOpen, Act
<1>4. CASE GoOn \/ Deliver \/ Timers \/ UNCHANGED vars
  BY <1>4 DEF GoOn, Deliver, Timers, ListExpires, DetailExpires, FormExpires, vars
<1> QED
  BY <1>1, <1>2, <1>3, <1>4 DEF Next

\* The migration loses no card, and as long as the popup stays open it adds no second copy
\* of one, whatever fails, and whether the session is lost meanwhile
\* (migrateLocalItems, listVaultEntities).
THEOREM CardsAreMigrated == Spec => []CardsMigrated
<1> DEFINE Inv == ViewInv /\ (Quiet => CardsInv)
<1>1. Init => Inv
  BY ViewInit, CardsInit
<1>2. Inv /\ [Next]_vars => Inv'
  BY ViewStep, CardsStep, SceneStays DEF Quiet
<1>3. Inv => CardsMigrated
  <2> SUFFICES ASSUME ViewInv, CardsInv, NEW n \in DOMAIN scene.local
               PROVE  LET copies == {i \in Item : items.of[i] = scene.local[n]} IN
                      /\ copies # {} \/ local # <<>>
                      /\ closed \/ copies = {i \in Item : scene.vault[i] = scene.local[n]} \/ Cardinality(copies) <= 1
    BY DEF CardsMigrated, Quiet
  <2> DEFINE v == scene.local[n]  copies == {i \in Item : items.of[i] = v}
  <2>1. v \in Elems(scene.local)
    BY DEF Elems
  <2>2. v \in CardsIn(items.of) => copies # {}
    BY DEF CardsIn
  <2>3. local = <<>> => local # scene.local
    <3>1. scene.local # <<>>
      OBVIOUS
    <3> QED
      BY <3>1
  <2>4. copies # {} \/ local # <<>>
    BY <2>1, <2>2, <2>3 DEF CardsInv
  <2>5. ASSUME ~closed PROVE copies = {i \in Item : scene.vault[i] = v} \/ Cardinality(copies) <= 1
    <3>1. \/ \A i \in Item : items.of[i] = v <=> scene.vault[i] = v
          \/ \A i \in Item, j \in Item : items.of[i] = v /\ items.of[j] = v => i = j
      BY <2>1, <2>5 DEF CardsInv, NoDoubles
    <3>2. ASSUME \A i \in Item, j \in Item : items.of[i] = v /\ items.of[j] = v => i = j
          PROVE  Cardinality(copies) <= 1
      <4>1. CASE copies = {}
        BY <4>1, FS_EmptySet
      <4>2. CASE copies # {}
        <5>1. PICK i : i \in copies
          BY <4>2
        <5>2. copies = {i}
          BY <3>2, <5>1
        <5>3. Cardinality({i}) = 1
          BY FS_Singleton
        <5> QED
          BY <5>2, <5>3
      <4> QED
        BY <4>1, <4>2
    <3> QED
      BY <3>1, <3>2
  <2> QED
    BY <2>4, <2>5
<1> QED
  BY <1>1, <1>2, <1>3, PTL DEF Spec
=============================================================================
