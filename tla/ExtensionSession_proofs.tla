----------------------- MODULE ExtensionSession_proofs -----------------------
(***************************************************************************)
(* Proofs about ExtensionSession, for every number of handlers, logins and *)
(* changes: its type, that a lock leaves nothing, and that credential      *)
(* metadata is never older than the extension's own change.                *)
(***************************************************************************)
EXTENDS ExtensionSession, FiniteSetTheorems, TLAPS

(***************************************************************************)
(* The labels a handler still has to run.  A method that awaits another    *)
(* one puts that one's labels before its own, so what may be said of the   *)
(* whole sequence is which labels come right before or right after one.    *)
(***************************************************************************)
Label == {"load", "get mode", "read session", "read local", "read deadline", "set token",
          "remove deadline", "clear alarm", "unset alarm", "create alarm", "set deadline",
          "minutes", "new deadline", "clear token", "clear popup", "clear metadata", "wait",
          "remove session", "remove local", "cleared", "log in", "login", "save token",
          "use token", "validate", "look up", "read stored", "serve", "receive",
          "send", "apply", "answer", "mutated"}

Todo(p) == handler[p].todo

\* Label x comes d places before place i, if there is such a place, or after.
Before(todo, i, d, x) == i > d => todo[i - d] = x
After(todo, i, d, x) == i + d \in DOMAIN todo /\ todo[i + d] = x

\* Place i ends a lock, the part of a login that stores the token, or a change.
EndsLock(todo, i) ==
    /\ Before(todo, i, 1, "clear alarm") /\ Before(todo, i, 2, "remove deadline")
    /\ Before(todo, i, 3, "remove local") /\ Before(todo, i, 4, "remove session")
    /\ Before(todo, i, 5, "wait") /\ Before(todo, i, 6, "clear metadata")
    /\ Before(todo, i, 7, "clear popup") /\ Before(todo, i, 8, "clear token")
EndsLogin(todo, i) ==
    /\ i <= 9
    /\ Before(todo, i, 1, "save token") /\ Before(todo, i, 2, "get mode")
    /\ Before(todo, i, 3, "wait") /\ Before(todo, i, 4, "clear metadata")
    /\ Before(todo, i, 5, "clear popup") /\ Before(todo, i, 6, "login")
    /\ Before(todo, i, 7, "log in") /\ Before(todo, i, 8, "get mode")
EndsChange(todo, i) ==
    /\ Before(todo, i, 1, "wait") /\ Before(todo, i, 2, "clear metadata")
    /\ Before(todo, i, 3, "answer") /\ Before(todo, i, 4, "apply")
    /\ Before(todo, i, 5, "send") /\ Before(todo, i, 6, "wait")
    /\ Before(todo, i, 7, "clear metadata")

Rules(todo, i) ==
    /\ todo[i] = "load" => i = 1
    /\ todo[i] = "read session" => After(todo, i, 1, "read local")
    /\ todo[i] = "cleared" => EndsLock(todo, i)
    /\ todo[i] = "clear token" => After(todo, i, 8, "cleared")
    /\ todo[i] = "use token" => EndsLogin(todo, i)
    /\ todo[i] = "login" => After(todo, i, 6, "use token")
    /\ todo[i] = "save token" => After(todo, i, 1, "use token")
    /\ todo[i] = "clear metadata" => After(todo, i, 1, "wait")
    /\ todo[i] = "mutated" => EndsChange(todo, i)
    /\ todo[i] = "receive" => Before(todo, i, 1, "serve")
Formed(todo) == \A i \in DOMAIN todo : Rules(todo, i)

\* Labels that end nothing of what was under way.
CalmAt(todo, i) ==
    /\ todo[i] = "cleared" => i > 8
    /\ todo[i] = "mutated" => i > 7
    /\ todo[i] = "receive" => i > 1
Calm(todo) == \A i \in DOMAIN todo : CalmAt(todo, i)
Free(todo) == \A i \in DOMAIN todo : CalmAt(todo, i) /\ todo[i] # "load" /\ todo[i] # "use token"

\* The labels that come before another one by these rules.
Chain == {"clear alarm", "remove deadline", "remove local", "remove session", "wait",
          "clear metadata", "clear popup", "clear token", "save token", "get mode", "login",
          "log in", "answer", "apply", "send", "serve"}

LEMMA LabelNames ==
    /\ "load" \in Label /\ "get mode" \in Label /\ "read session" \in Label /\ "read local" \in Label
    /\ "read deadline" \in Label /\ "set token" \in Label /\ "remove deadline" \in Label
    /\ "clear alarm" \in Label /\ "unset alarm" \in Label /\ "create alarm" \in Label
    /\ "set deadline" \in Label /\ "minutes" \in Label /\ "new deadline" \in Label
    /\ "clear token" \in Label /\ "clear popup" \in Label /\ "clear metadata" \in Label
    /\ "wait" \in Label /\ "remove session" \in Label /\ "remove local" \in Label
    /\ "cleared" \in Label /\ "log in" \in Label /\ "login" \in Label /\ "save token" \in Label
    /\ "use token" \in Label /\ "validate" \in Label /\ "look up" \in Label /\ "read stored" \in Label
    /\ "serve" \in Label /\ "receive" \in Label /\ "send" \in Label /\ "apply" \in Label
    /\ "answer" \in Label /\ "mutated" \in Label
  BY DEF Label

\* Short sequences.
LEMMA One == \A S : \A a \in S : <<a>> \in Seq(S) /\ Len(<<a>>) = 1 /\ <<a>>[1] = a
  OBVIOUS
LEMMA Two == \A S : \A a, b \in S :
    <<a, b>> \in Seq(S) /\ Len(<<a, b>>) = 2 /\ <<a, b>>[1] = a /\ <<a, b>>[2] = b
  OBVIOUS
LEMMA Three == \A S : \A a, b, c \in S :
    /\ <<a, b, c>> \in Seq(S) /\ Len(<<a, b, c>>) = 3
    /\ <<a, b, c>>[1] = a /\ <<a, b, c>>[2] = b /\ <<a, b, c>>[3] = c
  OBVIOUS
LEMMA Four == \A S : \A a, b, c, d \in S :
    /\ <<a, b, c, d>> \in Seq(S) /\ Len(<<a, b, c, d>>) = 4
    /\ <<a, b, c, d>>[1] = a /\ <<a, b, c, d>>[2] = b /\ <<a, b, c, d>>[3] = c /\ <<a, b, c, d>>[4] = d
  OBVIOUS

LEMMA Cat ==
    ASSUME NEW s \in Seq(Label), NEW t \in Seq(Label)
    PROVE  /\ (s \o t) \in Seq(Label) /\ Len(s \o t) = Len(s) + Len(t)
           /\ \A i \in 1 .. Len(s) : (s \o t)[i] = s[i]
           /\ \A i \in 1 .. Len(t) : (s \o t)[Len(s) + i] = t[i]
  OBVIOUS

LEMMA IsClearMetadata ==
    /\ ClearMetadata \in Seq(Label) /\ Len(ClearMetadata) = 2
    /\ ClearMetadata[1] = "clear metadata" /\ ClearMetadata[2] = "wait"
  BY LabelNames, Two, Zenon DEF ClearMetadata

LEMMA IsForgetDeadline ==
    /\ ForgetDeadline \in Seq(Label) /\ Len(ForgetDeadline) = 2
    /\ ForgetDeadline[1] = "remove deadline" /\ ForgetDeadline[2] = "clear alarm"
  BY LabelNames, Two, Zenon DEF ForgetDeadline

LEMMA IsSchedule ==
    /\ Schedule \in Seq(Label) /\ Len(Schedule) = 2
    /\ Schedule[1] = "unset alarm" /\ Schedule[2] = "create alarm"
  BY LabelNames, Two, Zenon DEF Schedule

LEMMA IsResetAutoLock ==
    /\ ResetAutoLock \in Seq(Label) /\ Len(ResetAutoLock) = 2
    /\ ResetAutoLock[1] = "get mode" /\ ResetAutoLock[2] = "set deadline"
  BY LabelNames, Two, Zenon DEF ResetAutoLock

LEMMA IsLoad ==
    /\ Load \in Seq(Label) /\ Len(Load) = 4
    /\ Load[1] = "load" /\ Load[2] = "get mode" /\ Load[3] = "read session"
    /\ Load[4] = "read local"
  BY LabelNames, Four, Zenon DEF Load

LEMMA IsClearCache ==
    /\ ClearCache \in Seq(Label) /\ Len(ClearCache) = 3
    /\ ClearCache[1] = "clear popup" /\ ClearCache[2] = "clear metadata"
    /\ ClearCache[3] = "wait"
<1> DEFINE s1 == <<"clear popup">>
           u1 == s1 \o ClearMetadata
<1>1. s1 \in Seq(Label) /\ Len(s1) = 1 /\ s1[1] = "clear popup"
  BY LabelNames, One, Zenon
<1>2. ClearCache = u1
  BY Zenon DEF ClearCache
<1> HIDE DEF s1
<1>3. s1 \in Seq(Label) /\ ClearMetadata \in Seq(Label)
  BY <1>1, IsClearMetadata, Zenon
<1>4. Len(s1) = 1 /\ Len(ClearMetadata) = 2
  BY <1>1, IsClearMetadata, Zenon
<1>5. /\ u1 \in Seq(Label) /\ Len(u1) = Len(s1) + Len(ClearMetadata)
      /\ \A i \in 1 .. Len(s1) : u1[i] = s1[i]
      /\ \A i \in 1 .. Len(ClearMetadata) : u1[Len(s1) + i] = ClearMetadata[i]
  BY <1>3, Cat, Zenon
<1> HIDE DEF u1
<1>6. /\ Len(u1) = 3
      /\ u1[1] = s1[1] /\ u1[2] = ClearMetadata[1] /\ u1[3] = ClearMetadata[2]
  BY <1>5, <1>4
<1>7. /\ u1[1] = "clear popup" /\ u1[2] = "clear metadata" /\ u1[3] = "wait"
  BY <1>6, <1>1, IsClearMetadata, Zenon
<1> QED
  BY <1>2, <1>5, <1>6, <1>7, Zenon

LEMMA IsClearToken ==
    /\ ClearToken \in Seq(Label) /\ Len(ClearToken) = 9
    /\ ClearToken[1] = "clear token" /\ ClearToken[2] = "clear popup"
    /\ ClearToken[3] = "clear metadata" /\ ClearToken[4] = "wait"
    /\ ClearToken[5] = "remove session" /\ ClearToken[6] = "remove local"
    /\ ClearToken[7] = "remove deadline" /\ ClearToken[8] = "clear alarm"
    /\ ClearToken[9] = "cleared"
<1> DEFINE s1 == <<"clear token">>
           s2 == <<"remove session", "remove local">>
           s3 == <<"cleared">>
           u1 == s1 \o ClearCache
           u2 == u1 \o s2
           u3 == u2 \o ForgetDeadline
           u4 == u3 \o s3
<1>1. s1 \in Seq(Label) /\ Len(s1) = 1 /\ s1[1] = "clear token"
  BY LabelNames, One, Zenon
<1>2. s2 \in Seq(Label) /\ Len(s2) = 2 /\ s2[1] = "remove session" /\ s2[2] = "remove local"
  BY LabelNames, Two, Zenon
<1>3. s3 \in Seq(Label) /\ Len(s3) = 1 /\ s3[1] = "cleared"
  BY LabelNames, One, Zenon
<1>4. ClearToken = u4
  BY Zenon DEF ClearToken
<1> HIDE DEF s1, s2, s3
<1>5. s1 \in Seq(Label) /\ ClearCache \in Seq(Label) /\ s2 \in Seq(Label) /\ ForgetDeadline \in Seq(Label) /\ s3 \in Seq(Label)
  BY <1>1, <1>2, <1>3, IsClearCache, IsForgetDeadline, Zenon
<1>6. Len(s1) = 1 /\ Len(ClearCache) = 3 /\ Len(s2) = 2 /\ Len(ForgetDeadline) = 2 /\ Len(s3) = 1
  BY <1>1, <1>2, <1>3, IsClearCache, IsForgetDeadline, Zenon
<1>7. /\ u1 \in Seq(Label) /\ Len(u1) = Len(s1) + Len(ClearCache)
      /\ \A i \in 1 .. Len(s1) : u1[i] = s1[i]
      /\ \A i \in 1 .. Len(ClearCache) : u1[Len(s1) + i] = ClearCache[i]
  BY <1>5, Cat, Zenon
<1> HIDE DEF u1
<1>8. /\ Len(u1) = 4
      /\ u1[1] = s1[1] /\ u1[2] = ClearCache[1] /\ u1[3] = ClearCache[2]
      /\ u1[4] = ClearCache[3]
  BY <1>7, <1>6
<1>9. /\ u1[1] = "clear token" /\ u1[2] = "clear popup" /\ u1[3] = "clear metadata"
      /\ u1[4] = "wait"
  BY <1>8, <1>1, IsClearCache, Zenon
<1>10. /\ u2 \in Seq(Label) /\ Len(u2) = Len(u1) + Len(s2)
       /\ \A i \in 1 .. Len(u1) : u2[i] = u1[i]
       /\ \A i \in 1 .. Len(s2) : u2[Len(u1) + i] = s2[i]
  BY <1>5, <1>7, Cat, Zenon
<1> HIDE DEF u2
<1>11. /\ Len(u2) = 6
       /\ u2[1] = u1[1] /\ u2[2] = u1[2] /\ u2[3] = u1[3] /\ u2[4] = u1[4] /\ u2[5] = s2[1]
       /\ u2[6] = s2[2]
  BY <1>10, <1>6, <1>8
<1>12. /\ u2[1] = "clear token" /\ u2[2] = "clear popup" /\ u2[3] = "clear metadata"
       /\ u2[4] = "wait" /\ u2[5] = "remove session" /\ u2[6] = "remove local"
  BY <1>11, <1>9, <1>2, Zenon
<1>13. /\ u3 \in Seq(Label) /\ Len(u3) = Len(u2) + Len(ForgetDeadline)
       /\ \A i \in 1 .. Len(u2) : u3[i] = u2[i]
       /\ \A i \in 1 .. Len(ForgetDeadline) : u3[Len(u2) + i] = ForgetDeadline[i]
  BY <1>5, <1>10, Cat, Zenon
<1> HIDE DEF u3
<1>14. /\ Len(u3) = 8
       /\ u3[1] = u2[1] /\ u3[2] = u2[2] /\ u3[3] = u2[3] /\ u3[4] = u2[4] /\ u3[5] = u2[5]
       /\ u3[6] = u2[6] /\ u3[7] = ForgetDeadline[1] /\ u3[8] = ForgetDeadline[2]
  BY <1>13, <1>6, <1>11
<1>15. /\ u3[1] = "clear token" /\ u3[2] = "clear popup" /\ u3[3] = "clear metadata"
       /\ u3[4] = "wait" /\ u3[5] = "remove session" /\ u3[6] = "remove local"
       /\ u3[7] = "remove deadline" /\ u3[8] = "clear alarm"
  BY <1>14, <1>12, IsForgetDeadline, Zenon
<1>16. /\ u4 \in Seq(Label) /\ Len(u4) = Len(u3) + Len(s3)
       /\ \A i \in 1 .. Len(u3) : u4[i] = u3[i]
       /\ \A i \in 1 .. Len(s3) : u4[Len(u3) + i] = s3[i]
  BY <1>5, <1>13, Cat, Zenon
<1> HIDE DEF u4
<1>17. /\ Len(u4) = 9
       /\ u4[1] = u3[1] /\ u4[2] = u3[2] /\ u4[3] = u3[3] /\ u4[4] = u3[4] /\ u4[5] = u3[5]
       /\ u4[6] = u3[6] /\ u4[7] = u3[7] /\ u4[8] = u3[8] /\ u4[9] = s3[1]
  BY <1>16, <1>6, <1>14
<1>18. /\ u4[1] = "clear token" /\ u4[2] = "clear popup" /\ u4[3] = "clear metadata"
       /\ u4[4] = "wait" /\ u4[5] = "remove session" /\ u4[6] = "remove local"
       /\ u4[7] = "remove deadline" /\ u4[8] = "clear alarm" /\ u4[9] = "cleared"
  BY <1>17, <1>15, <1>3, Zenon
<1> QED
  BY <1>4, <1>16, <1>17, <1>18, Zenon

LEMMA IsLogin ==
    /\ Login \in Seq(Label) /\ Len(Login) = 11
    /\ Login[1] = "get mode" /\ Login[2] = "log in" /\ Login[3] = "login"
    /\ Login[4] = "clear popup" /\ Login[5] = "clear metadata" /\ Login[6] = "wait"
    /\ Login[7] = "get mode" /\ Login[8] = "save token" /\ Login[9] = "use token"
    /\ Login[10] = "get mode" /\ Login[11] = "set deadline"
<1> DEFINE s1 == <<"get mode", "log in", "login">>
           s2 == <<"get mode", "save token", "use token">>
           u1 == s1 \o ClearCache
           u2 == u1 \o s2
           u3 == u2 \o ResetAutoLock
<1>1. s1 \in Seq(Label) /\ Len(s1) = 3 /\ s1[1] = "get mode" /\ s1[2] = "log in" /\ s1[3] = "login"
  BY LabelNames, Three, Zenon
<1>2. s2 \in Seq(Label) /\ Len(s2) = 3 /\ s2[1] = "get mode" /\ s2[2] = "save token" /\ s2[3] = "use token"
  BY LabelNames, Three, Zenon
<1>3. Login = u3
  BY Zenon DEF Login
<1> HIDE DEF s1, s2
<1>4. s1 \in Seq(Label) /\ ClearCache \in Seq(Label) /\ s2 \in Seq(Label) /\ ResetAutoLock \in Seq(Label)
  BY <1>1, <1>2, IsClearCache, IsResetAutoLock, Zenon
<1>5. Len(s1) = 3 /\ Len(ClearCache) = 3 /\ Len(s2) = 3 /\ Len(ResetAutoLock) = 2
  BY <1>1, <1>2, IsClearCache, IsResetAutoLock, Zenon
<1>6. /\ u1 \in Seq(Label) /\ Len(u1) = Len(s1) + Len(ClearCache)
      /\ \A i \in 1 .. Len(s1) : u1[i] = s1[i]
      /\ \A i \in 1 .. Len(ClearCache) : u1[Len(s1) + i] = ClearCache[i]
  BY <1>4, Cat, Zenon
<1> HIDE DEF u1
<1>7. /\ Len(u1) = 6
      /\ u1[1] = s1[1] /\ u1[2] = s1[2] /\ u1[3] = s1[3] /\ u1[4] = ClearCache[1]
      /\ u1[5] = ClearCache[2] /\ u1[6] = ClearCache[3]
  BY <1>6, <1>5
<1>8. /\ u1[1] = "get mode" /\ u1[2] = "log in" /\ u1[3] = "login" /\ u1[4] = "clear popup"
      /\ u1[5] = "clear metadata" /\ u1[6] = "wait"
  BY <1>7, <1>1, IsClearCache, Zenon
<1>9. /\ u2 \in Seq(Label) /\ Len(u2) = Len(u1) + Len(s2)
      /\ \A i \in 1 .. Len(u1) : u2[i] = u1[i]
      /\ \A i \in 1 .. Len(s2) : u2[Len(u1) + i] = s2[i]
  BY <1>4, <1>6, Cat, Zenon
<1> HIDE DEF u2
<1>10. /\ Len(u2) = 9
       /\ u2[1] = u1[1] /\ u2[2] = u1[2] /\ u2[3] = u1[3] /\ u2[4] = u1[4] /\ u2[5] = u1[5]
       /\ u2[6] = u1[6] /\ u2[7] = s2[1] /\ u2[8] = s2[2] /\ u2[9] = s2[3]
  BY <1>9, <1>5, <1>7
<1>11. /\ u2[1] = "get mode" /\ u2[2] = "log in" /\ u2[3] = "login" /\ u2[4] = "clear popup"
       /\ u2[5] = "clear metadata" /\ u2[6] = "wait" /\ u2[7] = "get mode"
       /\ u2[8] = "save token" /\ u2[9] = "use token"
  BY <1>10, <1>8, <1>2, Zenon
<1>12. /\ u3 \in Seq(Label) /\ Len(u3) = Len(u2) + Len(ResetAutoLock)
       /\ \A i \in 1 .. Len(u2) : u3[i] = u2[i]
       /\ \A i \in 1 .. Len(ResetAutoLock) : u3[Len(u2) + i] = ResetAutoLock[i]
  BY <1>4, <1>9, Cat, Zenon
<1> HIDE DEF u3
<1>13. /\ Len(u3) = 11
       /\ u3[1] = u2[1] /\ u3[2] = u2[2] /\ u3[3] = u2[3] /\ u3[4] = u2[4] /\ u3[5] = u2[5]
       /\ u3[6] = u2[6] /\ u3[7] = u2[7] /\ u3[8] = u2[8] /\ u3[9] = u2[9]
       /\ u3[10] = ResetAutoLock[1] /\ u3[11] = ResetAutoLock[2]
  BY <1>12, <1>5, <1>10
<1>14. /\ u3[1] = "get mode" /\ u3[2] = "log in" /\ u3[3] = "login" /\ u3[4] = "clear popup"
       /\ u3[5] = "clear metadata" /\ u3[6] = "wait" /\ u3[7] = "get mode"
       /\ u3[8] = "save token" /\ u3[9] = "use token" /\ u3[10] = "get mode"
       /\ u3[11] = "set deadline"
  BY <1>13, <1>11, IsResetAutoLock, Zenon
<1> QED
  BY <1>3, <1>12, <1>13, <1>14, Zenon

LEMMA IsCredentials ==
    /\ Credentials \in Seq(Label) /\ Len(Credentials) = 5
    /\ Credentials[1] = "load" /\ Credentials[2] = "get mode"
    /\ Credentials[3] = "read session" /\ Credentials[4] = "read local"
    /\ Credentials[5] = "look up"
<1> DEFINE s1 == <<"look up">>
           u1 == Load \o s1
<1>1. s1 \in Seq(Label) /\ Len(s1) = 1 /\ s1[1] = "look up"
  BY LabelNames, One, Zenon
<1>2. Credentials = u1
  BY Zenon DEF Credentials
<1> HIDE DEF s1
<1>3. Load \in Seq(Label) /\ s1 \in Seq(Label)
  BY <1>1, IsLoad, Zenon
<1>4. Len(Load) = 4 /\ Len(s1) = 1
  BY <1>1, IsLoad, Zenon
<1>5. /\ u1 \in Seq(Label) /\ Len(u1) = Len(Load) + Len(s1)
      /\ \A i \in 1 .. Len(Load) : u1[i] = Load[i]
      /\ \A i \in 1 .. Len(s1) : u1[Len(Load) + i] = s1[i]
  BY <1>3, Cat, Zenon
<1> HIDE DEF u1
<1>6. /\ Len(u1) = 5
      /\ u1[1] = Load[1] /\ u1[2] = Load[2] /\ u1[3] = Load[3] /\ u1[4] = Load[4]
      /\ u1[5] = s1[1]
  BY <1>5, <1>4
<1>7. /\ u1[1] = "load" /\ u1[2] = "get mode" /\ u1[3] = "read session"
      /\ u1[4] = "read local" /\ u1[5] = "look up"
  BY <1>6, IsLoad, <1>1, Zenon
<1> QED
  BY <1>2, <1>5, <1>6, <1>7, Zenon

LEMMA IsIsUnlocked ==
    /\ IsUnlocked \in Seq(Label) /\ Len(IsUnlocked) = 7
    /\ IsUnlocked[1] = "load" /\ IsUnlocked[2] = "get mode" /\ IsUnlocked[3] = "read session"
    /\ IsUnlocked[4] = "read local" /\ IsUnlocked[5] = "validate"
    /\ IsUnlocked[6] = "get mode" /\ IsUnlocked[7] = "set deadline"
<1> DEFINE s1 == <<"validate">>
           u1 == Load \o s1
           u2 == u1 \o ResetAutoLock
<1>1. s1 \in Seq(Label) /\ Len(s1) = 1 /\ s1[1] = "validate"
  BY LabelNames, One, Zenon
<1>2. IsUnlocked = u2
  BY Zenon DEF IsUnlocked
<1> HIDE DEF s1
<1>3. Load \in Seq(Label) /\ s1 \in Seq(Label) /\ ResetAutoLock \in Seq(Label)
  BY <1>1, IsLoad, IsResetAutoLock, Zenon
<1>4. Len(Load) = 4 /\ Len(s1) = 1 /\ Len(ResetAutoLock) = 2
  BY <1>1, IsLoad, IsResetAutoLock, Zenon
<1>5. /\ u1 \in Seq(Label) /\ Len(u1) = Len(Load) + Len(s1)
      /\ \A i \in 1 .. Len(Load) : u1[i] = Load[i]
      /\ \A i \in 1 .. Len(s1) : u1[Len(Load) + i] = s1[i]
  BY <1>3, Cat, Zenon
<1> HIDE DEF u1
<1>6. /\ Len(u1) = 5
      /\ u1[1] = Load[1] /\ u1[2] = Load[2] /\ u1[3] = Load[3] /\ u1[4] = Load[4]
      /\ u1[5] = s1[1]
  BY <1>5, <1>4
<1>7. /\ u1[1] = "load" /\ u1[2] = "get mode" /\ u1[3] = "read session"
      /\ u1[4] = "read local" /\ u1[5] = "validate"
  BY <1>6, IsLoad, <1>1, Zenon
<1>8. /\ u2 \in Seq(Label) /\ Len(u2) = Len(u1) + Len(ResetAutoLock)
      /\ \A i \in 1 .. Len(u1) : u2[i] = u1[i]
      /\ \A i \in 1 .. Len(ResetAutoLock) : u2[Len(u1) + i] = ResetAutoLock[i]
  BY <1>3, <1>5, Cat, Zenon
<1> HIDE DEF u2
<1>9. /\ Len(u2) = 7
      /\ u2[1] = u1[1] /\ u2[2] = u1[2] /\ u2[3] = u1[3] /\ u2[4] = u1[4] /\ u2[5] = u1[5]
      /\ u2[6] = ResetAutoLock[1] /\ u2[7] = ResetAutoLock[2]
  BY <1>8, <1>4, <1>6
<1>10. /\ u2[1] = "load" /\ u2[2] = "get mode" /\ u2[3] = "read session"
       /\ u2[4] = "read local" /\ u2[5] = "validate" /\ u2[6] = "get mode"
       /\ u2[7] = "set deadline"
  BY <1>9, <1>7, IsResetAutoLock, Zenon
<1> QED
  BY <1>2, <1>8, <1>9, <1>10, Zenon

LEMMA IsMutate ==
    /\ Mutate \in Seq(Label) /\ Len(Mutate) = 10
    /\ Mutate[1] = "get mode" /\ Mutate[2] = "set deadline" /\ Mutate[3] = "clear metadata"
    /\ Mutate[4] = "wait" /\ Mutate[5] = "send" /\ Mutate[6] = "apply"
    /\ Mutate[7] = "answer" /\ Mutate[8] = "clear metadata" /\ Mutate[9] = "wait"
    /\ Mutate[10] = "mutated"
<1> DEFINE s1 == <<"send", "apply", "answer">>
           s2 == <<"mutated">>
           u1 == ResetAutoLock \o ClearMetadata
           u2 == u1 \o s1
           u3 == u2 \o ClearMetadata
           u4 == u3 \o s2
<1>1. s1 \in Seq(Label) /\ Len(s1) = 3 /\ s1[1] = "send" /\ s1[2] = "apply" /\ s1[3] = "answer"
  BY LabelNames, Three, Zenon
<1>2. s2 \in Seq(Label) /\ Len(s2) = 1 /\ s2[1] = "mutated"
  BY LabelNames, One, Zenon
<1>3. Mutate = u4
  BY Zenon DEF Mutate
<1> HIDE DEF s1, s2
<1>4. ResetAutoLock \in Seq(Label) /\ ClearMetadata \in Seq(Label) /\ s1 \in Seq(Label) /\ s2 \in Seq(Label)
  BY <1>1, <1>2, IsClearMetadata, IsResetAutoLock, Zenon
<1>5. Len(ResetAutoLock) = 2 /\ Len(ClearMetadata) = 2 /\ Len(s1) = 3 /\ Len(s2) = 1
  BY <1>1, <1>2, IsClearMetadata, IsResetAutoLock, Zenon
<1>6. /\ u1 \in Seq(Label) /\ Len(u1) = Len(ResetAutoLock) + Len(ClearMetadata)
      /\ \A i \in 1 .. Len(ResetAutoLock) : u1[i] = ResetAutoLock[i]
      /\ \A i \in 1 .. Len(ClearMetadata) : u1[Len(ResetAutoLock) + i] = ClearMetadata[i]
  BY <1>4, Cat, Zenon
<1> HIDE DEF u1
<1>7. /\ Len(u1) = 4
      /\ u1[1] = ResetAutoLock[1] /\ u1[2] = ResetAutoLock[2] /\ u1[3] = ClearMetadata[1]
      /\ u1[4] = ClearMetadata[2]
  BY <1>6, <1>5
<1>8. /\ u1[1] = "get mode" /\ u1[2] = "set deadline" /\ u1[3] = "clear metadata"
      /\ u1[4] = "wait"
  BY <1>7, IsResetAutoLock, IsClearMetadata, Zenon
<1>9. /\ u2 \in Seq(Label) /\ Len(u2) = Len(u1) + Len(s1)
      /\ \A i \in 1 .. Len(u1) : u2[i] = u1[i]
      /\ \A i \in 1 .. Len(s1) : u2[Len(u1) + i] = s1[i]
  BY <1>4, <1>6, Cat, Zenon
<1> HIDE DEF u2
<1>10. /\ Len(u2) = 7
       /\ u2[1] = u1[1] /\ u2[2] = u1[2] /\ u2[3] = u1[3] /\ u2[4] = u1[4] /\ u2[5] = s1[1]
       /\ u2[6] = s1[2] /\ u2[7] = s1[3]
  BY <1>9, <1>5, <1>7
<1>11. /\ u2[1] = "get mode" /\ u2[2] = "set deadline" /\ u2[3] = "clear metadata"
       /\ u2[4] = "wait" /\ u2[5] = "send" /\ u2[6] = "apply" /\ u2[7] = "answer"
  BY <1>10, <1>8, <1>1, Zenon
<1>12. /\ u3 \in Seq(Label) /\ Len(u3) = Len(u2) + Len(ClearMetadata)
       /\ \A i \in 1 .. Len(u2) : u3[i] = u2[i]
       /\ \A i \in 1 .. Len(ClearMetadata) : u3[Len(u2) + i] = ClearMetadata[i]
  BY <1>4, <1>9, Cat, Zenon
<1> HIDE DEF u3
<1>13. /\ Len(u3) = 9
       /\ u3[1] = u2[1] /\ u3[2] = u2[2] /\ u3[3] = u2[3] /\ u3[4] = u2[4] /\ u3[5] = u2[5]
       /\ u3[6] = u2[6] /\ u3[7] = u2[7] /\ u3[8] = ClearMetadata[1]
       /\ u3[9] = ClearMetadata[2]
  BY <1>12, <1>5, <1>10
<1>14. /\ u3[1] = "get mode" /\ u3[2] = "set deadline" /\ u3[3] = "clear metadata"
       /\ u3[4] = "wait" /\ u3[5] = "send" /\ u3[6] = "apply" /\ u3[7] = "answer"
       /\ u3[8] = "clear metadata" /\ u3[9] = "wait"
  BY <1>13, <1>11, IsClearMetadata, Zenon
<1>15. /\ u4 \in Seq(Label) /\ Len(u4) = Len(u3) + Len(s2)
       /\ \A i \in 1 .. Len(u3) : u4[i] = u3[i]
       /\ \A i \in 1 .. Len(s2) : u4[Len(u3) + i] = s2[i]
  BY <1>4, <1>12, Cat, Zenon
<1> HIDE DEF u4
<1>16. /\ Len(u4) = 10
       /\ u4[1] = u3[1] /\ u4[2] = u3[2] /\ u4[3] = u3[3] /\ u4[4] = u3[4] /\ u4[5] = u3[5]
       /\ u4[6] = u3[6] /\ u4[7] = u3[7] /\ u4[8] = u3[8] /\ u4[9] = u3[9] /\ u4[10] = s2[1]
  BY <1>15, <1>5, <1>13
<1>17. /\ u4[1] = "get mode" /\ u4[2] = "set deadline" /\ u4[3] = "clear metadata"
       /\ u4[4] = "wait" /\ u4[5] = "send" /\ u4[6] = "apply" /\ u4[7] = "answer"
       /\ u4[8] = "clear metadata" /\ u4[9] = "wait" /\ u4[10] = "mutated"
  BY <1>16, <1>14, <1>2, Zenon
<1> QED
  BY <1>3, <1>15, <1>16, <1>17, Zenon

LEMMA IsForgotten ==
    /\ ForgetDeadline \o <<"set token">> \in Seq(Label) /\ Len(ForgetDeadline \o <<"set token">>) = 3
    /\ (ForgetDeadline \o <<"set token">>)[1] = "remove deadline"
    /\ (ForgetDeadline \o <<"set token">>)[2] = "clear alarm"
    /\ (ForgetDeadline \o <<"set token">>)[3] = "set token"
<1> DEFINE s1 == <<"set token">>
           u1 == ForgetDeadline \o s1
<1>1. s1 \in Seq(Label) /\ Len(s1) = 1 /\ s1[1] = "set token"
  BY LabelNames, One, Zenon
<1>2. ForgetDeadline \o <<"set token">> = u1
  OBVIOUS
<1> HIDE DEF s1
<1>3. ForgetDeadline \in Seq(Label) /\ s1 \in Seq(Label)
  BY <1>1, IsForgetDeadline, Zenon
<1>4. Len(ForgetDeadline) = 2 /\ Len(s1) = 1
  BY <1>1, IsForgetDeadline, Zenon
<1>5. /\ u1 \in Seq(Label) /\ Len(u1) = Len(ForgetDeadline) + Len(s1)
      /\ \A i \in 1 .. Len(ForgetDeadline) : u1[i] = ForgetDeadline[i]
      /\ \A i \in 1 .. Len(s1) : u1[Len(ForgetDeadline) + i] = s1[i]
  BY <1>3, Cat, Zenon
<1> HIDE DEF u1
<1>6. /\ Len(u1) = 3
      /\ u1[1] = ForgetDeadline[1] /\ u1[2] = ForgetDeadline[2] /\ u1[3] = s1[1]
  BY <1>5, <1>4
<1>7. /\ u1[1] = "remove deadline" /\ u1[2] = "clear alarm" /\ u1[3] = "set token"
  BY <1>6, IsForgetDeadline, <1>1, Zenon
<1> QED
  BY <1>2, <1>5, <1>6, <1>7, Zenon

(***************************************************************************)
(* What a handler has still to run, after a step: the rest, or labels in   *)
(* front of it or in its place that end nothing of what was under way.     *)
(***************************************************************************)
LEMMA TailPlaces ==
    ASSUME NEW todo \in Seq(Label), todo # <<>>
    PROVE  /\ Tail(todo) \in Seq(Label) /\ Len(todo) \in Nat /\ Len(todo) >= 1
           /\ DOMAIN todo = 1 .. Len(todo)
           /\ DOMAIN Tail(todo) = 1 .. Len(todo) - 1 /\ Len(Tail(todo)) = Len(todo) - 1
           /\ \A i \in 1 .. Len(todo) - 1 : Tail(todo)[i] = todo[i + 1]
           /\ Head(todo) = todo[1]
  OBVIOUS

LEMMA BeforeTail ==
    ASSUME NEW todo \in Seq(Label), todo # <<>>, NEW i \in DOMAIN Tail(todo), NEW d \in Nat \ {0}, NEW x,
           Before(todo, i + 1, d, x)
    PROVE  Before(Tail(todo), i, d, x)
<1> DEFINE r == Tail(todo)
<1>1. /\ Len(todo) \in Nat /\ i \in 1 .. Len(todo) - 1
      /\ \A k \in 1 .. Len(todo) - 1 : r[k] = todo[k + 1]
  BY TailPlaces
<1> HIDE DEF r
<1>2. SUFFICES ASSUME i > d PROVE r[i - d] = x
  BY DEF Before, r
<1>3. i - d \in 1 .. Len(todo) - 1
  BY <1>1, <1>2
<1>4. r[i - d] = todo[(i - d) + 1]
  BY <1>1, <1>3
<1>5. (i - d) + 1 = (i + 1) - d /\ i + 1 > d
  BY <1>1, <1>2
<1> QED
  BY <1>4, <1>5 DEF Before

LEMMA AfterTail ==
    ASSUME NEW todo \in Seq(Label), todo # <<>>, NEW i \in DOMAIN Tail(todo), NEW d \in Nat, NEW x,
           After(todo, i + 1, d, x)
    PROVE  After(Tail(todo), i, d, x)
<1> DEFINE r == Tail(todo)
<1>1. /\ Len(todo) \in Nat /\ i \in 1 .. Len(todo) - 1 /\ DOMAIN todo = 1 .. Len(todo)
      /\ DOMAIN r = 1 .. Len(todo) - 1
      /\ \A k \in 1 .. Len(todo) - 1 : r[k] = todo[k + 1]
  BY TailPlaces
<1> HIDE DEF r
<1>2. (i + 1) + d \in 1 .. Len(todo) /\ todo[(i + 1) + d] = x
  BY <1>1 DEF After
<1>3. i + d \in 1 .. Len(todo) - 1 /\ (i + d) + 1 = (i + 1) + d
  BY <1>1, <1>2
<1>4. r[i + d] = x
  BY <1>1, <1>2, <1>3
<1> QED
  BY <1>1, <1>3, <1>4 DEF After, r

LEMMA FormedTail ==
    ASSUME NEW todo \in Seq(Label), todo # <<>>, Formed(todo)
    PROVE  /\ Formed(Tail(todo))
           /\ \A i \in DOMAIN Tail(todo) : Tail(todo)[i] # "load"
<1> DEFINE r == Tail(todo)
<1>0. /\ Len(todo) \in Nat /\ DOMAIN todo = 1 .. Len(todo) /\ DOMAIN r = 1 .. Len(todo) - 1
      /\ \A k \in 1 .. Len(todo) - 1 : r[k] = todo[k + 1]
  BY TailPlaces
<1>1. ASSUME NEW i \in DOMAIN r
      PROVE  /\ i + 1 \in DOMAIN todo /\ r[i] = todo[i + 1] /\ i + 1 # 1
             /\ i <= i + 1 /\ i \in Nat
  BY <1>0, <1>1
<1>2. ASSUME NEW i \in DOMAIN r PROVE r[i] # "load"
  BY <1>1, Zenon DEF Formed, Rules
<1>3. ASSUME NEW i \in DOMAIN r
      PROVE  /\ r[i] = "read session" => After(r, i, 1, "read local")
             /\ r[i] = "clear token" => After(r, i, 8, "cleared")
             /\ r[i] = "login" => After(r, i, 6, "use token")
             /\ r[i] = "save token" => After(r, i, 1, "use token")
             /\ r[i] = "clear metadata" => After(r, i, 1, "wait")
  <2>1. /\ 1 \in Nat /\ 6 \in Nat /\ 8 \in Nat
    OBVIOUS
  <2>2. /\ r[i] = "read session" => After(todo, i + 1, 1, "read local")
        /\ r[i] = "clear token" => After(todo, i + 1, 8, "cleared")
        /\ r[i] = "login" => After(todo, i + 1, 6, "use token")
        /\ r[i] = "save token" => After(todo, i + 1, 1, "use token")
        /\ r[i] = "clear metadata" => After(todo, i + 1, 1, "wait")
    BY <1>1, Zenon DEF Formed, Rules
  <2> QED
    BY <2>1, <2>2, AfterTail, Zenon
<1>4. ASSUME NEW i \in DOMAIN r, NEW d \in Nat \ {0}, NEW x, Before(todo, i + 1, d, x)
      PROVE  Before(r, i, d, x)
  BY <1>4, BeforeTail, Zenon
<1>5. /\ 1 \in Nat \ {0} /\ 2 \in Nat \ {0} /\ 3 \in Nat \ {0} /\ 4 \in Nat \ {0} /\ 5 \in Nat \ {0}
      /\ 6 \in Nat \ {0} /\ 7 \in Nat \ {0} /\ 8 \in Nat \ {0}
  OBVIOUS
<1> HIDE DEF r
<1>6. ASSUME NEW i \in DOMAIN r, r[i] = "cleared" PROVE EndsLock(r, i)
  <2>1. EndsLock(todo, i + 1)
    BY <1>1, <1>6, Zenon DEF Formed, Rules
  <2> QED
    BY <2>1, <1>4, <1>5, Zenon DEF EndsLock
<1>7. ASSUME NEW i \in DOMAIN r, r[i] = "use token" PROVE EndsLogin(r, i)
  <2>1. EndsLogin(todo, i + 1)
    BY <1>1, <1>7, Zenon DEF Formed, Rules
  <2>2. i <= 9
    <3>1. i + 1 <= 9
      BY <2>1, Zenon DEF EndsLogin
    <3> QED
      BY <3>1, <1>1
  <2> QED
    BY <2>1, <2>2, <1>4, <1>5, Zenon DEF EndsLogin
<1>8. ASSUME NEW i \in DOMAIN r, r[i] = "mutated" PROVE EndsChange(r, i)
  <2>1. EndsChange(todo, i + 1)
    BY <1>1, <1>8, Zenon DEF Formed, Rules
  <2> QED
    BY <2>1, <1>4, <1>5, Zenon DEF EndsChange
<1>9. ASSUME NEW i \in DOMAIN r, r[i] = "receive" PROVE Before(r, i, 1, "serve")
  <2>1. Before(todo, i + 1, 1, "serve")
    BY <1>1, <1>9, Zenon DEF Formed, Rules
  <2> QED
    BY <2>1, <1>4, <1>5, Zenon
<1>10. Formed(r)
  BY <1>2, <1>3, <1>6, <1>7, <1>8, <1>9, Zenon DEF Formed, Rules
<1> QED
  BY <1>2, <1>10, Zenon DEF r

\* The first label is before no other one by the rules: the rest is free.
LEMMA FreeTail ==
    ASSUME NEW todo \in Seq(Label), todo # <<>>, Formed(todo), Head(todo) \notin Chain
    PROVE  Free(Tail(todo))
<1> DEFINE r == Tail(todo)
<1>0. /\ Len(todo) \in Nat /\ DOMAIN todo = 1 .. Len(todo) /\ DOMAIN r = 1 .. Len(todo) - 1
      /\ \A k \in 1 .. Len(todo) - 1 : r[k] = todo[k + 1]
      /\ todo[1] \notin Chain
  BY TailPlaces
<1> HIDE DEF r
<1>1. SUFFICES ASSUME NEW i \in DOMAIN r
               PROVE  /\ r[i] # "use token"
                      /\ r[i] = "cleared" => i > 8
                      /\ r[i] = "mutated" => i > 7
                      /\ r[i] = "receive" => i > 1
  BY FormedTail, Zenon DEF Free, CalmAt, r
<1>2. i \in Nat /\ i >= 1 /\ i + 1 \in DOMAIN todo /\ r[i] = todo[i + 1]
  BY <1>0, <1>1
<1>3. ASSUME NEW d \in Nat, NEW x \in Chain, Before(todo, i + 1, d, x) PROVE i # d
  <2>1. SUFFICES ASSUME i = d PROVE FALSE
    OBVIOUS
  <2>2. i + 1 > d /\ (i + 1) - d = 1
    BY <1>2, <2>1
  <2>3. todo[1] = x
    BY <1>3, <2>2 DEF Before
  <2> QED
    BY <2>3, <1>0
<1>4. /\ "clear alarm" \in Chain /\ "remove deadline" \in Chain /\ "remove local" \in Chain
      /\ "remove session" \in Chain /\ "wait" \in Chain /\ "clear metadata" \in Chain
      /\ "clear popup" \in Chain /\ "clear token" \in Chain /\ "save token" \in Chain
      /\ "get mode" \in Chain /\ "login" \in Chain /\ "log in" \in Chain /\ "answer" \in Chain
      /\ "apply" \in Chain /\ "send" \in Chain /\ "serve" \in Chain
  BY DEF Chain
<1>5. 1 \in Nat /\ 2 \in Nat /\ 3 \in Nat /\ 4 \in Nat /\ 5 \in Nat /\ 6 \in Nat /\ 7 \in Nat /\ 8 \in Nat
  OBVIOUS
<1>6. ASSUME r[i] = "cleared" PROVE i > 8
  <2>1. EndsLock(todo, i + 1)
    BY <1>2, <1>6, Zenon DEF Formed, Rules
  <2>2. i # 1 /\ i # 2 /\ i # 3 /\ i # 4 /\ i # 5 /\ i # 6 /\ i # 7 /\ i # 8
    BY <2>1, <1>3, <1>4, <1>5, Zenon DEF EndsLock
  <2> QED
    BY <2>2, <1>2
<1>7. r[i] # "use token"
  <2>1. SUFFICES ASSUME r[i] = "use token" PROVE FALSE
    OBVIOUS
  <2>2. EndsLogin(todo, i + 1)
    BY <1>2, <2>1, Zenon DEF Formed, Rules
  <2>3. i # 1 /\ i # 2 /\ i # 3 /\ i # 4 /\ i # 5 /\ i # 6 /\ i # 7 /\ i # 8
    BY <2>2, <1>3, <1>4, <1>5, Zenon DEF EndsLogin
  <2>4. i + 1 <= 9
    BY <2>2, Zenon DEF EndsLogin
  <2> QED
    BY <2>3, <2>4, <1>2
<1>8. ASSUME r[i] = "mutated" PROVE i > 7
  <2>1. EndsChange(todo, i + 1)
    BY <1>2, <1>8, Zenon DEF Formed, Rules
  <2>2. i # 1 /\ i # 2 /\ i # 3 /\ i # 4 /\ i # 5 /\ i # 6 /\ i # 7
    BY <2>1, <1>3, <1>4, <1>5, Zenon DEF EndsChange
  <2> QED
    BY <2>2, <1>2
<1>9. ASSUME r[i] = "receive" PROVE i > 1
  <2>1. Before(todo, i + 1, 1, "serve")
    BY <1>2, <1>9, Zenon DEF Formed, Rules
  <2>2. i # 1
    BY <2>1, <1>3, <1>4, <1>5, Zenon
  <2> QED
    BY <2>2, <1>2
<1> QED
  BY <1>6, <1>7, <1>8, <1>9

LEMMA FormedPushed ==
    ASSUME NEW s \in Seq(Label), NEW t \in Seq(Label), Formed(s), Formed(t), Free(t)
    PROVE  Formed(s \o t)
<1> DEFINE u == s \o t
<1>0. /\ u \in Seq(Label) /\ Len(u) = Len(s) + Len(t) /\ Len(s) \in Nat /\ Len(t) \in Nat
      /\ DOMAIN u = 1 .. Len(u) /\ DOMAIN s = 1 .. Len(s) /\ DOMAIN t = 1 .. Len(t)
      /\ \A i \in 1 .. Len(s) : u[i] = s[i]
      /\ \A i \in 1 .. Len(t) : u[Len(s) + i] = t[i]
  <2>1. Len(s) \in Nat /\ Len(t) \in Nat /\ DOMAIN s = 1 .. Len(s) /\ DOMAIN t = 1 .. Len(t)
    OBVIOUS
  <2>2. /\ u \in Seq(Label) /\ Len(u) = Len(s) + Len(t)
        /\ \A i \in 1 .. Len(s) : u[i] = s[i]
        /\ \A i \in 1 .. Len(t) : u[Len(s) + i] = t[i]
    BY Cat, Zenon
  <2>3. DOMAIN u = 1 .. Len(u)
    BY <2>2
  <2> QED
    BY <2>1, <2>2, <2>3, Zenon
<1> HIDE DEF u
<1>1. ASSUME NEW i \in DOMAIN s, NEW d \in Nat \ {0}, NEW x
      PROVE  /\ Before(s, i, d, x) => Before(u, i, d, x)
             /\ After(s, i, d, x) => After(u, i, d, x)
  <2>1. Before(s, i, d, x) => Before(u, i, d, x)
    <3>1. SUFFICES ASSUME i > d, s[i - d] = x PROVE u[i - d] = x
      BY DEF Before
    <3>2. i - d \in 1 .. Len(s)
      BY <1>0, <1>1, <3>1
    <3> QED
      BY <3>1, <3>2, <1>0
  <2>2. After(s, i, d, x) => After(u, i, d, x)
    <3>1. SUFFICES ASSUME i + d \in DOMAIN s, s[i + d] = x
                   PROVE  i + d \in DOMAIN u /\ u[i + d] = x
      BY DEF After
    <3> QED
      BY <3>1, <1>0
  <2> QED
    BY <2>1, <2>2
<1>2. ASSUME NEW j \in DOMAIN t, NEW d \in Nat \ {0}, NEW x
      PROVE  /\ j > d /\ Before(t, j, d, x) => Before(u, Len(s) + j, d, x)
             /\ After(t, j, d, x) => After(u, Len(s) + j, d, x)
  <2>1. ASSUME j > d, Before(t, j, d, x) PROVE Before(u, Len(s) + j, d, x)
    <3>1. t[j - d] = x
      BY <2>1 DEF Before
    <3>2. j - d \in 1 .. Len(t) /\ (Len(s) + j) - d = Len(s) + (j - d)
      BY <1>0, <1>2, <2>1
    <3>3. u[(Len(s) + j) - d] = x
      BY <3>1, <3>2, <1>0
    <3> QED
      BY <3>3 DEF Before
  <2>2. ASSUME After(t, j, d, x) PROVE After(u, Len(s) + j, d, x)
    <3>1. j + d \in 1 .. Len(t) /\ t[j + d] = x
      BY <2>2, <1>0 DEF After
    <3>2. (Len(s) + j) + d = Len(s) + (j + d) /\ (Len(s) + j) + d \in 1 .. Len(u)
      BY <1>0, <1>2, <3>1
    <3>3. u[(Len(s) + j) + d] = x
      BY <3>1, <3>2, <1>0
    <3> QED
      BY <3>2, <3>3, <1>0 DEF After
  <2> QED
    BY <2>1, <2>2
<1>3. /\ 1 \in Nat \ {0} /\ 2 \in Nat \ {0} /\ 3 \in Nat \ {0} /\ 4 \in Nat \ {0} /\ 5 \in Nat \ {0}
      /\ 6 \in Nat \ {0} /\ 7 \in Nat \ {0} /\ 8 \in Nat \ {0}
  OBVIOUS
<1>4. ASSUME NEW i \in DOMAIN s PROVE Rules(u, i)
  <2>1. u[i] = s[i]
    BY <1>0, <1>4
  <2>2. EndsLock(s, i) => EndsLock(u, i)
    BY <1>1, <1>3, Zenon DEF EndsLock
  <2>3. EndsLogin(s, i) => EndsLogin(u, i)
    BY <1>1, <1>3, Zenon DEF EndsLogin
  <2>4. EndsChange(s, i) => EndsChange(u, i)
    BY <1>1, <1>3, Zenon DEF EndsChange
  <2>5. /\ u[i] = "load" => i = 1
        /\ u[i] = "cleared" => EndsLock(s, i)
        /\ u[i] = "use token" => EndsLogin(s, i)
        /\ u[i] = "mutated" => EndsChange(s, i)
        /\ u[i] = "receive" => Before(s, i, 1, "serve")
    BY <2>1, <1>4, Zenon DEF Formed, Rules
  <2>6. /\ u[i] = "read session" => After(s, i, 1, "read local")
        /\ u[i] = "clear token" => After(s, i, 8, "cleared")
        /\ u[i] = "login" => After(s, i, 6, "use token")
        /\ u[i] = "save token" => After(s, i, 1, "use token")
        /\ u[i] = "clear metadata" => After(s, i, 1, "wait")
    BY <2>1, <1>4, Zenon DEF Formed, Rules
  <2>7. /\ u[i] = "read session" => After(u, i, 1, "read local")
        /\ u[i] = "clear token" => After(u, i, 8, "cleared")
        /\ u[i] = "login" => After(u, i, 6, "use token")
        /\ u[i] = "save token" => After(u, i, 1, "use token")
        /\ u[i] = "clear metadata" => After(u, i, 1, "wait")
        /\ u[i] = "receive" => Before(u, i, 1, "serve")
    BY <2>5, <2>6, <1>1, <1>3, Zenon
  <2> QED
    BY <2>2, <2>3, <2>4, <2>5, <2>7, Zenon DEF Rules
<1>5. ASSUME NEW j \in DOMAIN t PROVE Rules(u, Len(s) + j)
  <2> DEFINE i == Len(s) + j
  <2>1. u[i] = t[j] /\ j \in Nat
    BY <1>0, <1>5
  <2>2. ASSUME u[i] = "cleared" PROVE EndsLock(u, i)
    <3>1. EndsLock(t, j) /\ j > 8
      BY <2>1, <2>2, <1>5, Zenon DEF Formed, Rules, Free, CalmAt
    <3>2. j > 1 /\ j > 2 /\ j > 3 /\ j > 4 /\ j > 5 /\ j > 6 /\ j > 7 /\ j > 8
      BY <3>1, <2>1
    <3> QED
      BY <3>1, <3>2, <1>2, <1>3, Zenon DEF EndsLock
  <2>3. ASSUME u[i] = "mutated" PROVE EndsChange(u, i)
    <3>1. EndsChange(t, j) /\ j > 7
      BY <2>1, <2>3, <1>5, Zenon DEF Formed, Rules, Free, CalmAt
    <3>2. j > 1 /\ j > 2 /\ j > 3 /\ j > 4 /\ j > 5 /\ j > 6 /\ j > 7
      BY <3>1, <2>1
    <3> QED
      BY <3>1, <3>2, <1>2, <1>3, Zenon DEF EndsChange
  <2>4. ASSUME u[i] = "receive" PROVE Before(u, i, 1, "serve")
    <3>1. Before(t, j, 1, "serve") /\ j > 1
      BY <2>1, <2>4, <1>5, Zenon DEF Formed, Rules, Free, CalmAt
    <3> QED
      BY <3>1, <1>2, <1>3, Zenon
  <2>5. u[i] # "load" /\ u[i] # "use token"
    BY <2>1, <1>5, Zenon DEF Free, CalmAt
  <2>6. /\ u[i] = "read session" => After(t, j, 1, "read local")
        /\ u[i] = "clear token" => After(t, j, 8, "cleared")
        /\ u[i] = "login" => After(t, j, 6, "use token")
        /\ u[i] = "save token" => After(t, j, 1, "use token")
        /\ u[i] = "clear metadata" => After(t, j, 1, "wait")
    BY <2>1, <1>5, Zenon DEF Formed, Rules
  <2>7. /\ u[i] = "read session" => After(u, i, 1, "read local")
        /\ u[i] = "clear token" => After(u, i, 8, "cleared")
        /\ u[i] = "login" => After(u, i, 6, "use token")
        /\ u[i] = "save token" => After(u, i, 1, "use token")
        /\ u[i] = "clear metadata" => After(u, i, 1, "wait")
    BY <2>6, <1>2, <1>3, Zenon
  <2> QED
    BY <2>2, <2>3, <2>4, <2>5, <2>7, Zenon DEF Rules
<1>6. ASSUME NEW i \in DOMAIN u PROVE Rules(u, i)
  <2>1. CASE i \in DOMAIN s
    BY <2>1, <1>4, Zenon
  <2>2. CASE i \notin DOMAIN s
    <3>1. i - Len(s) \in DOMAIN t /\ i = Len(s) + (i - Len(s))
      BY <2>2, <1>0, <1>6
    <3>2. Rules(u, Len(s) + (i - Len(s)))
      BY <3>1, <1>5, Zenon
    <3> QED
      BY <3>1, <3>2, Zenon
  <2> QED
    BY <2>1, <2>2, Zenon
<1>7. Formed(u)
  BY <1>6, Zenon DEF Formed
<1> QED
  BY <1>7, Zenon DEF u

LEMMA FreePushed ==
    ASSUME NEW s \in Seq(Label), NEW t \in Seq(Label), Free(s), Free(t)
    PROVE  Free(s \o t)
<1> DEFINE u == s \o t
<1>0. /\ Len(u) = Len(s) + Len(t) /\ Len(s) \in Nat /\ Len(t) \in Nat
      /\ DOMAIN u = 1 .. Len(u) /\ DOMAIN s = 1 .. Len(s) /\ DOMAIN t = 1 .. Len(t)
      /\ \A i \in 1 .. Len(s) : u[i] = s[i]
      /\ \A i \in 1 .. Len(t) : u[Len(s) + i] = t[i]
  <2>1. Len(s) \in Nat /\ Len(t) \in Nat /\ DOMAIN s = 1 .. Len(s) /\ DOMAIN t = 1 .. Len(t)
    OBVIOUS
  <2>2. /\ u \in Seq(Label) /\ Len(u) = Len(s) + Len(t)
        /\ \A i \in 1 .. Len(s) : u[i] = s[i]
        /\ \A i \in 1 .. Len(t) : u[Len(s) + i] = t[i]
    BY Cat, Zenon
  <2>3. DOMAIN u = 1 .. Len(u)
    BY <2>2
  <2> QED
    BY <2>1, <2>2, <2>3, Zenon
<1> HIDE DEF u
<1>1. ASSUME NEW i \in DOMAIN u
      PROVE  \/ i \in DOMAIN s /\ u[i] = s[i]
             \/ \E j \in DOMAIN t : i >= j /\ j \in Nat /\ i \in Nat /\ u[i] = t[j]
  <2>1. CASE i \in DOMAIN s
    BY <2>1, <1>0
  <2>2. CASE i \notin DOMAIN s
    <3>1. i - Len(s) \in DOMAIN t /\ i = Len(s) + (i - Len(s)) /\ i >= i - Len(s) /\ i \in Nat
          /\ i - Len(s) \in Nat
      BY <2>2, <1>0, <1>1
    <3>2. u[i] = t[i - Len(s)]
      BY <3>1, <1>0
    <3> QED
      BY <3>1, <3>2
  <2> QED
    BY <2>1, <2>2
<1>2. ASSUME NEW i \in DOMAIN u
      PROVE  /\ u[i] # "load" /\ u[i] # "use token" /\ (u[i] = "cleared" => i > 8)
             /\ (u[i] = "mutated" => i > 7) /\ (u[i] = "receive" => i > 1)
  <2>1. CASE i \in DOMAIN s /\ u[i] = s[i]
    BY <2>1, Zenon DEF Free, CalmAt
  <2>2. CASE \E j \in DOMAIN t : i >= j /\ j \in Nat /\ i \in Nat /\ u[i] = t[j]
    <3>1. PICK j \in DOMAIN t : i >= j /\ j \in Nat /\ i \in Nat /\ u[i] = t[j]
      BY <2>2
    <3>2. /\ u[i] # "load" /\ u[i] # "use token" /\ (u[i] = "cleared" => j > 8)
          /\ (u[i] = "mutated" => j > 7) /\ (u[i] = "receive" => j > 1)
      BY <3>1, Zenon DEF Free, CalmAt
    <3>3. (j > 8 => i > 8) /\ (j > 7 => i > 7) /\ (j > 1 => i > 1)
      BY <3>1
    <3> QED
      BY <3>2, <3>3, Zenon
  <2> QED
    BY <1>1, <2>1, <2>2, Zenon
<1>3. Free(u)
  BY <1>2, Zenon DEF Free, CalmAt
<1> QED
  BY <1>3, Zenon DEF u

LEMMA EmptySeq == <<>> \in Seq(Label) /\ DOMAIN <<>> = {}
  OBVIOUS

Fine(todo) == todo \in Seq(Label) /\ Formed(todo) /\ Free(todo)

\* What a handler has to run when it begins, unless it logs in.
Starting(todo) ==
    /\ todo \in Seq(Label) /\ Formed(todo) /\ Calm(todo)
    /\ \A i \in DOMAIN todo : todo[i] # "use token"

LEMMA FinePushed ==
    ASSUME NEW s, NEW t, Fine(s), Fine(t)
    PROVE  Fine(s \o t)
  BY FormedPushed, FreePushed, Cat, Zenon DEF Fine

LEMMA FineForgetDeadline == Fine(ForgetDeadline)
<1>1. ForgetDeadline \in Seq(Label) /\ Len(ForgetDeadline) = 2
  BY IsForgetDeadline, Zenon
<1>2. /\ DOMAIN ForgetDeadline = 1 .. 2
      /\ \A i \in DOMAIN ForgetDeadline : i = 1 \/ i = 2
  BY <1>1
<1>3. ASSUME NEW i \in DOMAIN ForgetDeadline
      PROVE  Rules(ForgetDeadline, i) /\ CalmAt(ForgetDeadline, i) /\ ForgetDeadline[i] # "load" /\ ForgetDeadline[i] # "use token"
  BY <1>2, IsForgetDeadline, Zenon DEF Rules, CalmAt
<1> QED
  BY <1>1, <1>3, Zenon DEF Fine, Formed, Free

LEMMA FineSchedule == Fine(Schedule)
<1>1. Schedule \in Seq(Label) /\ Len(Schedule) = 2
  BY IsSchedule, Zenon
<1>2. /\ DOMAIN Schedule = 1 .. 2
      /\ \A i \in DOMAIN Schedule : i = 1 \/ i = 2
  BY <1>1
<1>3. ASSUME NEW i \in DOMAIN Schedule
      PROVE  Rules(Schedule, i) /\ CalmAt(Schedule, i) /\ Schedule[i] # "load" /\ Schedule[i] # "use token"
  BY <1>2, IsSchedule, Zenon DEF Rules, CalmAt
<1> QED
  BY <1>1, <1>3, Zenon DEF Fine, Formed, Free

LEMMA FineResetAutoLock == Fine(ResetAutoLock)
<1>1. ResetAutoLock \in Seq(Label) /\ Len(ResetAutoLock) = 2
  BY IsResetAutoLock, Zenon
<1>2. /\ DOMAIN ResetAutoLock = 1 .. 2
      /\ \A i \in DOMAIN ResetAutoLock : i = 1 \/ i = 2
  BY <1>1
<1>3. ASSUME NEW i \in DOMAIN ResetAutoLock
      PROVE  Rules(ResetAutoLock, i) /\ CalmAt(ResetAutoLock, i) /\ ResetAutoLock[i] # "load" /\ ResetAutoLock[i] # "use token"
  BY <1>2, IsResetAutoLock, Zenon DEF Rules, CalmAt
<1> QED
  BY <1>1, <1>3, Zenon DEF Fine, Formed, Free

LEMMA FineClearMetadata == Fine(ClearMetadata)
<1>1. ClearMetadata \in Seq(Label) /\ Len(ClearMetadata) = 2
  BY IsClearMetadata, Zenon
<1>2. /\ DOMAIN ClearMetadata = 1 .. 2
      /\ \A i \in DOMAIN ClearMetadata : i = 1 \/ i = 2
  BY <1>1
<1>3. /\ 1 + 1 = 2 /\ 2 \in 1 .. 2
  OBVIOUS
<1>4. ASSUME NEW i \in DOMAIN ClearMetadata
      PROVE  Rules(ClearMetadata, i) /\ CalmAt(ClearMetadata, i) /\ ClearMetadata[i] # "load" /\ ClearMetadata[i] # "use token"
  BY <1>2, <1>3, IsClearMetadata, Zenon DEF Rules, CalmAt, After
<1> QED
  BY <1>1, <1>4, Zenon DEF Fine, Formed, Free

LEMMA FineClearCache == Fine(ClearCache)
<1>1. ClearCache \in Seq(Label) /\ Len(ClearCache) = 3
  BY IsClearCache, Zenon
<1>2. /\ DOMAIN ClearCache = 1 .. 3
      /\ \A i \in DOMAIN ClearCache : i = 1 \/ i = 2 \/ i = 3
  BY <1>1
<1>3. /\ 2 + 1 = 3 /\ 3 \in 1 .. 3
  OBVIOUS
<1>4. ASSUME NEW i \in DOMAIN ClearCache
      PROVE  Rules(ClearCache, i) /\ CalmAt(ClearCache, i) /\ ClearCache[i] # "load" /\ ClearCache[i] # "use token"
  BY <1>2, <1>3, IsClearCache, Zenon DEF Rules, CalmAt, After
<1> QED
  BY <1>1, <1>4, Zenon DEF Fine, Formed, Free

LEMMA FineClearToken == Fine(ClearToken)
<1>1. ClearToken \in Seq(Label) /\ Len(ClearToken) = 9
  BY IsClearToken, Zenon
<1>2. /\ DOMAIN ClearToken = 1 .. 9
      /\ \A i \in DOMAIN ClearToken : i = 1 \/ i = 2 \/ i = 3 \/ i = 4 \/ i = 5 \/ i = 6 \/ i = 7 \/ i = 8 \/ i = 9
  BY <1>1
<1>3. /\ 1 + 8 = 9 /\ 9 \in 1 .. 9 /\ 3 + 1 = 4 /\ 4 \in 1 .. 9 /\ 9 - 1 = 8 /\ 9 - 2 = 7
      /\ 9 - 3 = 6 /\ 9 - 4 = 5 /\ 9 - 5 = 4 /\ 9 - 6 = 3 /\ 9 - 7 = 2 /\ 9 - 8 = 1 /\ 9 > 8
  OBVIOUS
<1>4. ASSUME NEW i \in DOMAIN ClearToken
      PROVE  Rules(ClearToken, i) /\ CalmAt(ClearToken, i) /\ ClearToken[i] # "load" /\ ClearToken[i] # "use token"
  <2>1. CASE i = 1
    BY <2>1, <1>2, <1>3, IsClearToken, Zenon DEF Rules, CalmAt, After, Before, EndsLock
  <2>2. CASE i = 2
    BY <2>2, <1>3, IsClearToken, Zenon DEF Rules, CalmAt, After, Before, EndsLock
  <2>3. CASE i = 3
    BY <2>3, <1>2, <1>3, IsClearToken, Zenon DEF Rules, CalmAt, After, Before, EndsLock
  <2>4. CASE i = 4
    BY <2>4, <1>3, IsClearToken, Zenon DEF Rules, CalmAt, After, Before, EndsLock
  <2>5. CASE i = 5
    BY <2>5, <1>3, IsClearToken, Zenon DEF Rules, CalmAt, After, Before, EndsLock
  <2>6. CASE i = 6
    BY <2>6, <1>3, IsClearToken, Zenon DEF Rules, CalmAt, After, Before, EndsLock
  <2>7. CASE i = 7
    BY <2>7, <1>3, IsClearToken, Zenon DEF Rules, CalmAt, After, Before, EndsLock
  <2>8. CASE i = 8
    BY <2>8, <1>3, IsClearToken, Zenon DEF Rules, CalmAt, After, Before, EndsLock
  <2>9. CASE i = 9
    BY <2>9, <1>3, IsClearToken, Zenon DEF Rules, CalmAt, After, Before, EndsLock
  <2> QED
    BY <1>2, <2>1, <2>2, <2>3, <2>4, <2>5, <2>6, <2>7, <2>8, <2>9, Zenon
<1> QED
  BY <1>1, <1>4, Zenon DEF Fine, Formed, Free

LEMMA FineMutate == Fine(Mutate)
<1>1. Mutate \in Seq(Label) /\ Len(Mutate) = 10
  BY IsMutate, Zenon
<1>2. /\ DOMAIN Mutate = 1 .. 10
      /\ \A i \in DOMAIN Mutate : i = 1 \/ i = 2 \/ i = 3 \/ i = 4 \/ i = 5 \/ i = 6 \/ i = 7 \/ i = 8 \/ i = 9 \/ i = 10
  BY <1>1
<1>3. /\ 3 + 1 = 4 /\ 4 \in 1 .. 10 /\ 8 + 1 = 9 /\ 9 \in 1 .. 10 /\ 10 - 1 = 9 /\ 10 - 2 = 8
      /\ 10 - 3 = 7 /\ 10 - 4 = 6 /\ 10 - 5 = 5 /\ 10 - 6 = 4 /\ 10 - 7 = 3 /\ 10 > 7
  OBVIOUS
<1>4. ASSUME NEW i \in DOMAIN Mutate
      PROVE  Rules(Mutate, i) /\ CalmAt(Mutate, i) /\ Mutate[i] # "load" /\ Mutate[i] # "use token"
  <2>1. CASE i = 1
    BY <2>1, <1>2, <1>3, IsMutate, Zenon DEF Rules, CalmAt, After, Before, EndsChange
  <2>2. CASE i = 2
    BY <2>2, <1>3, IsMutate, Zenon DEF Rules, CalmAt, After, Before, EndsChange
  <2>3. CASE i = 3
    BY <2>3, <1>2, <1>3, IsMutate, Zenon DEF Rules, CalmAt, After, Before, EndsChange
  <2>4. CASE i = 4
    BY <2>4, <1>3, IsMutate, Zenon DEF Rules, CalmAt, After, Before, EndsChange
  <2>5. CASE i = 5
    BY <2>5, <1>3, IsMutate, Zenon DEF Rules, CalmAt, After, Before, EndsChange
  <2>6. CASE i = 6
    BY <2>6, <1>3, IsMutate, Zenon DEF Rules, CalmAt, After, Before, EndsChange
  <2>7. CASE i = 7
    BY <2>7, <1>3, IsMutate, Zenon DEF Rules, CalmAt, After, Before, EndsChange
  <2>8. CASE i = 8
    BY <2>8, <1>2, <1>3, IsMutate, Zenon DEF Rules, CalmAt, After, Before, EndsChange
  <2>9. CASE i = 9
    BY <2>9, <1>3, IsMutate, Zenon DEF Rules, CalmAt, After, Before, EndsChange
  <2>10. CASE i = 10
    BY <2>10, <1>3, IsMutate, Zenon DEF Rules, CalmAt, After, Before, EndsChange
  <2> QED
    BY <1>2, <2>1, <2>2, <2>3, <2>4, <2>5, <2>6, <2>7, <2>8, <2>9, <2>10, Zenon
<1> QED
  BY <1>1, <1>4, Zenon DEF Fine, Formed, Free

LEMMA FineLoad == Starting(Load)
<1>1. Load \in Seq(Label) /\ Len(Load) = 4
  BY IsLoad, Zenon
<1>2. /\ DOMAIN Load = 1 .. 4
      /\ \A i \in DOMAIN Load : i = 1 \/ i = 2 \/ i = 3 \/ i = 4
  BY <1>1
<1>3. /\ 3 + 1 = 4 /\ 4 \in 1 .. 4
  OBVIOUS
<1>4. ASSUME NEW i \in DOMAIN Load
      PROVE  Rules(Load, i) /\ CalmAt(Load, i) /\ Load[i] # "use token"
  BY <1>2, <1>3, IsLoad, Zenon DEF Rules, CalmAt, After
<1> QED
  BY <1>1, <1>4, Zenon DEF Starting, Formed, Calm

LEMMA FineCredentials == Starting(Credentials)
<1>1. Credentials \in Seq(Label) /\ Len(Credentials) = 5
  BY IsCredentials, Zenon
<1>2. /\ DOMAIN Credentials = 1 .. 5
      /\ \A i \in DOMAIN Credentials : i = 1 \/ i = 2 \/ i = 3 \/ i = 4 \/ i = 5
  BY <1>1
<1>3. /\ 3 + 1 = 4 /\ 4 \in 1 .. 5
  OBVIOUS
<1>4. ASSUME NEW i \in DOMAIN Credentials
      PROVE  Rules(Credentials, i) /\ CalmAt(Credentials, i) /\ Credentials[i] # "use token"
  <2>1. CASE i = 1
    BY <2>1, <1>2, <1>3, IsCredentials, Zenon DEF Rules, CalmAt, After
  <2>2. CASE i = 2
    BY <2>2, <1>3, IsCredentials, Zenon DEF Rules, CalmAt, After
  <2>3. CASE i = 3
    BY <2>3, <1>2, <1>3, IsCredentials, Zenon DEF Rules, CalmAt, After
  <2>4. CASE i = 4
    BY <2>4, <1>3, IsCredentials, Zenon DEF Rules, CalmAt, After
  <2>5. CASE i = 5
    BY <2>5, <1>3, IsCredentials, Zenon DEF Rules, CalmAt, After
  <2> QED
    BY <1>2, <2>1, <2>2, <2>3, <2>4, <2>5, Zenon
<1> QED
  BY <1>1, <1>4, Zenon DEF Starting, Formed, Calm

LEMMA FineIsUnlocked == Starting(IsUnlocked)
<1>1. IsUnlocked \in Seq(Label) /\ Len(IsUnlocked) = 7
  BY IsIsUnlocked, Zenon
<1>2. /\ DOMAIN IsUnlocked = 1 .. 7
      /\ \A i \in DOMAIN IsUnlocked : i = 1 \/ i = 2 \/ i = 3 \/ i = 4 \/ i = 5 \/ i = 6 \/ i = 7
  BY <1>1
<1>3. /\ 3 + 1 = 4 /\ 4 \in 1 .. 7
  OBVIOUS
<1>4. ASSUME NEW i \in DOMAIN IsUnlocked
      PROVE  Rules(IsUnlocked, i) /\ CalmAt(IsUnlocked, i) /\ IsUnlocked[i] # "use token"
  <2>1. CASE i = 1
    BY <2>1, <1>2, <1>3, IsIsUnlocked, Zenon DEF Rules, CalmAt, After
  <2>2. CASE i = 2
    BY <2>2, <1>3, IsIsUnlocked, Zenon DEF Rules, CalmAt, After
  <2>3. CASE i = 3
    BY <2>3, <1>2, <1>3, IsIsUnlocked, Zenon DEF Rules, CalmAt, After
  <2>4. CASE i = 4
    BY <2>4, <1>3, IsIsUnlocked, Zenon DEF Rules, CalmAt, After
  <2>5. CASE i = 5
    BY <2>5, <1>3, IsIsUnlocked, Zenon DEF Rules, CalmAt, After
  <2>6. CASE i = 6
    BY <2>6, <1>3, IsIsUnlocked, Zenon DEF Rules, CalmAt, After
  <2>7. CASE i = 7
    BY <2>7, <1>3, IsIsUnlocked, Zenon DEF Rules, CalmAt, After
  <2> QED
    BY <1>2, <2>1, <2>2, <2>3, <2>4, <2>5, <2>6, <2>7, Zenon
<1> QED
  BY <1>1, <1>4, Zenon DEF Starting, Formed, Calm

LEMMA FineLogin == Login \in Seq(Label) /\ Formed(Login) /\ Calm(Login)
<1>1. Login \in Seq(Label) /\ Len(Login) = 11
  BY IsLogin, Zenon
<1>2. /\ DOMAIN Login = 1 .. 11
      /\ \A i \in DOMAIN Login : i = 1 \/ i = 2 \/ i = 3 \/ i = 4 \/ i = 5 \/ i = 6 \/ i = 7 \/ i = 8 \/ i = 9 \/ i = 10 \/ i = 11
  BY <1>1
<1>3. /\ 3 + 6 = 9 /\ 9 \in 1 .. 11 /\ 5 + 1 = 6 /\ 6 \in 1 .. 11 /\ 8 + 1 = 9 /\ 9 - 1 = 8
      /\ 9 - 2 = 7 /\ 9 - 3 = 6 /\ 9 - 4 = 5 /\ 9 - 5 = 4 /\ 9 - 6 = 3 /\ 9 - 7 = 2
      /\ 9 - 8 = 1 /\ 9 <= 9
  OBVIOUS
<1>4. ASSUME NEW i \in DOMAIN Login
      PROVE  Rules(Login, i) /\ CalmAt(Login, i)
  <2>1. CASE i = 1
    BY <2>1, <1>2, <1>3, IsLogin, Zenon DEF Rules, CalmAt, After, Before, EndsLogin
  <2>2. CASE i = 2
    BY <2>2, <1>3, IsLogin, Zenon DEF Rules, CalmAt, After, Before, EndsLogin
  <2>3. CASE i = 3
    BY <2>3, <1>2, <1>3, IsLogin, Zenon DEF Rules, CalmAt, After, Before, EndsLogin
  <2>4. CASE i = 4
    BY <2>4, <1>3, IsLogin, Zenon DEF Rules, CalmAt, After, Before, EndsLogin
  <2>5. CASE i = 5
    BY <2>5, <1>2, <1>3, IsLogin, Zenon DEF Rules, CalmAt, After, Before, EndsLogin
  <2>6. CASE i = 6
    BY <2>6, <1>3, IsLogin, Zenon DEF Rules, CalmAt, After, Before, EndsLogin
  <2>7. CASE i = 7
    BY <2>7, <1>3, IsLogin, Zenon DEF Rules, CalmAt, After, Before, EndsLogin
  <2>8. CASE i = 8
    BY <2>8, <1>2, <1>3, IsLogin, Zenon DEF Rules, CalmAt, After, Before, EndsLogin
  <2>9. CASE i = 9
    BY <2>9, <1>3, IsLogin, Zenon DEF Rules, CalmAt, After, Before, EndsLogin
  <2>10. CASE i = 10
    BY <2>10, <1>3, IsLogin, Zenon DEF Rules, CalmAt, After, Before, EndsLogin
  <2>11. CASE i = 11
    BY <2>11, <1>3, IsLogin, Zenon DEF Rules, CalmAt, After, Before, EndsLogin
  <2> QED
    BY <1>2, <2>1, <2>2, <2>3, <2>4, <2>5, <2>6, <2>7, <2>8, <2>9, <2>10, <2>11, Zenon
<1> QED
  BY <1>1, <1>4, Zenon DEF Formed, Calm

LEMMA FineNothing == Fine(<<>>)
  BY EmptySeq, Zenon DEF Fine, Formed, Free

LEMMA FineSetToken == Fine(<<"set token">>)
<1> DEFINE s == <<"set token">>
<1>0. s \in Seq(Label) /\ Len(s) = 1 /\ s[1] = "set token"
  BY LabelNames, One, Zenon
<1> HIDE DEF s
<1>1. s \in Seq(Label) /\ Len(s) = 1
  BY <1>0, Zenon
<1>2. /\ DOMAIN s = 1 .. 1
      /\ \A i \in DOMAIN s : i = 1
  BY <1>1
<1>3. ASSUME NEW i \in DOMAIN s
      PROVE  Rules(s, i) /\ CalmAt(s, i) /\ s[i] # "load" /\ s[i] # "use token"
  BY <1>2, <1>0, Zenon DEF Rules, CalmAt
<1> QED
  BY <1>1, <1>3, Zenon DEF Fine, Formed, Free, s

LEMMA FineReadDeadline == Fine(<<"read deadline">>)
<1> DEFINE s == <<"read deadline">>
<1>0. s \in Seq(Label) /\ Len(s) = 1 /\ s[1] = "read deadline"
  BY LabelNames, One, Zenon
<1> HIDE DEF s
<1>1. s \in Seq(Label) /\ Len(s) = 1
  BY <1>0, Zenon
<1>2. /\ DOMAIN s = 1 .. 1
      /\ \A i \in DOMAIN s : i = 1
  BY <1>1
<1>3. ASSUME NEW i \in DOMAIN s
      PROVE  Rules(s, i) /\ CalmAt(s, i) /\ s[i] # "load" /\ s[i] # "use token"
  BY <1>2, <1>0, Zenon DEF Rules, CalmAt
<1> QED
  BY <1>1, <1>3, Zenon DEF Fine, Formed, Free, s

LEMMA FineWait == Fine(<<"wait">>)
<1> DEFINE s == <<"wait">>
<1>0. s \in Seq(Label) /\ Len(s) = 1 /\ s[1] = "wait"
  BY LabelNames, One, Zenon
<1> HIDE DEF s
<1>1. s \in Seq(Label) /\ Len(s) = 1
  BY <1>0, Zenon
<1>2. /\ DOMAIN s = 1 .. 1
      /\ \A i \in DOMAIN s : i = 1
  BY <1>1
<1>3. ASSUME NEW i \in DOMAIN s
      PROVE  Rules(s, i) /\ CalmAt(s, i) /\ s[i] # "load" /\ s[i] # "use token"
  BY <1>2, <1>0, Zenon DEF Rules, CalmAt
<1> QED
  BY <1>1, <1>3, Zenon DEF Fine, Formed, Free, s

LEMMA FineReadStored == Fine(<<"wait", "read stored">>)
<1> DEFINE s == <<"wait", "read stored">>
<1>0. s \in Seq(Label) /\ Len(s) = 2 /\ s[1] = "wait" /\ s[2] = "read stored"
  BY LabelNames, Two, Zenon
<1> HIDE DEF s
<1>1. s \in Seq(Label) /\ Len(s) = 2
  BY <1>0, Zenon
<1>2. /\ DOMAIN s = 1 .. 2
      /\ \A i \in DOMAIN s : i = 1 \/ i = 2
  BY <1>1
<1>3. ASSUME NEW i \in DOMAIN s
      PROVE  Rules(s, i) /\ CalmAt(s, i) /\ s[i] # "load" /\ s[i] # "use token"
  BY <1>2, <1>0, Zenon DEF Rules, CalmAt
<1> QED
  BY <1>1, <1>3, Zenon DEF Fine, Formed, Free, s

LEMMA FineServe == Fine(<<"serve", "receive">>)
<1> DEFINE s == <<"serve", "receive">>
<1>0. s \in Seq(Label) /\ Len(s) = 2 /\ s[1] = "serve" /\ s[2] = "receive"
  BY LabelNames, Two, Zenon
<1> HIDE DEF s
<1>1. s \in Seq(Label) /\ Len(s) = 2
  BY <1>0, Zenon
<1>2. /\ DOMAIN s = 1 .. 2
      /\ \A i \in DOMAIN s : i = 1 \/ i = 2
  BY <1>1
<1>3. /\ 2 - 1 = 1 /\ 2 > 1
  OBVIOUS
<1>4. ASSUME NEW i \in DOMAIN s
      PROVE  Rules(s, i) /\ CalmAt(s, i) /\ s[i] # "load" /\ s[i] # "use token"
  BY <1>2, <1>3, <1>0, Zenon DEF Rules, CalmAt, Before
<1> QED
  BY <1>1, <1>4, Zenon DEF Fine, Formed, Free, s

LEMMA FineMinutes == Fine(<<"get mode", "minutes", "new deadline">>)
<1> DEFINE s == <<"get mode", "minutes", "new deadline">>
<1>0. s \in Seq(Label) /\ Len(s) = 3 /\ s[1] = "get mode" /\ s[2] = "minutes" /\ s[3] = "new deadline"
  BY LabelNames, Three, Zenon
<1> HIDE DEF s
<1>1. s \in Seq(Label) /\ Len(s) = 3
  BY <1>0, Zenon
<1>2. /\ DOMAIN s = 1 .. 3
      /\ \A i \in DOMAIN s : i = 1 \/ i = 2 \/ i = 3
  BY <1>1
<1>3. ASSUME NEW i \in DOMAIN s
      PROVE  Rules(s, i) /\ CalmAt(s, i) /\ s[i] # "load" /\ s[i] # "use token"
  BY <1>2, <1>0, Zenon DEF Rules, CalmAt
<1> QED
  BY <1>1, <1>3, Zenon DEF Fine, Formed, Free, s

(***************************************************************************)
(* Handlers                                                                *)
(***************************************************************************)
HandlerRecord ==
    [kind : Maybe(Kind), todo : Seq(Label), fresh : SUBSET Counter, mode : Maybe(Mode),
     token : Maybe(Token), at : Maybe(Time), version : Maybe(Nat)]

Handlers ==
    /\ handler \in [Proc -> HandlerRecord]
    /\ \A p \in Proc : Formed(Todo(p)) /\ (Idle(p) <=> Todo(p) = <<>>)

\* What a step leaves to a handler that does not take it.
Like(new, old) ==
    /\ new.kind = old.kind /\ new.todo = old.todo /\ new.token = old.token
    /\ new.version = old.version /\ new.fresh \subseteq old.fresh

\* Handler p takes a step.
Moves(p) ==
    /\ Handlers'
    /\ \A q \in Proc \ {p} : Like(handler'[q], handler[q])
    /\ Todo(p) # <<>>
    /\ handler'[p].todo = Rest(p) \/ Free(handler'[p].todo)
    /\ handler'[p] = IdleHandler \/ handler'[p].kind = handler[p].kind

\* It has ended, or has read nothing new.
Kept(p) ==
    \/ handler'[p] = IdleHandler
    \/ /\ handler'[p].token = handler[p].token /\ handler'[p].version = handler[p].version
       /\ handler'[p].fresh \subseteq handler[p].fresh

LEMMA HandlerFields ==
    ASSUME NEW r \in HandlerRecord
    PROVE  /\ r.kind \in Maybe(Kind) /\ r.todo \in Seq(Label) /\ r.fresh \subseteq Counter
           /\ r.mode \in Maybe(Mode) /\ r.token \in Maybe(Token) /\ r.at \in Maybe(Time)
           /\ r.version \in Maybe(Nat)
  BY DEF HandlerRecord

LEMMA IdleIsHandler ==
    /\ IdleHandler \in HandlerRecord /\ IdleHandler.kind = None /\ IdleHandler.todo = <<>>
    /\ IdleHandler.token = None /\ IdleHandler.version = None /\ IdleHandler.fresh = {}
    /\ IdleHandler.mode = None /\ IdleHandler.at = None
  BY EmptySeq DEF IdleHandler, HandlerRecord, Maybe

LEMMA RestOf ==
    ASSUME Handlers, NEW p \in Proc, Todo(p) # <<>>
    PROVE  /\ Rest(p) \in Seq(Label) /\ Formed(Rest(p))
           /\ Head(Todo(p)) \notin Chain => Fine(Rest(p))
<1>1. Todo(p) \in Seq(Label) /\ Formed(Todo(p)) /\ Rest(p) = Tail(Todo(p))
  BY HandlerFields DEF Handlers, Todo, Rest
<1> QED
  BY <1>1, TailPlaces, FormedTail, FreeTail, Zenon DEF Fine

\* Handlers hs, of which p goes on with todo.
LEMMA GoingFields ==
    ASSUME NEW hs \in [Proc -> HandlerRecord], NEW p \in Proc, NEW todo \in Seq(Label),
           NEW g, g = Going(hs, p, todo)
    PROVE  /\ g \in [Proc -> HandlerRecord]
           /\ \A q \in Proc \ {p} : g[q] = hs[q]
           /\ g[p].todo = todo
           /\ todo = <<>> => g[p] = IdleHandler
           /\ todo # <<>> => /\ g[p].kind = hs[p].kind /\ g[p].fresh = hs[p].fresh
                             /\ g[p].mode = hs[p].mode /\ g[p].token = hs[p].token
                             /\ g[p].at = hs[p].at /\ g[p].version = hs[p].version
<1>1. CASE todo = <<>>
  <2>1. g = [hs EXCEPT ![p] = IdleHandler]
    BY <1>1 DEF Going
  <2>2. /\ g \in [Proc -> HandlerRecord] /\ g[p] = IdleHandler
        /\ \A q \in Proc \ {p} : g[q] = hs[q]
    BY <2>1, IdleIsHandler
  <2> QED
    BY <1>1, <2>2, IdleIsHandler, Zenon
<1>2. CASE todo # <<>>
  <2>1. g = [hs EXCEPT ![p] = [hs[p] EXCEPT !.todo = todo]]
    BY <1>2 DEF Going
  <2>2. hs[p] \in HandlerRecord
    OBVIOUS
  <2> DEFINE r == [hs[p] EXCEPT !.todo = todo]
  <2>3. /\ r \in HandlerRecord
        /\ r.todo = todo /\ r.kind = hs[p].kind /\ r.fresh = hs[p].fresh
        /\ r.mode = hs[p].mode /\ r.token = hs[p].token
        /\ r.at = hs[p].at /\ r.version = hs[p].version
    BY <2>2 DEF HandlerRecord
  <2> HIDE DEF r
  <2>4. g = [hs EXCEPT ![p] = r]
    BY <2>1 DEF r
  <2>5. g \in [Proc -> HandlerRecord] /\ g[p] = r /\ \A q \in Proc \ {p} : g[q] = hs[q]
    BY <2>3, <2>4
  <2> QED
    BY <1>2, <2>3, <2>5, Zenon
<1> QED
  BY <1>1, <1>2

LEMMA GoingMoves ==
    ASSUME Handlers, NEW p \in Proc, Todo(p) # <<>>,
           NEW hs \in [Proc -> HandlerRecord], hs[p].kind = handler[p].kind,
           \A q \in Proc \ {p} : Like(hs[q], handler[q]),
           NEW todo, todo = Rest(p) \/ Fine(todo),
           handler' = Going(hs, p, todo)
    PROVE  /\ Moves(p) /\ handler'[p].todo = todo
           /\ \/ handler'[p] = IdleHandler
              \/ /\ handler'[p].fresh = hs[p].fresh /\ handler'[p].token = hs[p].token
                 /\ handler'[p].version = hs[p].version
<1>1. todo \in Seq(Label) /\ Formed(todo) /\ (todo = Rest(p) \/ Free(todo))
  BY RestOf, Zenon DEF Fine
<1>2. /\ handler' \in [Proc -> HandlerRecord]
      /\ \A q \in Proc \ {p} : handler'[q] = hs[q]
      /\ handler'[p].todo = todo
      /\ todo = <<>> => handler'[p] = IdleHandler
      /\ todo # <<>> => /\ handler'[p].kind = hs[p].kind /\ handler'[p].fresh = hs[p].fresh
                        /\ handler'[p].token = hs[p].token /\ handler'[p].version = hs[p].version
  <2> DEFINE g == Going(hs, p, todo)
  <2>1. todo \in Seq(Label) /\ g = Going(hs, p, todo) /\ handler' = g
    BY <1>1
  <2> HIDE DEF g
  <2>2. /\ g \in [Proc -> HandlerRecord]
        /\ \A q \in Proc \ {p} : g[q] = hs[q]
        /\ g[p].todo = todo
        /\ todo = <<>> => g[p] = IdleHandler
        /\ todo # <<>> => /\ g[p].kind = hs[p].kind /\ g[p].fresh = hs[p].fresh
                          /\ g[p].token = hs[p].token /\ g[p].version = hs[p].version
    BY <2>1, GoingFields
  <2> QED
    BY <2>1, <2>2, Zenon
<1>3. \A q \in Proc \ {p} : Like(handler'[q], handler[q])
  BY <1>2, Zenon
<1>4. \A q \in Proc : Formed(handler'[q].todo)
  <2>1. \A q \in Proc \ {p} : handler'[q].todo = handler[q].todo
    BY <1>3, Zenon DEF Like
  <2>2. \A q \in Proc : Formed(handler[q].todo)
    BY Zenon DEF Handlers, Todo
  <2> QED
    BY <1>1, <1>2, <2>1, <2>2, Zenon
<1>5. \A q \in Proc : handler'[q].kind = None <=> handler'[q].todo = <<>>
  <2>1. \A q \in Proc : handler[q].kind = None <=> handler[q].todo = <<>>
    BY Zenon DEF Handlers, Todo, Idle
  <2>2. \A q \in Proc \ {p} : handler'[q].todo = handler[q].todo /\ handler'[q].kind = handler[q].kind
    BY <1>3, Zenon DEF Like
  <2>3. handler'[p].kind = None <=> handler'[p].todo = <<>>
    BY <1>2, <2>1, IdleIsHandler, Zenon DEF Todo
  <2> QED
    BY <2>1, <2>2, <2>3, Zenon
<1>6. Handlers'
  BY <1>2, <1>4, <1>5, Zenon DEF Handlers, Todo, Idle
<1> QED
  BY <1>1, <1>2, <1>3, <1>6, Zenon DEF Moves

LEMMA GoesMoves ==
    ASSUME Handlers, NEW p \in Proc, Todo(p) # <<>>, NEW todo, todo = Rest(p) \/ Fine(todo), Goes(p, todo)
    PROVE  Moves(p) /\ Kept(p) /\ handler'[p].todo = todo
<1>1. handler \in [Proc -> HandlerRecord] /\ handler' = Going(handler, p, todo)
  BY DEF Handlers, Goes
<1>2. \A q \in Proc \ {p} : Like(handler[q], handler[q])
  BY DEF Like
<1> QED
  BY <1>1, <1>2, GoingMoves DEF Kept

\* Handler p goes on as r.
LEMMA GoesAsMoves ==
    ASSUME Handlers, NEW p \in Proc, Todo(p) # <<>>, NEW todo, todo = Rest(p) \/ Fine(todo),
           NEW r \in HandlerRecord, r.kind = handler[p].kind,
           handler' = Going([handler EXCEPT ![p] = r], p, todo)
    PROVE  /\ Moves(p) /\ handler'[p].todo = todo
           /\ \/ handler'[p] = IdleHandler
              \/ handler'[p].fresh = r.fresh /\ handler'[p].token = r.token /\ handler'[p].version = r.version
<1> DEFINE hs == [handler EXCEPT ![p] = r]
<1>1. handler \in [Proc -> HandlerRecord]
  BY DEF Handlers
<1>2. hs \in [Proc -> HandlerRecord] /\ hs[p] = r /\ \A q \in Proc \ {p} : hs[q] = handler[q]
  BY <1>1
<1>3. handler' = Going(hs, p, todo)
  OBVIOUS
<1> HIDE DEF hs
<1>4. \A q \in Proc \ {p} : Like(hs[q], handler[q])
  BY <1>2 DEF Like
<1>5. hs[p].kind = handler[p].kind
  BY <1>2
<1>6. /\ Moves(p) /\ handler'[p].todo = todo
      /\ \/ handler'[p] = IdleHandler
         \/ /\ handler'[p].fresh = hs[p].fresh /\ handler'[p].token = hs[p].token
            /\ handler'[p].version = hs[p].version
  BY <1>2, <1>3, <1>4, <1>5, GoingMoves
<1> QED
  BY <1>2, <1>6, Zenon

LEMMA MovedFields ==
    ASSUME NEW hs \in [Proc -> HandlerRecord], NEW counter
    PROVE  /\ Moved(hs, counter) \in [Proc -> HandlerRecord]
           /\ \A q \in Proc :
                 /\ Moved(hs, counter)[q].fresh = hs[q].fresh \ {counter}
                 /\ Moved(hs, counter)[q].kind = hs[q].kind /\ Moved(hs, counter)[q].todo = hs[q].todo
                 /\ Moved(hs, counter)[q].token = hs[q].token
                 /\ Moved(hs, counter)[q].version = hs[q].version
                 /\ Moved(hs, counter)[q].mode = hs[q].mode /\ Moved(hs, counter)[q].at = hs[q].at
<1>1. \A q \in Proc : hs[q] \in HandlerRecord
  OBVIOUS
<1>2. ASSUME NEW r \in HandlerRecord
      PROVE  LET n == [r EXCEPT !.fresh = @ \ {counter}] IN
             /\ n \in HandlerRecord /\ n.fresh = r.fresh \ {counter}
             /\ n.kind = r.kind /\ n.todo = r.todo /\ n.token = r.token /\ n.version = r.version
             /\ n.mode = r.mode /\ n.at = r.at
  BY <1>2 DEF HandlerRecord
<1>3. Moved(hs, counter) = [q \in Proc |-> [hs[q] EXCEPT !.fresh = @ \ {counter}]]
  BY DEF Moved
<1> QED
  BY <1>1, <1>2, <1>3

\* Handler p goes on after a counter has moved.
LEMMA GoesMovedMoves ==
    ASSUME Handlers, NEW p \in Proc, Todo(p) # <<>>, NEW todo, todo = Rest(p) \/ Fine(todo), NEW counter,
           handler' = Going(Moved(handler, counter), p, todo)
    PROVE  /\ Moves(p) /\ Kept(p) /\ handler'[p].todo = todo
           /\ \A q \in Proc : counter \notin handler'[q].fresh
<1> DEFINE hs == Moved(handler, counter)
<1>1. handler \in [Proc -> HandlerRecord] /\ handler' = Going(hs, p, todo)
  BY DEF Handlers
<1>2. /\ hs \in [Proc -> HandlerRecord]
      /\ \A q \in Proc : /\ hs[q].fresh = handler[q].fresh \ {counter}
                         /\ hs[q].kind = handler[q].kind /\ hs[q].todo = handler[q].todo
                         /\ hs[q].token = handler[q].token /\ hs[q].version = handler[q].version
  BY <1>1, MovedFields
<1> HIDE DEF hs
<1>3. \A q \in Proc : Like(hs[q], handler[q])
  BY <1>2 DEF Like
<1>4. /\ Moves(p) /\ handler'[p].todo = todo
      /\ \/ handler'[p] = IdleHandler
         \/ /\ handler'[p].fresh = hs[p].fresh /\ handler'[p].token = hs[p].token
            /\ handler'[p].version = hs[p].version
  BY <1>1, <1>2, <1>3, GoingMoves
<1>5. \A q \in Proc \ {p} : handler'[q] = hs[q]
  <2>1. todo \in Seq(Label)
    BY RestOf, Zenon DEF Fine
  <2> DEFINE g == Going(hs, p, todo)
  <2>2. g = Going(hs, p, todo) /\ handler' = g
    BY <1>1
  <2> HIDE DEF g
  <2>3. \A q \in Proc \ {p} : g[q] = hs[q]
    BY <1>2, <2>1, <2>2, GoingFields
  <2> QED
    BY <2>2, <2>3
<1>6. Kept(p)
  BY <1>2, <1>4 DEF Kept
<1>7. \A q \in Proc : counter \notin handler'[q].fresh
  <2>1. counter \notin handler'[p].fresh
    BY <1>2, <1>4, IdleIsHandler
  <2>2. \A q \in Proc \ {p} : counter \notin handler'[q].fresh
    BY <1>2, <1>5
  <2> QED
    BY <2>1, <2>2
<1> QED
  BY <1>4, <1>6, <1>7

LEMMA AtHead ==
    ASSUME NEW p, NEW label, At(p, label)
    PROVE  Todo(p) # <<>> /\ Head(Todo(p)) = label
  BY DEF At, Todo

LEMMA FineNull == \A p : Fine(Null(p))
  BY FineClearCache, FineNothing, Zenon DEF Null

LEMMA FineChecked ==
    ASSUME NEW p, NEW t, NEW rest, Fine(rest)
    PROVE  Fine(Checked(p, t, rest))
<1>1. Fine(<<"read deadline">>) /\ Fine(ForgetDeadline) /\ Fine(<<"set token">>)
  BY FineReadDeadline, FineForgetDeadline, FineSetToken
<1>2. /\ Fine((<<"read deadline">> \o <<"set token">>) \o rest)
      /\ Fine((ForgetDeadline \o <<"set token">>) \o rest)
  BY <1>1, FinePushed, Zenon
<1>3. /\ Fine(<<"read deadline">> \o <<"set token">> \o rest)
      /\ Fine(ForgetDeadline \o <<"set token">> \o rest)
  BY <1>2
<1> QED
  BY <1>3, FineNull, Zenon DEF Checked

LEMMA FineExpired ==
    ASSUME Handlers, NEW p \in Proc, At(p, "read deadline"), deadline \in Maybe(Time)
    PROVE  Expired(p) = Rest(p) \/ Fine(Expired(p))
<1>1. Fine(Rest(p))
  <2>1. Todo(p) # <<>> /\ Head(Todo(p)) = "read deadline"
    BY AtHead, Zenon
  <2>2. Head(Todo(p)) \notin Chain
    BY <2>1, Zenon DEF Chain
  <2> QED
    BY <2>1, <2>2, RestOf, Zenon
<1>2. Fine(ClearToken \o Null(p)) /\ Fine(Schedule \o Rest(p))
  BY <1>1, FineClearToken, FineNull, FineSchedule, FinePushed, Zenon
<1>3. deadline = None \/ deadline = "passed" \/ deadline = "ahead"
  BY Zenon DEF Maybe, Time
<1> QED
  BY <1>1, <1>2, <1>3 DEF Expired

LEMMA GetModeMoves ==
    ASSUME Handlers, NEW p \in Proc, GetMode(p), cachedMode \in Maybe(Mode), mode \in Mode
    PROVE  Moves(p) /\ Kept(p) /\ handler'[p].todo = Rest(p)
<1> DEFINE m == IF cachedMode # None THEN cachedMode ELSE mode
           r == [handler[p] EXCEPT !.mode = m]
<1>1. handler \in [Proc -> HandlerRecord]
  BY DEF Handlers
<1>2. /\ r \in HandlerRecord /\ r.kind = handler[p].kind /\ r.fresh = handler[p].fresh
      /\ r.token = handler[p].token /\ r.version = handler[p].version
  BY <1>1 DEF HandlerRecord, Maybe
<1>3. handler' = Going([handler EXCEPT ![p] = r], p, Rest(p)) /\ Todo(p) # <<>>
  BY AtHead DEF GetMode
<1> HIDE DEF r
<1> QED
  BY <1>2, <1>3, GoesAsMoves DEF Kept

LEMMA LoadBeginsMoves ==
    ASSUME Handlers, NEW p \in Proc, LoadBegins(p)
    PROVE  /\ Moves(p) /\ (handler'[p].todo = Rest(p) \/ Fine(handler'[p].todo))
           /\ \/ Kept(p)
              \/ /\ ~clearing /\ handler'[p].token = handler[p].token
                 /\ handler'[p].version = handler[p].version
                 /\ handler'[p].fresh \subseteq handler[p].fresh \cup {"clears"}
<1>0. Todo(p) # <<>> /\ handler \in [Proc -> HandlerRecord]
  BY AtHead DEF LoadBegins, Handlers
<1>1. CASE clearing
  <2>1. Goes(p, Null(p)) /\ Fine(Null(p))
    BY <1>1, FineNull DEF LoadBegins
  <2> QED
    BY <1>0, <2>1, GoesMoves
<1>2. CASE ~clearing
  <2> DEFINE r == [handler[p] EXCEPT !.fresh = @ \cup {"clears"}]
  <2>1. /\ r \in HandlerRecord /\ r.kind = handler[p].kind /\ r.fresh = handler[p].fresh \cup {"clears"}
        /\ r.token = handler[p].token /\ r.version = handler[p].version
    BY <1>0 DEF HandlerRecord, Counter
  <2>2. handler' = Going([handler EXCEPT ![p] = r], p, Rest(p))
    BY <1>2 DEF LoadBegins
  <2> HIDE DEF r
  <2>3. /\ Moves(p) /\ handler'[p].todo = Rest(p)
        /\ \/ handler'[p] = IdleHandler
           \/ /\ handler'[p].fresh = r.fresh /\ handler'[p].token = r.token
              /\ handler'[p].version = r.version
    BY <1>0, <2>1, <2>2, GoesAsMoves
  <2>4. CASE handler'[p] = IdleHandler
    BY <2>3, <2>4, Zenon DEF Kept
  <2>5. CASE /\ handler'[p].fresh = r.fresh /\ handler'[p].token = r.token
             /\ handler'[p].version = r.version
    <3>1. handler'[p].fresh \subseteq handler[p].fresh \cup {"clears"}
      BY <2>1, <2>5, Zenon
    <3> QED
      BY <1>2, <2>1, <2>3, <2>5, <3>1, Zenon
  <2> QED
    BY <2>3, <2>4, <2>5, Zenon
<1> QED
  BY <1>1, <1>2

LEMMA ReadSavedMoves ==
    ASSUME Handlers, NEW p \in Proc, ReadSaved(p), saved \in [Area -> Maybe(Token)]
    PROVE  /\ Moves(p) /\ Fine(handler'[p].todo)
           /\ \/ handler'[p] = IdleHandler
              \/ /\ \E a \in Area : handler'[p].token = saved[a]
                 /\ handler'[p].version = handler[p].version
                 /\ handler'[p].fresh = handler[p].fresh
<1> DEFINE inSession == At(p, "read session")
           a == IF inSession THEN "session" ELSE "local"
           t == saved[a]
           r == [handler[p] EXCEPT !.token = t]
<1>0. Todo(p) # <<>> /\ handler \in [Proc -> HandlerRecord]
  BY AtHead DEF ReadSaved, Handlers
<1>1. a \in Area /\ t \in Maybe(Token)
  BY DEF Area
<1>2. /\ r \in HandlerRecord /\ r.kind = handler[p].kind /\ r.fresh = handler[p].fresh
      /\ r.token = t /\ r.version = handler[p].version
  BY <1>0, <1>1 DEF HandlerRecord
<1>3. Fine(Rest(p))
  <2>1. Head(Todo(p)) \notin Chain
    <3>1. Head(Todo(p)) = "read session" \/ Head(Todo(p)) = "read local"
      BY AtHead, Zenon DEF ReadSaved
    <3> QED
      BY <3>1, Zenon DEF Chain
  <2> QED
    BY <2>1, <1>0, RestOf, Zenon
<1>4. ASSUME inSession PROVE Fine(Tail(Rest(p)))
  <2>1. /\ Todo(p) \in Seq(Label) /\ Formed(Todo(p)) /\ Head(Todo(p)) = "read session"
    BY <1>0, <1>4, AtHead, HandlerFields DEF Handlers, Todo
  <2>2. /\ 1 \in DOMAIN Todo(p) /\ Todo(p)[1] = "read session" /\ Rest(p) = Tail(Todo(p))
        /\ Len(Todo(p)) \in Nat /\ DOMAIN Todo(p) = 1 .. Len(Todo(p))
        /\ \A i \in 1 .. Len(Todo(p)) - 1 : Rest(p)[i] = Todo(p)[i + 1]
        /\ DOMAIN Rest(p) = 1 .. Len(Todo(p)) - 1 /\ Rest(p) \in Seq(Label)
    <3>1. Rest(p) = Tail(Todo(p))
      BY DEF Rest, Todo
    <3>2. /\ Todo(p)[1] = "read session" /\ Len(Todo(p)) \in Nat /\ Len(Todo(p)) >= 1
          /\ DOMAIN Todo(p) = 1 .. Len(Todo(p))
          /\ \A i \in 1 .. Len(Todo(p)) - 1 : Tail(Todo(p))[i] = Todo(p)[i + 1]
          /\ DOMAIN Tail(Todo(p)) = 1 .. Len(Todo(p)) - 1 /\ Tail(Todo(p)) \in Seq(Label)
      BY <1>0, <2>1, TailPlaces, Zenon
    <3>3. 1 \in 1 .. Len(Todo(p))
      <4>1. Len(Todo(p)) \in Nat /\ Len(Todo(p)) >= 1
        BY <3>2, Zenon
      <4> QED
        BY <4>1
    <3> QED
      BY <3>1, <3>2, <3>3, Zenon
  <2>3. After(Todo(p), 1, 1, "read local")
    BY <2>1, <2>2, Zenon DEF Formed, Rules
  <2>4. 2 \in DOMAIN Todo(p) /\ Todo(p)[2] = "read local"
    <3>1. 1 + 1 = 2
      OBVIOUS
    <3> QED
      BY <2>3, <3>1, Zenon DEF After
  <2>5. 1 \in DOMAIN Rest(p) /\ Rest(p)[1] = "read local"
    <3>1. 1 \in 1 .. Len(Todo(p)) - 1 /\ 1 + 1 = 2
      <4>1. Len(Todo(p)) \in Nat /\ 2 \in 1 .. Len(Todo(p))
        BY <2>2, <2>4, Zenon
      <4> QED
        BY <4>1
    <3> QED
      BY <2>2, <2>4, <3>1, Zenon
  <2>6. Rest(p) # <<>>
    BY <2>5, EmptySeq
  <2>7. Head(Rest(p)) = "read local"
    BY <2>2, <2>5, <2>6, TailPlaces, Zenon
  <2>8. Head(Rest(p)) \notin Chain
    BY <2>7, Zenon DEF Chain
  <2>9. Tail(Rest(p)) \in Seq(Label) /\ Formed(Tail(Rest(p))) /\ Free(Tail(Rest(p)))
    BY <1>3, <2>2, <2>6, <2>8, TailPlaces, FormedTail, FreeTail, Zenon DEF Fine
  <2> QED
    BY <2>9 DEF Fine
<1>5. \E todo : Fine(todo) /\ handler' = Going([handler EXCEPT ![p] = r], p, todo)
  <2> DEFINE hs == [handler EXCEPT ![p] = r]
  <2>1. \/ inSession /\ handler' = Going(hs, p, Rest(p))
        \/ inSession /\ handler' = Going(hs, p, Checked(p, t, Tail(Rest(p))))
        \/ ~inSession /\ handler' = Going(hs, p, Checked(p, t, Rest(p)))
    BY DEF ReadSaved
  <2> HIDE DEF hs, t, inSession
  <2>2. inSession => Fine(Checked(p, t, Tail(Rest(p))))
    BY <1>4, FineChecked, Zenon
  <2>3. Fine(Checked(p, t, Rest(p)))
    BY <1>3, FineChecked, Zenon
  <2>4. \E todo : Fine(todo) /\ handler' = Going(hs, p, todo)
    BY <1>3, <2>1, <2>2, <2>3, Zenon
  <2> QED
    BY <2>4 DEF hs
<1> HIDE DEF r
<1>6. PICK todo : Fine(todo) /\ handler' = Going([handler EXCEPT ![p] = r], p, todo)
  BY <1>5
<1>7. /\ Moves(p) /\ handler'[p].todo = todo
      /\ \/ handler'[p] = IdleHandler
         \/ handler'[p].fresh = r.fresh /\ handler'[p].token = r.token /\ handler'[p].version = r.version
  BY <1>0, <1>2, <1>6, GoesAsMoves
<1> QED
  BY <1>1, <1>2, <1>6, <1>7

LEMMA ContinueMoves ==
    ASSUME Handlers, NEW p \in Proc, Todo(p) # <<>>, Continue(p)
    PROVE  Moves(p) /\ Kept(p) /\ handler'[p].todo = Rest(p)
  BY GoesMoves DEF Continue

\* Handler p notes a time and goes on.
LEMMA AtMoves ==
    ASSUME Handlers, NEW p \in Proc, Todo(p) # <<>>, NEW todo, todo = Rest(p) \/ Fine(todo),
           NEW d \in Maybe(Time), handler' = Going([handler EXCEPT ![p].at = d], p, todo)
    PROVE  Moves(p) /\ Kept(p)
<1> DEFINE r == [handler[p] EXCEPT !.at = d]
<1>1. handler \in [Proc -> HandlerRecord]
  BY DEF Handlers
<1>2. /\ r \in HandlerRecord /\ r.kind = handler[p].kind /\ r.fresh = handler[p].fresh
      /\ r.token = handler[p].token /\ r.version = handler[p].version
  BY <1>1 DEF HandlerRecord
<1>3. handler' = Going([handler EXCEPT ![p] = r], p, todo)
  OBVIOUS
<1> HIDE DEF r
<1>4. /\ Moves(p)
      /\ \/ handler'[p] = IdleHandler
         \/ handler'[p].fresh = r.fresh /\ handler'[p].token = r.token /\ handler'[p].version = r.version
  BY <1>2, <1>3, GoesAsMoves
<1> QED
  BY <1>2, <1>4 DEF Kept

LEMMA ReadDeadlineMoves ==
    ASSUME Handlers, NEW p \in Proc, ReadDeadline(p), deadline \in Maybe(Time)
    PROVE  Moves(p) /\ Kept(p)
<1>1. /\ At(p, "read deadline") /\ handler' = Going([handler EXCEPT ![p].at = deadline], p, Expired(p))
  BY DEF ReadDeadline
<1>2. Todo(p) # <<>> /\ (Expired(p) = Rest(p) \/ Fine(Expired(p)))
  BY <1>1, AtHead, FineExpired
<1> QED
  BY <1>1, <1>2, AtMoves

LEMMA SetTokenMoves ==
    ASSUME Handlers, NEW p \in Proc, SetToken(p)
    PROVE  /\ Moves(p) /\ Kept(p)
           /\ \/ UNCHANGED token
              \/ token' = handler[p].token /\ token' # None /\ ~clearing /\ "clears" \in handler[p].fresh
<1> DEFINE t == handler[p].token
<1>1. Todo(p) # <<>>
  BY AtHead DEF SetToken
<1>2. CASE ~Unmoved(p) \/ t = None
  <2>1. Goes(p, Null(p)) /\ UNCHANGED token /\ Fine(Null(p))
    BY <1>2, FineNull DEF SetToken
  <2> QED
    BY <1>1, <2>1, GoesMoves
<1>3. CASE Unmoved(p) /\ t # None
  <2>1. /\ token' = t /\ ~clearing /\ "clears" \in handler[p].fresh
        /\ \/ handler' = Going(handler, p, Rest(p))
           \/ handler' = Going(Moved(handler, "token"), p, Rest(p))
    BY <1>3 DEF SetToken, Unmoved
  <2>2. CASE handler' = Going(handler, p, Rest(p))
    <3>1. Goes(p, Rest(p))
      BY <2>2 DEF Goes
    <3> QED
      BY <1>1, <1>3, <2>1, <3>1, GoesMoves
  <2>3. CASE handler' = Going(Moved(handler, "token"), p, Rest(p))
    BY <1>1, <1>3, <2>1, <2>3, GoesMovedMoves
  <2> QED
    BY <2>1, <2>2, <2>3
<1> QED
  BY <1>2, <1>3

LEMMA DeadlineMoves ==
    ASSUME Handlers, NEW p \in Proc,
           \/ RemoveDeadline(p) \/ ClearAlarm(p) \/ CreateAlarm(p) \/ SetDeadline(p)
           \/ MinutesChanged(p) \/ NewDeadline(p)
    PROVE  Moves(p) /\ Kept(p)
<1>1. ASSUME RemoveDeadline(p) \/ ClearAlarm(p) PROVE Moves(p) /\ Kept(p)
  <2>1. Todo(p) # <<>> /\ Continue(p)
    BY <1>1, AtHead DEF RemoveDeadline, ClearAlarm
  <2> QED
    BY <2>1, ContinueMoves
<1>2. ASSUME CreateAlarm(p) PROVE Moves(p) /\ Kept(p)
  <2>1. At(p, "create alarm") /\ (Goes(p, ClearToken \o Rest(p)) \/ Continue(p))
    BY <1>2 DEF CreateAlarm
  <2>2. Todo(p) # <<>> /\ Head(Todo(p)) = "create alarm"
    BY <2>1, AtHead
  <2>3. Head(Todo(p)) \notin Chain
    BY <2>2, Zenon DEF Chain
  <2>4. Fine(ClearToken \o Rest(p))
    BY <2>2, <2>3, RestOf, FineClearToken, FinePushed, Zenon
  <2> QED
    BY <2>1, <2>2, <2>4, ContinueMoves, GoesMoves
<1>3. ASSUME SetDeadline(p) PROVE Moves(p) /\ Kept(p)
  <2>1. At(p, "set deadline")
    BY <1>3 DEF SetDeadline
  <2>2. Todo(p) # <<>> /\ Head(Todo(p)) = "set deadline"
    BY <2>1, AtHead
  <2>3. Head(Todo(p)) \notin Chain
    BY <2>2, Zenon DEF Chain
  <2>4. Fine(ForgetDeadline \o Rest(p)) /\ Fine(Schedule \o Rest(p))
    BY <2>2, <2>3, RestOf, FineForgetDeadline, FineSchedule, FinePushed, Zenon
  <2>5. \/ Goes(p, ForgetDeadline \o Rest(p))
        \/ handler' = Going([handler EXCEPT ![p].at = "ahead"], p, Schedule \o Rest(p))
    BY <1>3 DEF SetDeadline
  <2>6. "ahead" \in Maybe(Time)
    BY DEF Maybe, Time
  <2> QED
    BY <2>2, <2>4, <2>5, <2>6, GoesMoves, AtMoves
<1>4. ASSUME MinutesChanged(p) PROVE Moves(p) /\ Kept(p)
  <2>1. Todo(p) # <<>> /\ (Goes(p, Rest(p)) \/ Goes(p, <<>>))
    BY <1>4, AtHead DEF MinutesChanged
  <2> QED
    BY <2>1, FineNothing, GoesMoves
<1>5. ASSUME NewDeadline(p) PROVE Moves(p) /\ Kept(p)
  <2>1. Todo(p) # <<>>
    BY <1>5, AtHead DEF NewDeadline
  <2>2. PICK d \in Time : handler' = Going([handler EXCEPT ![p].at = d], p, Schedule)
    BY <1>5 DEF NewDeadline
  <2>3. d \in Maybe(Time)
    BY DEF Maybe
  <2> QED
    BY <2>1, <2>2, <2>3, FineSchedule, AtMoves
<1> QED
  BY <1>1, <1>2, <1>3, <1>4, <1>5

LEMMA ForgetMoves ==
    ASSUME Handlers, NEW p \in Proc, Forget(p)
    PROVE  /\ Moves(p) /\ Kept(p) /\ handler'[p].todo = Rest(p)
           /\ \A q \in Proc : "clears" \notin handler'[q].fresh
<1> DEFINE ms == Moved(handler, "token")
           hs == Moved(ms, "clears")
<1>0. Todo(p) # <<>> /\ handler \in [Proc -> HandlerRecord]
  BY AtHead DEF Forget, Handlers
<1>1. /\ ms \in [Proc -> HandlerRecord]
      /\ \A q \in Proc : /\ ms[q].fresh = handler[q].fresh \ {"token"}
                         /\ ms[q].kind = handler[q].kind /\ ms[q].todo = handler[q].todo
                         /\ ms[q].token = handler[q].token /\ ms[q].version = handler[q].version
  BY <1>0, MovedFields
<1>2. handler' = Going(hs, p, Rest(p))
  BY DEF Forget
<1> HIDE DEF ms
<1>3. /\ hs \in [Proc -> HandlerRecord]
      /\ \A q \in Proc : /\ hs[q].fresh = ms[q].fresh \ {"clears"}
                         /\ hs[q].kind = ms[q].kind /\ hs[q].todo = ms[q].todo
                         /\ hs[q].token = ms[q].token /\ hs[q].version = ms[q].version
  BY <1>1, MovedFields
<1> HIDE DEF hs
<1>4. \A q \in Proc : Like(hs[q], handler[q]) /\ "clears" \notin hs[q].fresh
  BY <1>1, <1>3 DEF Like
<1>5. /\ Moves(p) /\ handler'[p].todo = Rest(p)
      /\ \/ handler'[p] = IdleHandler
         \/ /\ handler'[p].fresh = hs[p].fresh /\ handler'[p].token = hs[p].token
            /\ handler'[p].version = hs[p].version
  BY <1>0, <1>2, <1>3, <1>4, GoingMoves DEF Like
<1>6. \A q \in Proc \ {p} : handler'[q] = hs[q]
  <2>1. Rest(p) \in Seq(Label)
    BY <1>0, RestOf
  <2> DEFINE g == Going(hs, p, Rest(p))
  <2>2. g = Going(hs, p, Rest(p)) /\ handler' = g
    BY <1>2
  <2> HIDE DEF g
  <2>3. \A q \in Proc \ {p} : g[q] = hs[q]
    BY <1>3, <2>1, <2>2, GoingFields
  <2> QED
    BY <2>2, <2>3
<1>7. Kept(p)
  BY <1>4, <1>5 DEF Kept, Like
<1>8. \A q \in Proc : "clears" \notin handler'[q].fresh
  BY <1>4, <1>5, <1>6, IdleIsHandler
<1> QED
  BY <1>5, <1>7, <1>8

LEMMA LockMoves ==
    ASSUME Handlers, NEW p \in Proc,
           ClearPopup(p) \/ Remove(p) \/ Cleared(p) \/ SaveToken(p) \/ Waited(p) \/ Mutated(p)
    PROVE  Moves(p) /\ Kept(p) /\ handler'[p].todo = Rest(p)
<1>1. Todo(p) # <<>> /\ Continue(p)
  BY AtHead DEF ClearPopup, Remove, Cleared, SaveToken, Waited, Mutated
<1> QED
  BY <1>1, ContinueMoves

\* Handler p reads its counters anew and goes on.
LEMMA ReadsMoves ==
    ASSUME Handlers, NEW p \in Proc, Todo(p) # <<>>, NEW todo, todo = Rest(p) \/ Fine(todo),
           NEW counters \in SUBSET Counter, handler' = Going([handler EXCEPT ![p].fresh = counters], p, todo)
    PROVE  /\ Moves(p) /\ handler'[p].todo = todo
           /\ \/ handler'[p] = IdleHandler
              \/ /\ handler'[p].token = handler[p].token /\ handler'[p].version = handler[p].version
                 /\ handler'[p].fresh = counters
<1> DEFINE r == [handler[p] EXCEPT !.fresh = counters]
<1>1. handler \in [Proc -> HandlerRecord]
  BY DEF Handlers
<1>2. /\ r \in HandlerRecord /\ r.kind = handler[p].kind /\ r.fresh = counters
      /\ r.token = handler[p].token /\ r.version = handler[p].version
  BY <1>1 DEF HandlerRecord
<1> DEFINE hs == [handler EXCEPT ![p] = r]
<1>3. handler' = Going(hs, p, todo)
  OBVIOUS
<1> HIDE DEF r
<1>5. hs \in [Proc -> HandlerRecord] /\ hs[p] = r /\ \A q \in Proc \ {p} : hs[q] = handler[q]
  BY <1>1, <1>2
<1> HIDE DEF hs
<1>6. hs[p].kind = handler[p].kind /\ \A q \in Proc \ {p} : Like(hs[q], handler[q])
  BY <1>2, <1>5 DEF Like
<1>4. /\ Moves(p) /\ handler'[p].todo = todo
      /\ \/ handler'[p] = IdleHandler
         \/ /\ handler'[p].fresh = hs[p].fresh /\ handler'[p].token = hs[p].token
            /\ handler'[p].version = hs[p].version
  BY <1>3, <1>5, <1>6, GoingMoves
<1> QED
  BY <1>2, <1>4, <1>5

\* Handler p hears a version, or none, and goes on.
LEMMA HearsMoves ==
    ASSUME Handlers, NEW p \in Proc, Todo(p) # <<>>, NEW v \in Maybe(Nat),
           handler' = Going([handler EXCEPT ![p].version = v], p, Rest(p))
    PROVE  /\ Moves(p) /\ handler'[p].todo = Rest(p)
           /\ \/ handler'[p] = IdleHandler
              \/ /\ handler'[p].token = handler[p].token /\ handler'[p].version = v
                 /\ handler'[p].fresh = handler[p].fresh
<1> DEFINE r == [handler[p] EXCEPT !.version = v]
<1>1. handler \in [Proc -> HandlerRecord]
  BY DEF Handlers
<1>2. /\ r \in HandlerRecord /\ r.kind = handler[p].kind /\ r.fresh = handler[p].fresh
      /\ r.token = handler[p].token /\ r.version = v
  BY <1>1 DEF HandlerRecord
<1> DEFINE hs == [handler EXCEPT ![p] = r]
<1>3. handler' = Going(hs, p, Rest(p))
  OBVIOUS
<1> HIDE DEF r
<1>5. hs \in [Proc -> HandlerRecord] /\ hs[p] = r /\ \A q \in Proc \ {p} : hs[q] = handler[q]
  BY <1>1, <1>2
<1> HIDE DEF hs
<1>6. hs[p].kind = handler[p].kind /\ \A q \in Proc \ {p} : Like(hs[q], handler[q])
  BY <1>2, <1>5 DEF Like
<1>4. /\ Moves(p) /\ handler'[p].todo = Rest(p)
      /\ \/ handler'[p] = IdleHandler
         \/ /\ handler'[p].fresh = hs[p].fresh /\ handler'[p].token = hs[p].token
            /\ handler'[p].version = hs[p].version
  BY <1>3, <1>5, <1>6, GoingMoves
<1> QED
  BY <1>2, <1>4, <1>5

LEMMA LoginSentMoves ==
    ASSUME Handlers, NEW p \in Proc, LoginSent(p)
    PROVE  /\ Moves(p) /\ handler'[p].todo = Rest(p)
           /\ \/ handler'[p] = IdleHandler
              \/ /\ handler'[p].token = handler[p].token /\ handler'[p].version = handler[p].version
                 /\ handler'[p].fresh = {"token"}
<1>1. Todo(p) # <<>> /\ handler' = Going([handler EXCEPT ![p].fresh = {"token"}], p, Rest(p))
  BY AtHead DEF LoginSent
<1>2. {"token"} \in SUBSET Counter
  BY DEF Counter
<1> QED
  BY <1>1, <1>2, ReadsMoves

LEMMA LoginAnsweredMoves ==
    ASSUME Handlers, NEW p \in Proc, LoginAnswered(p), logins \in Nat, logins < MaxToken
    PROVE  /\ Moves(p)
           /\ \/ Kept(p) /\ handler'[p].todo = <<>> /\ UNCHANGED <<token, logins, locked>>
              \/ /\ logins' = logins + 1 /\ token' = logins' /\ locked' = FALSE
                 /\ handler'[p].todo = Rest(p)
                 /\ \/ handler'[p] = IdleHandler
                    \/ /\ handler'[p].token = logins' /\ handler'[p].version = handler[p].version
                       /\ handler'[p].fresh \subseteq handler[p].fresh
<1>0. Todo(p) # <<>> /\ handler \in [Proc -> HandlerRecord]
  BY AtHead DEF LoginAnswered, Handlers
<1>1. CASE "token" \notin handler[p].fresh
  <2>1. Goes(p, <<>>) /\ UNCHANGED <<token, logins, locked>>
    BY <1>1 DEF LoginAnswered
  <2> QED
    BY <1>0, <2>1, FineNothing, GoesMoves
<1>2. CASE "token" \in handler[p].fresh
  <2> DEFINE ms == Moved(handler, "token")
             hs == [ms EXCEPT ![p].token = logins']
  <2>1. /\ logins' = logins + 1 /\ token' = logins' /\ locked' = FALSE
        /\ handler' = Going(hs, p, Rest(p))
    BY <1>2 DEF LoginAnswered
  <2>2. /\ ms \in [Proc -> HandlerRecord]
        /\ \A q \in Proc : /\ ms[q].fresh = handler[q].fresh \ {"token"}
                           /\ ms[q].kind = handler[q].kind /\ ms[q].todo = handler[q].todo
                           /\ ms[q].token = handler[q].token /\ ms[q].version = handler[q].version
    BY <1>0, MovedFields
  <2> HIDE DEF ms
  <2>3. logins' \in Maybe(Token)
    BY <2>1, ConstantAssumption DEF Maybe, Token
  <2> DEFINE r == [ms[p] EXCEPT !.token = logins']
  <2>4. /\ r \in HandlerRecord /\ r.kind = ms[p].kind /\ r.fresh = ms[p].fresh
        /\ r.token = logins' /\ r.version = ms[p].version
    BY <2>2, <2>3 DEF HandlerRecord
  <2>5. hs = [ms EXCEPT ![p] = r]
    OBVIOUS
  <2> HIDE DEF r, hs
  <2>6. hs \in [Proc -> HandlerRecord] /\ hs[p] = r /\ \A q \in Proc \ {p} : hs[q] = ms[q]
    BY <2>2, <2>4, <2>5
  <2>7. \A q \in Proc \ {p} : Like(hs[q], handler[q])
    BY <2>2, <2>6 DEF Like
  <2>8. hs[p].kind = handler[p].kind
    BY <2>2, <2>4, <2>6
  <2>9. /\ Moves(p) /\ handler'[p].todo = Rest(p)
        /\ \/ handler'[p] = IdleHandler
           \/ /\ handler'[p].fresh = hs[p].fresh /\ handler'[p].token = hs[p].token
              /\ handler'[p].version = hs[p].version
    BY <1>0, <2>1, <2>6, <2>7, <2>8, GoingMoves
  <2>10. \/ handler'[p] = IdleHandler
         \/ /\ handler'[p].token = logins' /\ handler'[p].version = handler[p].version
            /\ handler'[p].fresh \subseteq handler[p].fresh
    BY <2>2, <2>4, <2>6, <2>9
  <2> QED
    BY <2>1, <2>9, <2>10
<1> QED
  BY <1>1, <1>2

LEMMA UseTokenMoves ==
    ASSUME Handlers, NEW p \in Proc, UseToken(p)
    PROVE  Moves(p) /\ Kept(p) /\ Fine(handler'[p].todo)
<1> DEFINE todo == (IF handler[p].mode = "inactivity" THEN ResetAutoLock ELSE ForgetDeadline) \o Rest(p)
<1>1. /\ At(p, "use token")
      /\ \/ handler' = Going(handler, p, todo)
         \/ handler' = Going(Moved(handler, "token"), p, todo)
  BY DEF UseToken
<1>2. Todo(p) # <<>> /\ Head(Todo(p)) = "use token"
  BY <1>1, AtHead
<1>3. Head(Todo(p)) \notin Chain
  BY <1>2, Zenon DEF Chain
<1>4. Fine(ResetAutoLock \o Rest(p)) /\ Fine(ForgetDeadline \o Rest(p))
  BY <1>2, <1>3, RestOf, FineForgetDeadline, FineResetAutoLock, FinePushed, Zenon
<1>5. Fine(todo)
  BY <1>4
<1> HIDE DEF todo
<1>6. CASE handler' = Going(handler, p, todo)
  BY <1>2, <1>5, <1>6, GoesMoves DEF Goes
<1>7. CASE handler' = Going(Moved(handler, "token"), p, todo)
  <2>1. Moves(p) /\ Kept(p) /\ handler'[p].todo = todo
    BY <1>2, <1>5, <1>7, GoesMovedMoves
  <2> QED
    BY <1>5, <2>1
<1> QED
  BY <1>1, <1>6, <1>7

LEMMA ValidateMoves ==
    ASSUME Handlers, NEW p \in Proc, Validate(p)
    PROVE  Moves(p) /\ Kept(p)
<1>1. Todo(p) # <<>> /\ (Continue(p) \/ Goes(p, <<>>) \/ Goes(p, ClearToken))
  BY AtHead DEF Validate
<1> QED
  BY <1>1, ContinueMoves, FineNothing, FineClearToken, GoesMoves

LEMMA ClearMetadataNowMoves ==
    ASSUME Handlers, NEW p \in Proc, ClearMetadataNow(p)
    PROVE  /\ Moves(p) /\ Kept(p) /\ handler'[p].todo = Rest(p)
           /\ \A q \in Proc : "metadata" \notin handler'[q].fresh
<1>1. Todo(p) # <<>> /\ handler' = Going(Moved(handler, "metadata"), p, Rest(p))
  BY AtHead DEF ClearMetadataNow, Clears
<1> QED
  BY <1>1, GoesMovedMoves

LEMMA LookUpMoves ==
    ASSUME Handlers, NEW p \in Proc, LookUp(p)
    PROVE  /\ Moves(p)
           /\ \/ Kept(p) /\ UNCHANGED queue
              \/ /\ Enqueue(p, "read", None) /\ handler'[p].todo = <<"wait", "read stored">>
                 /\ Fine(handler'[p].todo)
                 /\ \/ handler'[p] = IdleHandler
                    \/ /\ handler'[p].token = handler[p].token /\ handler'[p].version = handler[p].version
                       /\ handler'[p].fresh = {"token", "metadata"}
<1>1. /\ Todo(p) # <<>>
      /\ \/ Goes(p, <<>>) /\ UNCHANGED queue
         \/ /\ Enqueue(p, "read", None)
            /\ handler' = Going([handler EXCEPT ![p].fresh = {"token", "metadata"}], p,
                                <<"wait", "read stored">>)
  BY AtHead DEF LookUp
<1>2. CASE Goes(p, <<>>) /\ UNCHANGED queue
  BY <1>1, <1>2, FineNothing, GoesMoves
<1>3. CASE /\ Enqueue(p, "read", None)
           /\ handler' = Going([handler EXCEPT ![p].fresh = {"token", "metadata"}], p,
                               <<"wait", "read stored">>)
  <2>1. {"token", "metadata"} \in SUBSET Counter
    BY DEF Counter
  <2>2. /\ Moves(p) /\ handler'[p].todo = <<"wait", "read stored">>
        /\ \/ handler'[p] = IdleHandler
           \/ /\ handler'[p].token = handler[p].token /\ handler'[p].version = handler[p].version
              /\ handler'[p].fresh = {"token", "metadata"}
    <3> DEFINE counters == {"token", "metadata"}
               todo == <<"wait", "read stored">>
    <3>1. /\ counters \in SUBSET Counter /\ Fine(todo)
          /\ handler' = Going([handler EXCEPT ![p].fresh = counters], p, todo)
      BY <1>3, <2>1, FineReadStored
    <3> HIDE DEF counters, todo
    <3>2. /\ Moves(p) /\ handler'[p].todo = todo
          /\ \/ handler'[p] = IdleHandler
             \/ /\ handler'[p].token = handler[p].token /\ handler'[p].version = handler[p].version
                /\ handler'[p].fresh = counters
      BY <1>1, <3>1, ReadsMoves
    <3> QED
      BY <3>2, Zenon DEF counters, todo
  <2>3. Fine(handler'[p].todo)
    BY <2>2, FineReadStored, Zenon
  <2> QED
    BY <1>3, <2>2, <2>3, Zenon
<1> QED
  BY <1>1, <1>2, <1>3

LEMMA ReadStoredMoves ==
    ASSUME Handlers, NEW p \in Proc, ReadStored(p)
    PROVE  Moves(p) /\ Kept(p) /\ Fine(handler'[p].todo)
<1>1. Todo(p) # <<>> /\ (Goes(p, <<>>) \/ Goes(p, <<"serve", "receive">>))
  BY AtHead DEF ReadStored
<1>2. ASSUME NEW todo, Fine(todo), Goes(p, todo)
      PROVE  Moves(p) /\ Kept(p) /\ Fine(handler'[p].todo)
  <2>1. Moves(p) /\ Kept(p) /\ handler'[p].todo = todo
    BY <1>1, <1>2, GoesMoves
  <2> QED
    BY <1>2, <2>1, Zenon
<1> QED
  BY <1>1, <1>2, FineNothing, FineServe, Zenon

LEMMA ServeMoves ==
    ASSUME Handlers, NEW p \in Proc, Serve(p), vault \in Nat
    PROVE  /\ Moves(p) /\ handler'[p].todo = Rest(p)
           /\ \/ handler'[p] = IdleHandler
              \/ /\ handler'[p].token = handler[p].token /\ handler'[p].version = vault
                 /\ handler'[p].fresh = handler[p].fresh
<1>1. Todo(p) # <<>> /\ handler' = Going([handler EXCEPT ![p].version = vault], p, Rest(p))
  BY AtHead DEF Serve
<1>2. vault \in Maybe(Nat)
  BY DEF Maybe
<1> QED
  BY <1>1, <1>2, HearsMoves

LEMMA ReceiveMoves ==
    ASSUME Handlers, NEW p \in Proc, Receive(p)
    PROVE  Moves(p) /\ Kept(p) /\ Fine(handler'[p].todo)
<1>1. Todo(p) # <<>> /\ (Goes(p, <<"wait">>) \/ Goes(p, <<>>) \/ Goes(p, ClearToken))
  BY AtHead DEF Receive
<1>2. ASSUME NEW todo, Fine(todo), Goes(p, todo)
      PROVE  Moves(p) /\ Kept(p) /\ Fine(handler'[p].todo)
  <2>1. Moves(p) /\ Kept(p) /\ handler'[p].todo = todo
    BY <1>1, <1>2, GoesMoves
  <2> QED
    BY <1>2, <2>1, Zenon
<1> QED
  BY <1>1, <1>2, FineNothing, FineWait, FineClearToken, Zenon

LEMMA SendMoves ==
    ASSUME Handlers, NEW p \in Proc, Send(p)
    PROVE  /\ Moves(p)
           /\ \/ Kept(p)
              \/ /\ handler'[p].todo = Rest(p) /\ handler'[p].token = handler[p].token
                 /\ handler'[p].version = handler[p].version /\ handler'[p].fresh = {"token"}
<1>1. /\ Todo(p) # <<>>
      /\ \/ Goes(p, ClearMetadata \o ClearToken)
         \/ handler' = Going([handler EXCEPT ![p].fresh = {"token"}], p, Rest(p))
  BY AtHead DEF Send
<1>2. Fine(ClearMetadata \o ClearToken)
  BY FineClearMetadata, FineClearToken, FinePushed, Zenon
<1>3. {"token"} \in SUBSET Counter
  BY DEF Counter
<1>4. CASE Goes(p, ClearMetadata \o ClearToken)
  BY <1>1, <1>2, <1>4, GoesMoves
<1>5. CASE handler' = Going([handler EXCEPT ![p].fresh = {"token"}], p, Rest(p))
  <2>1. /\ Moves(p) /\ handler'[p].todo = Rest(p)
        /\ \/ handler'[p] = IdleHandler
           \/ /\ handler'[p].token = handler[p].token /\ handler'[p].version = handler[p].version
              /\ handler'[p].fresh = {"token"}
    BY <1>1, <1>3, <1>5, ReadsMoves
  <2> QED
    BY <2>1 DEF Kept
<1> QED
  BY <1>1, <1>4, <1>5

LEMMA ApplyMoves ==
    ASSUME Handlers, NEW p \in Proc, Apply(p), vault \in Nat
    PROVE  /\ Moves(p) /\ handler'[p].todo = Rest(p)
           /\ \/ Kept(p) /\ UNCHANGED vault
              \/ /\ vault < MaxVersion /\ vault' = vault + 1
                 /\ handler'[p].token = handler[p].token /\ handler'[p].version = vault'
                 /\ handler'[p].fresh = handler[p].fresh
              \/ handler'[p] = IdleHandler /\ vault < MaxVersion /\ vault' = vault + 1
<1>1. /\ Todo(p) # <<>>
      /\ \/ /\ vault < MaxVersion /\ vault' = vault + 1
            /\ handler' = Going([handler EXCEPT ![p].version = vault'], p, Rest(p))
         \/ Continue(p) /\ UNCHANGED vault
  BY AtHead DEF Apply
<1>2. CASE Continue(p) /\ UNCHANGED vault
  BY <1>1, <1>2, ContinueMoves
<1>3. CASE /\ vault < MaxVersion /\ vault' = vault + 1
           /\ handler' = Going([handler EXCEPT ![p].version = vault'], p, Rest(p))
  <2>1. vault' \in Maybe(Nat)
    BY <1>3 DEF Maybe
  <2>2. /\ Moves(p) /\ handler'[p].todo = Rest(p)
        /\ \/ handler'[p] = IdleHandler
           \/ /\ handler'[p].token = handler[p].token /\ handler'[p].version = vault'
              /\ handler'[p].fresh = handler[p].fresh
    BY <1>1, <1>3, <2>1, HearsMoves
  <2> QED
    BY <1>3, <2>2
<1> QED
  BY <1>1, <1>2, <1>3

LEMMA AnsweredMoves ==
    ASSUME Handlers, NEW p \in Proc, Answered(p)
    PROVE  /\ Moves(p)
           /\ \/ Kept(p)
              \/ /\ handler'[p].todo = Rest(p) /\ handler'[p].token = handler[p].token
                 /\ handler'[p].version = None /\ handler'[p].fresh = handler[p].fresh
<1>1. /\ Todo(p) # <<>>
      /\ \/ Continue(p)
         \/ handler' = Going([handler EXCEPT ![p].version = None], p, Rest(p))
         \/ Goes(p, ClearMetadata \o ClearToken)
  BY AtHead DEF Answered
<1>2. Fine(ClearMetadata \o ClearToken)
  BY FineClearMetadata, FineClearToken, FinePushed, Zenon
<1>3. None \in Maybe(Nat)
  BY DEF Maybe
<1>4. CASE Continue(p)
  BY <1>1, <1>4, ContinueMoves
<1>5. CASE handler' = Going([handler EXCEPT ![p].version = None], p, Rest(p))
  <2>1. /\ Moves(p) /\ handler'[p].todo = Rest(p)
        /\ \/ handler'[p] = IdleHandler
           \/ /\ handler'[p].token = handler[p].token /\ handler'[p].version = None
              /\ handler'[p].fresh = handler[p].fresh
    BY <1>1, <1>3, <1>5, HearsMoves
  <2> QED
    BY <2>1 DEF Kept
<1>6. CASE Goes(p, ClearMetadata \o ClearToken)
  BY <1>1, <1>2, <1>6, GoesMoves
<1> QED
  BY <1>1, <1>4, <1>5, <1>6

\* A handler begins.
Begins(p) ==
    /\ Handlers'
    /\ \A q \in Proc \ {p} : Like(handler'[q], handler[q])
    /\ Idle(p) /\ Calm(handler'[p].todo)
    /\ handler'[p].token = None /\ handler'[p].version = None /\ handler'[p].fresh = {}
    /\ handler'[p].kind # "login" => \A i \in DOMAIN handler'[p].todo : handler'[p].todo[i] # "use token"

LEMMA BeginsFrom ==
    ASSUME Handlers, NEW p \in Proc, Idle(p),
           NEW hs \in [Proc -> HandlerRecord], \A q \in Proc \ {p} : Like(hs[q], handler[q]),
           NEW kind \in Kind, NEW todo \in Seq(Label), todo # <<>>, Formed(todo), Calm(todo),
           kind # "login" => \A i \in DOMAIN todo : todo[i] # "use token",
           handler' = [hs EXCEPT ![p] = [IdleHandler EXCEPT !.kind = kind, !.todo = todo]]
    PROVE  Begins(p) /\ handler'[p].kind = kind /\ handler'[p].todo = todo
<1> DEFINE r == [IdleHandler EXCEPT !.kind = kind, !.todo = todo]
<1>1. /\ r \in HandlerRecord /\ r.kind = kind /\ r.todo = todo
      /\ r.token = None /\ r.version = None /\ r.fresh = {}
  BY IdleIsHandler DEF HandlerRecord, Maybe
<1>2. handler' = [hs EXCEPT ![p] = r]
  OBVIOUS
<1> HIDE DEF r
<1>3. handler' \in [Proc -> HandlerRecord] /\ handler'[p] = r /\ \A q \in Proc \ {p} : handler'[q] = hs[q]
  BY <1>1, <1>2
<1>4. \A q \in Proc \ {p} : Like(handler'[q], handler[q])
  BY <1>3, Zenon
<1>5. kind # None
  BY ConstantAssumption
<1>6. \A q \in Proc : Formed(handler'[q].todo) /\ (handler'[q].kind = None <=> handler'[q].todo = <<>>)
  <2>1. \A q \in Proc : Formed(handler[q].todo) /\ (handler[q].kind = None <=> handler[q].todo = <<>>)
    BY Zenon DEF Handlers, Todo, Idle
  <2>2. \A q \in Proc \ {p} : handler'[q].todo = handler[q].todo /\ handler'[q].kind = handler[q].kind
    BY <1>4, Zenon DEF Like
  <2>3. Formed(handler'[p].todo) /\ handler'[p].kind # None /\ handler'[p].todo # <<>>
    BY <1>1, <1>3, <1>5, Zenon
  <2> QED
    BY <2>1, <2>2, <2>3, Zenon
<1>7. Handlers'
  BY <1>3, <1>6, Zenon DEF Handlers, Todo, Idle
<1> QED
  BY <1>1, <1>3, <1>4, <1>7, Zenon DEF Begins

LEMMA StartBegins ==
    ASSUME Handlers, NEW p \in Proc,
           NEW kind \in Kind, NEW todo \in Seq(Label), todo # <<>>, Formed(todo), Calm(todo),
           kind # "login" => \A i \in DOMAIN todo : todo[i] # "use token",
           Start(p, kind, todo)
    PROVE  Begins(p) /\ handler'[p].kind = kind /\ handler'[p].todo = todo
<1>1. /\ handler \in [Proc -> HandlerRecord] /\ Idle(p)
      /\ handler' = [handler EXCEPT ![p] = [IdleHandler EXCEPT !.kind = kind, !.todo = todo]]
  BY DEF Handlers, Start
<1>2. \A q \in Proc \ {p} : Like(handler[q], handler[q])
  BY DEF Like
<1> QED
  BY <1>1, <1>2, BeginsFrom

LEMMA FineStarts == \A todo : Fine(todo) => Starting(todo)
  BY Zenon DEF Fine, Starting, Free, Calm

LEMMA NonEmpty ==
    ASSUME NEW s \in Seq(Label), NEW n \in Nat \ {0}, Len(s) = n
    PROVE  s # <<>>
  OBVIOUS

LEMMA PlansNonEmpty ==
    /\ IsUnlocked # <<>> /\ Credentials # <<>> /\ ResetAutoLock # <<>> /\ Mutate # <<>>
    /\ ClearToken # <<>> /\ ClearCache # <<>> /\ Login # <<>> /\ Load # <<>>
    /\ <<"get mode", "minutes", "new deadline">> # <<>>
<1>1. /\ 2 \in Nat \ {0} /\ 3 \in Nat \ {0} /\ 4 \in Nat \ {0} /\ 5 \in Nat \ {0} /\ 7 \in Nat \ {0}
      /\ 9 \in Nat \ {0} /\ 10 \in Nat \ {0} /\ 11 \in Nat \ {0}
  OBVIOUS
<1>2. <<"get mode", "minutes", "new deadline">> # <<>>
  OBVIOUS
<1>3. IsUnlocked \in Seq(Label) /\ Len(IsUnlocked) = 7 /\ Credentials \in Seq(Label) /\ Len(Credentials) = 5
  BY IsIsUnlocked, IsCredentials, Zenon
<1>4. ResetAutoLock \in Seq(Label) /\ Len(ResetAutoLock) = 2 /\ Mutate \in Seq(Label) /\ Len(Mutate) = 10
  BY IsResetAutoLock, IsMutate, Zenon
<1>5. ClearToken \in Seq(Label) /\ Len(ClearToken) = 9 /\ ClearCache \in Seq(Label) /\ Len(ClearCache) = 3
  BY IsClearToken, IsClearCache, Zenon
<1>6. Login \in Seq(Label) /\ Len(Login) = 11 /\ Load \in Seq(Label) /\ Len(Load) = 4
  BY IsLogin, IsLoad, Zenon
<1> QED
  BY <1>1, <1>2, <1>3, <1>4, <1>5, <1>6, NonEmpty, Zenon

LEMMA StartsPlan ==
    ASSUME Handlers, NEW p \in Proc, NEW kind \in Kind, kind # "login",
           NEW todo, todo # <<>>, Starting(todo), Start(p, kind, todo)
    PROVE  Begins(p) /\ handler'[p].kind # "login"
<1>1. todo \in Seq(Label) /\ Formed(todo) /\ Calm(todo) /\ \A i \in DOMAIN todo : todo[i] # "use token"
  BY Zenon DEF Starting
<1>2. Begins(p) /\ handler'[p].kind = kind
  BY <1>1, StartBegins
<1> QED
  BY <1>2, Zenon

LEMMA KindNames ==
    /\ "boot" \in Kind /\ "event" \in Kind /\ "check" \in Kind /\ "creds" \in Kind /\ "lock" \in Kind
    /\ "login" \in Kind /\ "activity" \in Kind /\ "minutes" \in Kind /\ "mutate" \in Kind
    /\ "boot" # "login" /\ "event" # "login" /\ "check" # "login" /\ "creds" # "login" /\ "lock" # "login"
    /\ "activity" # "login" /\ "minutes" # "login" /\ "mutate" # "login"
  BY Zenon DEF Kind

LEMMA MessagesBegin ==
    ASSUME Handlers, NEW p \in Proc, Messages(p)
    PROVE  Begins(p) /\ handler'[p].kind # "login"
<1>1. /\ Starting(IsUnlocked) /\ Starting(Credentials) /\ Starting(ResetAutoLock) /\ Starting(Mutate)
      /\ Starting(ClearToken) /\ Starting(<<"get mode", "minutes", "new deadline">>)
  BY FineIsUnlocked, FineCredentials, FineResetAutoLock, FineMutate, FineClearToken, FineMinutes, FineStarts,
     Zenon
<1>2. \/ Start(p, "check", IsUnlocked) \/ Start(p, "creds", Credentials)
      \/ Start(p, "activity", ResetAutoLock) \/ Start(p, "mutate", Mutate)
      \/ Start(p, "lock", ClearToken)
      \/ Start(p, "minutes", <<"get mode", "minutes", "new deadline">>)
  BY Zenon DEF Messages
<1> QED
  BY <1>1, <1>2, PlansNonEmpty, KindNames, StartsPlan, Zenon

LEMMA LocksBegin ==
    ASSUME Handlers, NEW p \in Proc, ModeChanged(p) \/ AlarmFires(p)
    PROVE  Begins(p) /\ handler'[p].kind # "login"
<1>1. Start(p, "lock", ClearToken)
  BY Zenon DEF ModeChanged, AlarmFires
<1>2. Starting(ClearToken)
  BY FineClearToken, FineStarts, Zenon
<1> QED
  BY <1>1, <1>2, PlansNonEmpty, KindNames, StartsPlan, Zenon

LEMMA LoginBegins ==
    ASSUME Handlers, NEW p \in Proc, StartLogin(p)
    PROVE  Begins(p) /\ handler'[p].kind = "login" /\ handler'[p].todo = Login
<1>1. Start(p, "login", Login)
  BY Zenon DEF StartLogin
<1>2. Login \in Seq(Label) /\ Formed(Login) /\ Calm(Login) /\ Login # <<>>
  BY FineLogin, PlansNonEmpty, Zenon
<1> QED
  BY <1>1, <1>2, KindNames, StartBegins

LEMMA ReplacedBegins ==
    ASSUME Handlers, NEW p \in Proc, NEW t, TokenReplaced(p, t)
    PROVE  Begins(p) /\ handler'[p].kind # "login"
<1> DEFINE hs == IF token = t THEN Moved(handler, "token") ELSE handler
<1>1. handler \in [Proc -> HandlerRecord] /\ Idle(p)
  BY DEF Handlers, TokenReplaced
<1>2. hs \in [Proc -> HandlerRecord] /\ \A q \in Proc \ {p} : Like(hs[q], handler[q])
  BY <1>1, MovedFields DEF Like
<1>3. handler' = [hs EXCEPT ![p] = [IdleHandler EXCEPT !.kind = "event", !.todo = ClearCache]]
  BY DEF TokenReplaced
<1> HIDE DEF hs
<1>4. /\ ClearCache \in Seq(Label) /\ Formed(ClearCache) /\ Calm(ClearCache) /\ ClearCache # <<>>
      /\ \A i \in DOMAIN ClearCache : ClearCache[i] # "use token"
  BY FineClearCache, FineStarts, PlansNonEmpty, Zenon DEF Starting
<1>5. Begins(p) /\ handler'[p].kind = "event"
  BY <1>1, <1>2, <1>3, <1>4, KindNames, BeginsFrom
<1> QED
  BY <1>5, KindNames, Zenon

\* The worker is started: its first handler is p, and nothing else is under way.
LEMMA RestartBegins ==
    ASSUME Handlers, NEW p \in Proc, Restart(p)
    PROVE  /\ Handlers'
           /\ \A q \in Proc \ {p} : handler'[q] = IdleHandler
           /\ Starting(handler'[p].todo) /\ handler'[p].kind # "login"
           /\ handler'[p].token = None /\ handler'[p].version = None /\ handler'[p].fresh = {}
<1> DEFINE r == [IdleHandler EXCEPT !.kind = "boot", !.todo = Load]
<1>1. Starting(Load) /\ Load # <<>> /\ Load \in Seq(Label)
  BY FineLoad, PlansNonEmpty, Zenon DEF Starting
<1>2. /\ r \in HandlerRecord /\ r.kind = "boot" /\ r.todo = Load
      /\ r.token = None /\ r.version = None /\ r.fresh = {}
  BY <1>1, IdleIsHandler, KindNames DEF HandlerRecord, Maybe
<1>3. handler' = [q \in Proc |-> IF q = p THEN r ELSE IdleHandler]
  BY DEF Restart
<1> HIDE DEF r
<1>4. /\ handler' \in [Proc -> HandlerRecord] /\ handler'[p] = r
      /\ \A q \in Proc \ {p} : handler'[q] = IdleHandler
  BY <1>2, <1>3, IdleIsHandler
<1>5. "boot" # None
  BY ConstantAssumption, KindNames
<1>6. \A q \in Proc : Formed(handler'[q].todo) /\ (handler'[q].kind = None <=> handler'[q].todo = <<>>)
  <2>1. Formed(<<>>)
    BY FineNothing, Zenon DEF Fine
  <2> QED
    BY <1>1, <1>2, <1>4, <1>5, <2>1, IdleIsHandler, Zenon DEF Starting
<1>7. Handlers'
  BY <1>4, <1>6, Zenon DEF Handlers, Todo, Idle
<1> QED
  BY <1>1, <1>2, <1>4, <1>7, KindNames, Zenon

LEMMA ElapseLike ==
    ASSUME Handlers, Elapse
    PROVE  /\ Handlers' /\ deadline' \in {deadline, "passed"} /\ alarm' \in {alarm, "passed"}
           /\ \A q \in Proc : Like(handler'[q], handler[q]) /\ handler'[q].fresh = handler[q].fresh
<1> DEFINE later(d) == IF d = "ahead" THEN "passed" ELSE d
<1>1. handler \in [Proc -> HandlerRecord]
  BY DEF Handlers
<1>2. /\ handler' = [q \in Proc |-> [handler[q] EXCEPT !.at = later(@)]]
      /\ deadline' = later(deadline) /\ alarm' = later(alarm)
  BY DEF Elapse
<1>3. ASSUME NEW r \in HandlerRecord
      PROVE  LET n == [r EXCEPT !.at = later(@)] IN
             /\ n \in HandlerRecord /\ n.kind = r.kind /\ n.todo = r.todo /\ n.token = r.token
             /\ n.version = r.version /\ n.fresh = r.fresh
  <2>1. r.at \in Maybe(Time)
    BY HandlerFields
  <2>2. later(r.at) \in Maybe(Time)
    BY <2>1 DEF Maybe, Time
  <2> HIDE DEF later
  <2> QED
    BY <2>2 DEF HandlerRecord
<1>4. deadline' \in {deadline, "passed"} /\ alarm' \in {alarm, "passed"}
  BY <1>2
<1> HIDE DEF later
<1>5. /\ handler' \in [Proc -> HandlerRecord]
      /\ \A q \in Proc : Like(handler'[q], handler[q]) /\ handler'[q].fresh = handler[q].fresh
  BY <1>1, <1>2, <1>3 DEF Like
<1>6. Handlers'
  <2>1. \A q \in Proc : handler'[q].kind = handler[q].kind /\ handler'[q].todo = handler[q].todo
    BY <1>5, Zenon DEF Like
  <2> QED
    BY <1>5, <2>1, Zenon DEF Handlers, Todo, Idle
<1> QED
  BY <1>4, <1>5, <1>6

(***************************************************************************)
(* What handlers know (Tasks)                                              *)
(***************************************************************************)
VersionKnown(p) == handler[p].version = None \/ handler[p].version \in 0 .. vault
LoadsAnew(p) == At(p, "load") => handler[p].token = None
HasVersion(p) == At(p, "receive") => handler[p].version # None
\* A login that has been answered has its token until it uses it; before, there
\* is a token left for it.
HasToken(p) ==
    \A u \in DOMAIN Todo(p) : Todo(p)[u] = "use token" =>
        /\ handler[p].kind = "login"
        /\ u <= 6 => handler[p].token # None
        /\ u > 6 => logins < MaxToken
OneLogin == \A p, q \in LoggingIn : p = q

Tasks ==
    /\ Handlers /\ OneLogin
    /\ \A p \in Proc : VersionKnown(p) /\ LoadsAnew(p) /\ HasVersion(p) /\ HasToken(p)

LEMMA HandlerTodo ==
    ASSUME Handlers, NEW p \in Proc
    PROVE  Todo(p) \in Seq(Label) /\ Formed(Todo(p)) /\ handler[p] \in HandlerRecord
  BY HandlerFields DEF Handlers, Todo

LEMMA AtPlace ==
    ASSUME Handlers, NEW p \in Proc, NEW label
    PROVE  At(p, label) <=> 1 \in DOMAIN Todo(p) /\ Todo(p)[1] = label
<1>1. Todo(p) \in Seq(Label)
  BY HandlerTodo
<1>2. Todo(p) # <<>> <=> 1 \in DOMAIN Todo(p)
  BY <1>1
<1>3. Todo(p) # <<>> => Head(Todo(p)) = Todo(p)[1]
  BY <1>1, TailPlaces, Zenon
<1> QED
  BY <1>2, <1>3, Zenon DEF At, Todo

LEMMA MovesPlaces ==
    ASSUME Handlers, NEW p \in Proc, Moves(p), ~Free(handler'[p].todo)
    PROVE  /\ handler'[p].todo = Rest(p)
           /\ \A i \in DOMAIN handler'[p].todo :
                 /\ i \in Nat /\ i >= 1 /\ i + 1 \in DOMAIN Todo(p)
                 /\ handler'[p].todo[i] = Todo(p)[i + 1]
<1>1. handler'[p].todo = Rest(p) /\ Todo(p) # <<>>
  BY Zenon DEF Moves
<1>2. Todo(p) \in Seq(Label) /\ Rest(p) = Tail(Todo(p))
  BY HandlerTodo DEF Rest, Todo
<1>3. /\ Len(Todo(p)) \in Nat /\ DOMAIN Todo(p) = 1 .. Len(Todo(p))
      /\ DOMAIN Tail(Todo(p)) = 1 .. Len(Todo(p)) - 1
      /\ \A i \in 1 .. Len(Todo(p)) - 1 : Tail(Todo(p))[i] = Todo(p)[i + 1]
  BY <1>1, <1>2, TailPlaces, Zenon
<1>4. ASSUME NEW i \in 1 .. Len(Todo(p)) - 1 PROVE i \in Nat /\ i >= 1 /\ i + 1 \in 1 .. Len(Todo(p))
  BY <1>3, <1>4
<1> QED
  BY <1>1, <1>2, <1>3, <1>4, Zenon

\* The first label, by what a later one requires.
LEMMA FirstBefore ==
    ASSUME Handlers, NEW p \in Proc, NEW i \in Nat, NEW d \in Nat, i = d + 1, NEW x, Before(Todo(p), i, d, x),
           Todo(p) # <<>>
    PROVE  At(p, x)
<1>1. i > d /\ i - d = 1
  OBVIOUS
<1>2. Todo(p)[1] = x
  BY <1>1 DEF Before
<1>3. 1 \in DOMAIN Todo(p)
  BY HandlerTodo
<1> QED
  BY <1>2, <1>3, AtPlace, Zenon

\* A step of a handler that waits to use its token.
LEMMA MovesHasToken ==
    ASSUME Tasks, NEW p \in Proc, Moves(p),
           \/ Kept(p) /\ logins' = logins
           \/ Free(handler'[p].todo)
           \/ logins' = logins /\ handler'[p].token = handler[p].token
           \/ At(p, "login") /\ logins \in Nat /\ (handler'[p] = IdleHandler \/ handler'[p].token # None),
           At(p, "login") => handler'[p].todo = <<>> \/ handler'[p].token # None
    PROVE  HasToken(p)'
<1>0. SUFFICES ASSUME NEW u \in DOMAIN handler'[p].todo, handler'[p].todo[u] = "use token"
               PROVE  /\ handler'[p].kind = "login"
                      /\ u <= 6 => handler'[p].token # None
                      /\ u > 6 => logins' < MaxToken
  BY Zenon DEF HasToken, Todo
<1>1. ~Free(handler'[p].todo)
  BY <1>0, Zenon DEF Free
<1>2. Handlers /\ HasToken(p)
  BY Zenon DEF Tasks
<1>3. u \in Nat /\ u >= 1 /\ u + 1 \in DOMAIN Todo(p) /\ Todo(p)[u + 1] = "use token" /\ Todo(p) # <<>>
  BY <1>0, <1>1, <1>2, MovesPlaces, Zenon DEF Moves
<1>n. u \in Nat /\ u >= 1
  BY <1>3, Zenon
<1>4. EndsLogin(Todo(p), u + 1)
  BY <1>2, <1>3, HandlerTodo, Zenon DEF Formed, Rules
<1>5. handler'[p] # IdleHandler /\ handler'[p].todo # <<>>
  BY <1>0, IdleIsHandler, EmptySeq, Zenon
<1>6. handler'[p].kind = "login"
  <2>1. handler[p].kind = "login"
    BY <1>2, <1>3, Zenon DEF HasToken
  <2> QED
    BY <2>1, <1>5, Zenon DEF Moves
<1>7. ASSUME u <= 6 PROVE handler'[p].token # None
  <2>1. CASE u = 6
    <3>1. Before(Todo(p), u + 1, 6, "login") /\ u + 1 \in Nat /\ 6 \in Nat /\ u + 1 = 6 + 1
      <4>1. u + 1 \in Nat /\ 6 \in Nat /\ u + 1 = 6 + 1
        BY <2>1
      <4> QED
        BY <1>4, <4>1, Zenon DEF EndsLogin
    <3>2. At(p, "login")
      BY <1>2, <1>3, <3>1, FirstBefore
    <3> QED
      BY <3>2, <1>5, Zenon
  <2>2. CASE u # 6
    <3>1. u + 1 <= 6
      BY <1>n, <1>7, <2>2
    <3>2. handler[p].token # None
      BY <1>2, <1>3, <3>1, Zenon DEF HasToken
    <3> QED
      BY <1>1, <1>5, <3>2, Zenon DEF Kept
  <2> QED
    BY <2>1, <2>2
<1>8. ASSUME u > 6 PROVE logins' < MaxToken
  <2>1. u + 1 > 6 /\ u + 1 <= 9
    <3>1. u + 1 <= 9
      BY <1>4, Zenon DEF EndsLogin
    <3> QED
      BY <3>1, <1>n, <1>8
  <2>2. logins < MaxToken
    BY <1>2, <1>3, <2>1, Zenon DEF HasToken
  <2>3. ~At(p, "login")
    <3>1. u = 7 \/ u = 8
      BY <1>n, <1>8, <2>1
    <3>2. CASE u = 7
      <4>1. u + 1 \in Nat /\ 7 \in Nat /\ u + 1 = 7 + 1
        BY <3>2
      <4>2. Before(Todo(p), u + 1, 7, "log in")
        BY <1>4, Zenon DEF EndsLogin
      <4>3. At(p, "log in")
        BY <1>2, <1>3, <4>1, <4>2, FirstBefore
      <4> QED
        BY <4>3, Zenon DEF At
    <3>3. CASE u = 8
      <4>1. u + 1 \in Nat /\ 8 \in Nat /\ u + 1 = 8 + 1
        BY <3>3
      <4>2. Before(Todo(p), u + 1, 8, "get mode")
        BY <1>4, Zenon DEF EndsLogin
      <4>3. At(p, "get mode")
        BY <1>2, <1>3, <4>1, <4>2, FirstBefore
      <4> QED
        BY <4>3, Zenon DEF At
    <3> QED
      BY <3>1, <3>2, <3>3
  <2> QED
    BY <1>1, <2>2, <2>3, Zenon
<1> QED
  BY <1>6, <1>7, <1>8

LEMMA LikeKeeps ==
    ASSUME Tasks, Handlers', NEW q \in Proc, Like(handler'[q], handler[q]),
           vault \in Nat, vault' \in Nat, vault <= vault',
           logins' = logins \/ q \notin LoggingIn
    PROVE  VersionKnown(q)' /\ LoadsAnew(q)' /\ HasVersion(q)' /\ HasToken(q)'
<1>1. /\ handler'[q].kind = handler[q].kind /\ handler'[q].todo = handler[q].todo
      /\ handler'[q].token = handler[q].token /\ handler'[q].version = handler[q].version
  BY Zenon DEF Like
<1>2. VersionKnown(q) /\ LoadsAnew(q) /\ HasVersion(q) /\ HasToken(q)
  BY Zenon DEF Tasks
<1>3. VersionKnown(q)'
  <2>1. CASE handler[q].version = None
    BY <1>1, <2>1, Zenon DEF VersionKnown
  <2>2. CASE handler[q].version \in 0 .. vault
    <3>1. handler[q].version \in 0 .. vault'
      BY <2>2
    <3> QED
      BY <1>1, <3>1, Zenon DEF VersionKnown
  <2> QED
    BY <1>2, <2>1, <2>2, Zenon DEF VersionKnown
<1>4. LoadsAnew(q)' /\ HasVersion(q)'
  BY <1>1, <1>2, Zenon DEF LoadsAnew, HasVersion, At
<1>5. HasToken(q)'
  <2>1. CASE logins' = logins
    BY <1>1, <1>2, <2>1, Zenon DEF HasToken, Todo
  <2>2. CASE q \notin LoggingIn
    <3>1. handler[q].kind # "login"
      BY <2>2 DEF LoggingIn
    <3> QED
      BY <1>1, <1>2, <3>1, Zenon DEF HasToken, Todo
  <2> QED
    BY <2>1, <2>2
<1> QED
  BY <1>3, <1>4, <1>5

LEMMA TasksMoves ==
    ASSUME Tasks, NEW p \in Proc, Moves(p),
           vault \in Nat, vault' \in Nat, vault <= vault', VersionKnown(p)', HasToken(p)',
           At(p, "serve") => handler'[p] = IdleHandler \/ handler'[p].version # None,
           logins' = logins \/ At(p, "login")
    PROVE  Tasks'
<1>0. Handlers /\ Handlers' /\ OneLogin
  BY Zenon DEF Tasks, Moves
<1>1. \A q \in Proc \ {p} : Like(handler'[q], handler[q])
  BY Zenon DEF Moves
<1>2. At(p, "login") => p \in LoggingIn
  <2>1. SUFFICES ASSUME At(p, "login") PROVE handler[p].kind = "login"
    BY DEF LoggingIn
  <2>2. 1 \in DOMAIN Todo(p) /\ Todo(p)[1] = "login"
    BY <1>0, <2>1, AtPlace, Zenon
  <2>3. After(Todo(p), 1, 6, "use token")
    BY <1>0, <2>2, HandlerTodo, Zenon DEF Formed, Rules
  <2> QED
    BY <2>3, Zenon DEF After, Tasks, HasToken
<1>3. \A q \in Proc \ {p} : VersionKnown(q)' /\ LoadsAnew(q)' /\ HasVersion(q)' /\ HasToken(q)'
  <2>1. \A q \in Proc \ {p} : logins' = logins \/ q \notin LoggingIn
    BY <1>0, <1>2, Zenon DEF OneLogin
  <2> QED
    BY <1>0, <1>1, <2>1, LikeKeeps
<1>4. OneLogin'
  <2>1. ASSUME NEW q \in Proc, handler'[q].kind = "login" PROVE handler[q].kind = "login"
    <3>1. CASE q = p
      <4>1. handler'[p] # IdleHandler
        BY <2>1, <3>1, IdleIsHandler, KindNames, ConstantAssumption
      <4> QED
        BY <2>1, <3>1, <4>1, Zenon DEF Moves
    <3>2. CASE q # p
      BY <1>1, <2>1, <3>2, Zenon DEF Like
    <3> QED
      BY <3>1, <3>2
  <2>2. \A a, b \in Proc : handler[a].kind = "login" /\ handler[b].kind = "login" => a = b
    BY <1>0 DEF OneLogin, LoggingIn
  <2>3. \A a, b \in Proc : handler'[a].kind = "login" /\ handler'[b].kind = "login" => a = b
    BY <2>1, <2>2, Zenon
  <2> QED
    BY <2>3 DEF OneLogin, LoggingIn
<1>5. LoadsAnew(p)' /\ HasVersion(p)'
  <2>1. CASE 1 \notin DOMAIN handler'[p].todo
    <3>1. ~At(p, "load")' /\ ~At(p, "receive")'
      <4>1. handler'[p].todo \in Seq(Label)
        BY <1>0, HandlerFields DEF Handlers
      <4>2. handler'[p].todo = <<>>
        BY <2>1, <4>1
      <4> QED
        BY <4>2, Zenon DEF At
    <3> QED
      BY <3>1, Zenon DEF LoadsAnew, HasVersion
  <2>2. CASE 1 \in DOMAIN handler'[p].todo
    <3>1. handler'[p].todo # <<>> /\ Head(handler'[p].todo) = handler'[p].todo[1]
      <4>1. handler'[p].todo \in Seq(Label)
        BY <1>0, HandlerFields DEF Handlers
      <4>2. handler'[p].todo # <<>>
        BY <2>2, EmptySeq
      <4> QED
        BY <4>1, <4>2, TailPlaces, Zenon
    <3>2. CASE Free(handler'[p].todo)
      <4>1. ~(1 > 1)
        OBVIOUS
      <4>2. handler'[p].todo[1] # "load" /\ handler'[p].todo[1] # "receive"
        BY <2>2, <3>2, <4>1, Zenon DEF Free, CalmAt
      <4> QED
        BY <3>1, <4>2, Zenon DEF LoadsAnew, HasVersion, At
    <3>3. CASE ~Free(handler'[p].todo)
      <4>1. 1 + 1 = 2 /\ 2 # 1 /\ 2 \in Nat /\ 1 \in Nat /\ 2 = 1 + 1
        OBVIOUS
      <4>2. 2 \in DOMAIN Todo(p) /\ handler'[p].todo[1] = Todo(p)[2] /\ Todo(p) # <<>>
        BY <1>0, <2>2, <3>3, <4>1, MovesPlaces, Zenon DEF Moves
      <4>3. handler'[p].todo[1] # "load"
        BY <1>0, <4>1, <4>2, HandlerTodo, Zenon DEF Formed, Rules
      <4>4. ASSUME handler'[p].todo[1] = "receive" PROVE handler'[p].version # None
        <5>1. Before(Todo(p), 2, 1, "serve")
          BY <1>0, <4>2, <4>4, HandlerTodo, Zenon DEF Formed, Rules
        <5>2. At(p, "serve")
          BY <1>0, <4>1, <4>2, <5>1, FirstBefore
        <5>3. handler'[p] # IdleHandler
          BY <3>1, IdleIsHandler, Zenon
        <5> QED
          BY <5>2, <5>3
      <4> QED
        BY <3>1, <4>3, <4>4, Zenon DEF LoadsAnew, HasVersion, At
    <3> QED
      BY <3>2, <3>3
  <2> QED
    BY <2>1, <2>2
<1>6. \A q \in Proc : VersionKnown(q)' /\ LoadsAnew(q)' /\ HasVersion(q)' /\ HasToken(q)'
  BY <1>3, <1>5, Zenon
<1> QED
  BY <1>0, <1>4, <1>6, Zenon DEF Tasks

\* A step that reads nothing new.
LEMMA TasksKept ==
    ASSUME Tasks, NEW p \in Proc, Moves(p), Kept(p), vault \in Nat, UNCHANGED <<vault, logins>>,
           ~At(p, "serve"), ~At(p, "login") \/ handler'[p].todo = <<>>
    PROVE  Tasks'
<1>1. VersionKnown(p)'
  <2>1. VersionKnown(p)
    BY Zenon DEF Tasks
  <2>2. handler'[p].version = None \/ handler'[p].version = handler[p].version
    BY IdleIsHandler, Zenon DEF Kept
  <2> QED
    BY <2>1, <2>2, Zenon DEF VersionKnown
<1>2. HasToken(p)'
  BY MovesHasToken, Zenon
<1>3. vault' \in Nat /\ vault <= vault'
  OBVIOUS
<1> QED
  BY <1>1, <1>2, <1>3, TasksMoves

LEMMA TasksLike ==
    ASSUME Tasks, Handlers', \A q \in Proc : Like(handler'[q], handler[q]),
           vault \in Nat, vault' \in Nat, vault <= vault', UNCHANGED logins
    PROVE  Tasks'
<1>1. \A q \in Proc : VersionKnown(q)' /\ LoadsAnew(q)' /\ HasVersion(q)' /\ HasToken(q)'
  BY LikeKeeps
<1>2. OneLogin'
  <2>1. OneLogin /\ \A q \in Proc : handler'[q].kind = handler[q].kind
    BY Zenon DEF Tasks, Like
  <2> QED
    BY <2>1 DEF OneLogin, LoggingIn
<1> QED
  BY <1>1, <1>2, Zenon DEF Tasks

\* A handler that has just begun.
LEMMA BeginsKnows ==
    ASSUME NEW p \in Proc, Handlers', Calm(handler'[p].todo),
           handler'[p].token = None, handler'[p].version = None
    PROVE  VersionKnown(p)' /\ LoadsAnew(p)' /\ HasVersion(p)'
<1>1. VersionKnown(p)' /\ LoadsAnew(p)'
  BY Zenon DEF VersionKnown, LoadsAnew
<1>2. ASSUME At(p, "receive")' PROVE FALSE
  <2>1. handler'[p].todo \in Seq(Label) /\ handler'[p].todo # <<>>
    BY <1>2, HandlerFields DEF Handlers, At
  <2>2. 1 \in DOMAIN handler'[p].todo /\ handler'[p].todo[1] = "receive"
    <3>1. 1 \in DOMAIN handler'[p].todo
      BY <2>1
    <3> QED
      BY <1>2, <2>1, <3>1, TailPlaces, Zenon DEF At
  <2>3. ~(1 > 1)
    OBVIOUS
  <2> QED
    BY <2>2, <2>3, Zenon DEF Calm, CalmAt
<1> QED
  BY <1>1, <1>2, Zenon DEF HasVersion

LEMMA TasksBegins ==
    ASSUME Tasks, NEW p \in Proc, Begins(p), handler'[p].kind # "login", vault \in Nat, UNCHANGED <<vault, logins>>
    PROVE  Tasks'
<1>0. Handlers' /\ \A q \in Proc \ {p} : Like(handler'[q], handler[q])
  BY Zenon DEF Begins
<1>1. vault' \in Nat /\ vault <= vault' /\ logins' = logins
  OBVIOUS
<1>2. \A q \in Proc \ {p} : VersionKnown(q)' /\ LoadsAnew(q)' /\ HasVersion(q)' /\ HasToken(q)'
  BY <1>0, <1>1, LikeKeeps
<1>3. VersionKnown(p)' /\ LoadsAnew(p)' /\ HasVersion(p)'
  BY <1>0, BeginsKnows, Zenon DEF Begins
<1>4. HasToken(p)'
  BY Zenon DEF HasToken, Begins, Todo
<1>5. OneLogin'
  <2>1. \A a, b \in Proc : handler[a].kind = "login" /\ handler[b].kind = "login" => a = b
    BY DEF Tasks, OneLogin, LoggingIn
  <2>2. \A a, b \in Proc : handler'[a].kind = "login" /\ handler'[b].kind = "login" => a = b
    BY <1>0, <2>1, Zenon DEF Like
  <2> QED
    BY <2>2 DEF OneLogin, LoggingIn
<1> QED
  BY <1>0, <1>2, <1>3, <1>4, <1>5, Zenon DEF Tasks

LEMMA TasksLogin ==
    ASSUME Tasks, NEW p \in Proc, StartLogin(p), vault \in Nat
    PROVE  Tasks'
<1>0. /\ Begins(p) /\ handler'[p].kind = "login" /\ handler'[p].todo = Login
      /\ LoggingIn = {} /\ logins < MaxToken /\ UNCHANGED <<logins, vault>>
  BY LoginBegins DEF StartLogin, Tasks, tokenVars, serverVars
<1>1. Handlers' /\ \A q \in Proc \ {p} : Like(handler'[q], handler[q])
  BY <1>0, Zenon DEF Begins
<1>2. vault' \in Nat /\ vault <= vault' /\ logins' = logins
  BY <1>0
<1>3. \A q \in Proc \ {p} : VersionKnown(q)' /\ LoadsAnew(q)' /\ HasVersion(q)' /\ HasToken(q)'
  BY <1>1, <1>2, LikeKeeps
<1>4. VersionKnown(p)' /\ LoadsAnew(p)' /\ HasVersion(p)'
  BY <1>0, <1>1, BeginsKnows, Zenon DEF Begins
<1>5. HasToken(p)'
  <2>1. ASSUME NEW u \in DOMAIN Login, Login[u] = "use token" PROVE ~(u <= 6)
    <3>1. u = 1 \/ u = 2 \/ u = 3 \/ u = 4 \/ u = 5 \/ u = 6 \/ u > 6
      <4>1. Login \in Seq(Label) /\ Len(Login) = 11
        BY IsLogin, Zenon
      <4>2. u \in 1 .. 11
        BY <4>1
      <4> QED
        BY <4>2
    <3>2. u # 1 /\ u # 2 /\ u # 3 /\ u # 4 /\ u # 5 /\ u # 6
      BY <2>1, IsLogin, Zenon
    <3>3. u > 6 => ~(u <= 6)
      <4>1. Login \in Seq(Label) /\ Len(Login) = 11
        BY IsLogin, Zenon
      <4>2. u \in 1 .. 11
        BY <4>1
      <4> QED
        BY <4>2
    <3> QED
      BY <3>1, <3>2, <3>3, Zenon
  <2> QED
    BY <1>0, <2>1, Zenon DEF HasToken, Todo
<1>6. OneLogin'
  <2>1. \A q \in Proc : handler[q].kind # "login"
    BY <1>0 DEF LoggingIn
  <2>2. \A q \in Proc \ {p} : handler'[q].kind # "login"
    BY <1>1, <2>1, Zenon DEF Like
  <2> QED
    BY <2>2 DEF OneLogin, LoggingIn
<1> QED
  BY <1>1, <1>3, <1>4, <1>5, <1>6, Zenon DEF Tasks

LEMMA TasksRestart ==
    ASSUME Tasks, NEW p \in Proc, Restart(p)
    PROVE  Tasks'
<1>0. /\ Handlers' /\ \A q \in Proc \ {p} : handler'[q] = IdleHandler
      /\ Starting(handler'[p].todo) /\ handler'[p].kind # "login"
      /\ handler'[p].token = None /\ handler'[p].version = None /\ handler'[p].fresh = {}
  BY RestartBegins DEF Tasks
<1>1. VersionKnown(p)' /\ LoadsAnew(p)' /\ HasVersion(p)' /\ HasToken(p)'
  BY <1>0, BeginsKnows, Zenon DEF Starting, HasToken, Todo
<1>2. \A q \in Proc \ {p} : VersionKnown(q)' /\ LoadsAnew(q)' /\ HasVersion(q)' /\ HasToken(q)'
  BY <1>0, IdleIsHandler, EmptySeq, Zenon DEF VersionKnown, LoadsAnew, HasVersion, HasToken, At, Todo
<1>3. OneLogin'
  <2>1. None # "login"
    BY ConstantAssumption, KindNames
  <2>2. \A q \in Proc : handler'[q].kind # "login"
    BY <1>0, <2>1, IdleIsHandler, Zenon
  <2> QED
    BY <2>2 DEF OneLogin, LoggingIn
<1> QED
  BY <1>0, <1>1, <1>2, <1>3, Zenon DEF Tasks

(***************************************************************************)
(* The queue of storage operations                                         *)
(***************************************************************************)
Operation ==
    [by : Proc, kind : {"clear", "read", "write"}, record : Maybe(Record), begun : BOOLEAN]

\* Each operation is awaited by the handler that asked for it; only the first
\* may have begun.
Queued ==
    /\ queue \in Seq(Operation)
    /\ \A i \in DOMAIN queue :
          /\ At(queue[i].by, "wait")
          /\ queue[i].begun => i = 1 /\ queue[i].kind = "write"
          /\ queue[i].kind = "write" => queue[i].record \in Record
    /\ \A i, j \in DOMAIN queue : queue[i].by = queue[j].by => i = j

LEMMA OperationFields ==
    ASSUME NEW op \in Operation
    PROVE  /\ op.by \in Proc /\ op.kind \in {"clear", "read", "write"} /\ op.record \in Maybe(Record)
           /\ op.begun \in BOOLEAN
  BY DEF Operation

LEMMA QueuePlaces ==
    ASSUME Queued
    PROVE  \A i \in DOMAIN queue : queue[i] \in Operation /\ queue[i].by \in Proc /\ i \in Nat /\ i >= 1
<1>1. queue \in Seq(Operation)
  BY Zenon DEF Queued
<1>2. \A i \in DOMAIN queue : queue[i] \in Operation /\ i \in Nat /\ i >= 1
  BY <1>1
<1> QED
  BY <1>2, OperationFields, Zenon

LEMMA AppendPlaces ==
    ASSUME NEW S, NEW s \in Seq(S), NEW x \in S
    PROVE  /\ Append(s, x) \in Seq(S) /\ Len(s) \in Nat
           /\ DOMAIN s = 1 .. Len(s) /\ DOMAIN Append(s, x) = 1 .. Len(s) + 1
           /\ \A i \in DOMAIN s : Append(s, x)[i] = s[i] /\ i < Len(s) + 1 /\ i \in DOMAIN Append(s, x)
           /\ Append(s, x)[Len(s) + 1] = x /\ Len(s) + 1 \in DOMAIN Append(s, x)
           /\ Len(s) + 1 \notin DOMAIN s
           /\ \A i \in DOMAIN Append(s, x) : i \in DOMAIN s \/ i = Len(s) + 1
  OBVIOUS

LEMMA QueueTailPlaces ==
    ASSUME NEW S, NEW s \in Seq(S), s # <<>>
    PROVE  /\ Tail(s) \in Seq(S) /\ Head(s) = s[1] /\ 1 \in DOMAIN s
           /\ \A i \in DOMAIN Tail(s) : i + 1 \in DOMAIN s /\ Tail(s)[i] = s[i + 1] /\ i \in Nat /\ i + 1 # 1
           /\ \A i \in DOMAIN s : i # 1 => /\ i - 1 \in DOMAIN Tail(s) /\ Tail(s)[i - 1] = s[i]
                                           /\ i \in Nat /\ (i - 1) + 1 = i
  OBVIOUS

LEMMA ExceptPlaces ==
    ASSUME NEW S, NEW s \in Seq(S), NEW k \in DOMAIN s, NEW x \in S
    PROVE  /\ [s EXCEPT ![k] = x] \in Seq(S) /\ DOMAIN [s EXCEPT ![k] = x] = DOMAIN s
           /\ [s EXCEPT ![k] = x][k] = x
           /\ \A i \in DOMAIN s : i # k => [s EXCEPT ![k] = x][i] = s[i]
  OBVIOUS

LEMMA QueuedSame ==
    ASSUME Queued, UNCHANGED queue,
           \A i \in DOMAIN queue : At(queue[i].by, "wait") => At(queue[i].by, "wait")'
    PROVE  Queued'
<1>1. /\ queue' \in Seq(Operation)
      /\ \A i \in DOMAIN queue :
            /\ At(queue[i].by, "wait")
            /\ queue[i].begun => i = 1 /\ queue[i].kind = "write"
            /\ queue[i].kind = "write" => queue[i].record \in Record
      /\ \A i, j \in DOMAIN queue : queue[i].by = queue[j].by => i = j
  BY Zenon DEF Queued
<1>2. \A i \in DOMAIN queue : handler'[queue[i].by].todo # <<>> /\ Head(handler'[queue[i].by].todo) = "wait"
  BY <1>1, Zenon DEF At
<1>3. queue' = queue
  OBVIOUS
<1> QED
  BY <1>1, <1>2, <1>3, Zenon DEF Queued, At

LEMMA LikeAt ==
    ASSUME NEW q, Like(handler'[q], handler[q]), NEW label
    PROVE  At(q, label)' <=> At(q, label)
  BY Zenon DEF Like, At

\* A handler that does not wait steps, or ends its wait.
LEMMA QueuedMoves ==
    ASSUME Queued, UNCHANGED queue, NEW p \in Proc, \A q \in Proc \ {p} : Like(handler'[q], handler[q]),
           ~At(p, "wait") \/ \A i \in DOMAIN queue : queue[i].by # p
    PROVE  Queued'
<1>1. \A i \in DOMAIN queue : queue[i].by # p
  BY Zenon DEF Queued
<1>2. \A i \in DOMAIN queue : queue[i].by \in Proc \ {p}
  BY <1>1, QueuePlaces, Zenon
<1>3. \A i \in DOMAIN queue : At(queue[i].by, "wait") => At(queue[i].by, "wait")'
  BY <1>2, LikeAt, Zenon
<1> QED
  BY <1>3, QueuedSame

\* A handler asks for an operation.
LEMMA QueuedAppend ==
    ASSUME Queued, NEW p \in Proc, \A q \in Proc \ {p} : Like(handler'[q], handler[q]),
           ~At(p, "wait"), At(p, "wait")',
           NEW op \in Operation, op.by = p, op.begun = FALSE, op.kind = "write" => op.record \in Record,
           queue' = Append(queue, op)
    PROVE  Queued'
<1> DEFINE n == Len(queue) + 1
           new == Append(queue, op)
<1>1. queue \in Seq(Operation)
  BY Zenon DEF Queued
<1>2. /\ new \in Seq(Operation)
      /\ \A i \in DOMAIN queue : new[i] = queue[i] /\ i \in DOMAIN new
      /\ new[n] = op /\ n \in DOMAIN new
      /\ \A i \in DOMAIN new : i \in DOMAIN queue \/ i = n
  BY <1>1, AppendPlaces
<1>3. queue' = new
  OBVIOUS
<1> HIDE DEF n, new
<1>4. \A i \in DOMAIN queue : queue[i].by # p
  BY Zenon DEF Queued
<1>5. \A q \in Proc \ {p} : At(q, "wait") => handler'[q].todo # <<>> /\ Head(handler'[q].todo) = "wait"
  BY Zenon DEF Like, At
<1>6. \A i \in DOMAIN queue : handler'[queue[i].by].todo # <<>> /\ Head(handler'[queue[i].by].todo) = "wait"
  <2>1. \A i \in DOMAIN queue : queue[i].by \in Proc \ {p} /\ At(queue[i].by, "wait")
    BY <1>4, QueuePlaces, Zenon DEF Queued
  <2> QED
    BY <1>5, <2>1, Zenon
<1>7. handler'[p].todo # <<>> /\ Head(handler'[p].todo) = "wait"
  BY Zenon DEF At
<1>8. ASSUME NEW i \in DOMAIN new
      PROVE  /\ handler'[new[i].by].todo # <<>> /\ Head(handler'[new[i].by].todo) = "wait"
             /\ new[i].begun => i = 1 /\ new[i].kind = "write"
             /\ new[i].kind = "write" => new[i].record \in Record
  <2>1. CASE i \in DOMAIN queue
    <3>1. new[i] = queue[i]
      BY <1>2, <2>1, Zenon
    <3> QED
      BY <1>6, <2>1, <3>1, Zenon DEF Queued
  <2>2. CASE i = n
    BY <1>2, <1>7, <2>2, Zenon
  <2> QED
    BY <1>2, <1>8, <2>1, <2>2, Zenon
<1>9. ASSUME NEW i \in DOMAIN new, NEW j \in DOMAIN new, new[i].by = new[j].by PROVE i = j
  <2>1. (i \in DOMAIN queue => new[i] = queue[i]) /\ (j \in DOMAIN queue => new[j] = queue[j])
    BY <1>2, Zenon
  <2>2. CASE i \in DOMAIN queue /\ j \in DOMAIN queue
    BY <1>9, <2>1, <2>2, Zenon DEF Queued
  <2>3. CASE i = n /\ j \in DOMAIN queue
    BY <1>2, <1>4, <1>9, <2>1, <2>3, Zenon
  <2>4. CASE i \in DOMAIN queue /\ j = n
    BY <1>2, <1>4, <1>9, <2>1, <2>4, Zenon
  <2> QED
    BY <1>2, <1>9, <2>2, <2>3, <2>4, Zenon
<1> QED
  BY <1>2, <1>3, <1>8, <1>9, Zenon DEF Queued, At

\* The first operation is done.
LEMMA QueuedTail ==
    ASSUME Queued, queue # <<>>, queue' = Tail(queue), UNCHANGED handler
    PROVE  Queued' /\ \A i \in DOMAIN queue' : ~queue'[i].begun
<1> DEFINE new == Tail(queue)
<1>1. queue \in Seq(Operation)
  BY Zenon DEF Queued
<1>2. /\ new \in Seq(Operation)
      /\ \A i \in DOMAIN new : i + 1 \in DOMAIN queue /\ new[i] = queue[i + 1] /\ i \in Nat /\ i + 1 # 1
  BY <1>1, QueueTailPlaces, Zenon
<1>3. queue' = new
  OBVIOUS
<1> HIDE DEF new
<1>4. ASSUME NEW i \in DOMAIN new
      PROVE  /\ At(new[i].by, "wait") /\ ~new[i].begun
             /\ new[i].kind = "write" => new[i].record \in Record
  <2>1. i + 1 \in DOMAIN queue /\ new[i] = queue[i + 1] /\ i + 1 # 1
    BY <1>2, <1>4, Zenon
  <2>2. /\ At(queue[i + 1].by, "wait") /\ (queue[i + 1].begun => i + 1 = 1)
        /\ queue[i + 1].kind = "write" => queue[i + 1].record \in Record
    BY <2>1, Zenon DEF Queued
  <2> QED
    BY <2>1, <2>2, Zenon
<1>5. ASSUME NEW i \in DOMAIN new, NEW j \in DOMAIN new, new[i].by = new[j].by PROVE i = j
  <2>1. i + 1 = j + 1
    <3>1. /\ i + 1 \in DOMAIN queue /\ new[i] = queue[i + 1]
          /\ j + 1 \in DOMAIN queue /\ new[j] = queue[j + 1]
      BY <1>2, <1>5, Zenon
    <3>2. queue[i + 1].by = queue[j + 1].by
      BY <1>5, <3>1, Zenon
    <3> QED
      BY <3>1, <3>2, Zenon DEF Queued
  <2>2. i \in Nat /\ j \in Nat
    BY <1>2, <1>5, Zenon
  <2> QED
    BY <2>1, <2>2
<1>6. ASSUME NEW i \in DOMAIN new
      PROVE  handler'[new[i].by].todo # <<>> /\ Head(handler'[new[i].by].todo) = "wait"
  BY <1>4, <1>6, Zenon DEF At
<1> QED
  BY <1>2, <1>3, <1>4, <1>5, <1>6, Zenon DEF Queued, At

\* The first operation begins.
LEMMA QueuedBegins ==
    ASSUME Queued, queue # <<>>, Head(queue).kind = "write", queue' = [queue EXCEPT ![1].begun = TRUE],
           UNCHANGED handler
    PROVE  /\ Queued' /\ DOMAIN queue' = DOMAIN queue
           /\ \A i \in DOMAIN queue :
                 /\ queue'[i].by = queue[i].by /\ queue'[i].kind = queue[i].kind
                 /\ queue'[i].record = queue[i].record
                 /\ queue'[i].begun => i = 1
<1>1. queue \in Seq(Operation)
  BY Zenon DEF Queued
<1>2. Head(queue) = queue[1] /\ 1 \in DOMAIN queue
  BY <1>1, QueueTailPlaces
<1> DEFINE op == [queue[1] EXCEPT !.begun = TRUE]
<1>3. queue[1] \in Operation
  BY <1>1, <1>2
<1>4. /\ op \in Operation /\ op.by = queue[1].by /\ op.kind = queue[1].kind
      /\ op.record = queue[1].record
  BY <1>3 DEF Operation
<1>5. queue' = [queue EXCEPT ![1] = op]
  OBVIOUS
<1> HIDE DEF op
<1>6. /\ queue' \in Seq(Operation) /\ DOMAIN queue' = DOMAIN queue /\ queue'[1] = op
      /\ \A i \in DOMAIN queue : i # 1 => queue'[i] = queue[i]
  <2> DEFINE new == [queue EXCEPT ![1] = op]
  <2>1. /\ new \in Seq(Operation) /\ DOMAIN new = DOMAIN queue /\ new[1] = op
        /\ \A i \in DOMAIN queue : i # 1 => new[i] = queue[i]
    BY <1>1, <1>2, <1>4, ExceptPlaces
  <2>2. queue' = new
    BY <1>5
  <2> HIDE DEF new
  <2> QED
    BY <2>1, <2>2, Zenon
<1>7. \A i \in DOMAIN queue : /\ queue'[i].by = queue[i].by /\ queue'[i].kind = queue[i].kind
                              /\ queue'[i].record = queue[i].record
  BY <1>4, <1>6, Zenon
<1>8. queue[1].kind = "write"
  BY <1>2
<1>9. \A i \in DOMAIN queue : queue'[i].begun => i = 1 /\ queue[i].kind = "write"
  BY <1>6, <1>8, Zenon DEF Queued
<1>10. \A i \in DOMAIN queue : handler'[queue[i].by].todo # <<>> /\ Head(handler'[queue[i].by].todo) = "wait"
  <2>1. handler' = handler
    OBVIOUS
  <2> QED
    BY <2>1, Zenon DEF Queued, At
<1>11. Queued'
  <2>1. ASSUME NEW i \in DOMAIN queue'
        PROVE  /\ handler'[queue'[i].by].todo # <<>> /\ Head(handler'[queue'[i].by].todo) = "wait"
               /\ queue'[i].begun => i = 1 /\ queue'[i].kind = "write"
               /\ queue'[i].kind = "write" => queue'[i].record \in Record
    BY <1>6, <1>7, <1>9, <1>10, <2>1, Zenon DEF Queued
  <2>2. ASSUME NEW i \in DOMAIN queue', NEW j \in DOMAIN queue', queue'[i].by = queue'[j].by
        PROVE  i = j
    <3>1. i \in DOMAIN queue /\ j \in DOMAIN queue
      BY <1>6, <2>2, Zenon
    <3>2. queue[i].by = queue[j].by
      BY <1>7, <2>2, <3>1, Zenon
    <3> QED
      BY <3>1, <3>2, Zenon DEF Queued
  <2> QED
    BY <1>6, <2>1, <2>2, Zenon DEF Queued, At
<1> QED
  BY <1>6, <1>7, <1>9, <1>11, Zenon


(***************************************************************************)
(* Type correctness                                                        *)
(***************************************************************************)
TokenTypes ==
    /\ token \in Maybe(Token) /\ logins \in 0 .. MaxToken /\ clearing \in BOOLEAN
    /\ saved \in [Area -> Maybe(Token)] /\ replaced \subseteq Token /\ locked \in BOOLEAN
ModeTypes == cachedMode \in Maybe(Mode) /\ mode \in Mode /\ modeEvent \in BOOLEAN
LockTypes == deadline \in Maybe(Time) /\ alarm \in Maybe(Time) /\ wiped \in BOOLEAN
CacheTypes == metadata \in Maybe(Record) /\ stored \in Maybe(Record)
ServerTypes == vault \in Version /\ own \in 0 .. vault
Values == TokenTypes /\ ModeTypes /\ LockTypes /\ CacheTypes /\ ServerTypes

Base == Values /\ Tasks /\ Queued

LEMMA TokenSame == TokenTypes /\ UNCHANGED tokenVars => TokenTypes'
  BY DEF TokenTypes, tokenVars
LEMMA ModeSame == ModeTypes /\ UNCHANGED modeVars => ModeTypes'
  BY DEF ModeTypes, modeVars
LEMMA LockSame == LockTypes /\ UNCHANGED lockVars => LockTypes'
  BY DEF LockTypes, lockVars
LEMMA CacheSame == CacheTypes /\ UNCHANGED <<metadata, stored>> => CacheTypes'
  BY DEF CacheTypes
LEMMA ServerSame == ServerTypes /\ UNCHANGED serverVars => ServerTypes'
  BY DEF ServerTypes, serverVars

LEMMA BaseParts ==
    ASSUME Base
    PROVE  /\ TokenTypes /\ ModeTypes /\ LockTypes /\ CacheTypes /\ ServerTypes
           /\ Tasks /\ Handlers /\ Queued /\ vault \in Nat
  BY DEF Base, Values, Tasks, ServerTypes, Version

\* Handler p takes a step that reads nothing new and asks for nothing.
LEMMA BaseKept ==
    ASSUME Base, NEW p \in Proc, Moves(p), Kept(p), UNCHANGED <<vault, logins, queue>>,
           ~At(p, "serve"), ~At(p, "login") \/ handler'[p].todo = <<>>,
           ~At(p, "wait") \/ \A i \in DOMAIN queue : queue[i].by # p
    PROVE  Tasks' /\ Queued'
<1>1. Tasks'
  BY BaseParts, TasksKept
<1>2. Queued'
  <2>1. \A q \in Proc \ {p} : Like(handler'[q], handler[q])
    BY Zenon DEF Moves
  <2> QED
    BY <2>1, BaseParts, QueuedMoves
<1> QED
  BY <1>1, <1>2

\* Nothing else is touched by the steps that only read.
LEMMA BaseQuiet ==
    ASSUME Base, NEW p \in Proc, Moves(p), Kept(p),
           UNCHANGED <<tokenVars, modeVars, lockVars, cacheVars, serverVars>>,
           ~At(p, "serve"), ~At(p, "login") \/ handler'[p].todo = <<>>,
           ~At(p, "wait") \/ \A i \in DOMAIN queue : queue[i].by # p
    PROVE  Base'
<1>1. UNCHANGED <<vault, logins, queue>>
  BY DEF serverVars, tokenVars, cacheVars
<1>2. Tasks' /\ Queued'
  BY <1>1, BaseKept
<1>3. Values'
  <2>1. UNCHANGED tokenVars /\ UNCHANGED modeVars /\ UNCHANGED lockVars /\ UNCHANGED serverVars
        /\ UNCHANGED <<metadata, stored>>
    BY DEF cacheVars
  <2> QED
    BY <2>1, BaseParts, TokenSame, ModeSame, LockSame, CacheSame, ServerSame, Zenon DEF Values
<1> QED
  BY <1>2, <1>3 DEF Base

\* A handler reads the version of the logins, or hears that a change is made.
LEMMA BaseHears ==
    ASSUME Base, NEW p \in Proc, Moves(p), vault' \in Nat, vault <= vault',
           handler'[p].token = handler[p].token, handler'[p].version \in Maybe(0 .. vault'),
           At(p, "serve") => handler'[p].version # None,
           UNCHANGED <<logins, queue>>, ~At(p, "login"), ~At(p, "wait")
    PROVE  Tasks' /\ Queued'
<1>1. VersionKnown(p)'
  BY Zenon DEF VersionKnown, Maybe
<1>2. HasToken(p)'
  BY BaseParts, MovesHasToken, Zenon
<1>3. Tasks'
  BY <1>1, <1>2, BaseParts, TasksMoves
<1>4. Queued'
  <2>1. \A q \in Proc \ {p} : Like(handler'[q], handler[q])
    BY Zenon DEF Moves
  <2> QED
    BY <2>1, BaseParts, QueuedMoves
<1> QED
  BY <1>3, <1>4

LEMMA NotAt ==
    ASSUME NEW p, NEW label, At(p, label), NEW other, other # label
    PROVE  ~At(p, other)
  BY Zenon DEF At

LEMMA BaseGetMode ==
    ASSUME Base, NEW p \in Proc, GetMode(p)
    PROVE  Base'
<1>0. /\ At(p, "get mode")
      /\ UNCHANGED <<tokenVars, mode, modeEvent, lockVars, cacheVars, serverVars>>
      /\ cachedMode' = IF cachedMode # None THEN cachedMode ELSE mode
  BY DEF GetMode
<1>1. Moves(p) /\ Kept(p)
  BY BaseParts, GetModeMoves DEF ModeTypes
<1>2. Tasks' /\ Queued'
  <2>1. UNCHANGED <<vault, logins, queue>>
    BY <1>0 DEF serverVars, tokenVars, cacheVars
  <2>2. ~At(p, "serve") /\ ~At(p, "login") /\ ~At(p, "wait")
    BY <1>0, NotAt, Zenon
  <2> QED
    BY <1>1, <2>1, <2>2, BaseKept, Zenon
<1>3. ModeTypes'
  BY <1>0, BaseParts DEF ModeTypes, Maybe
<1>4. Values'
  <2>1. UNCHANGED tokenVars /\ UNCHANGED lockVars /\ UNCHANGED serverVars /\ UNCHANGED <<metadata, stored>>
    BY <1>0 DEF cacheVars
  <2> QED
    BY <1>3, <2>1, BaseParts, TokenSame, LockSame, CacheSame, ServerSame, Zenon DEF Values
<1> QED
  BY <1>2, <1>4 DEF Base

\* A handler's version is known from before.
LEMMA BaseReads ==
    ASSUME Base, NEW p \in Proc, Moves(p), UNCHANGED <<vault, logins, queue>>,
           handler'[p].token = handler[p].token, handler'[p].version = handler[p].version,
           ~At(p, "serve"), ~At(p, "login"), ~At(p, "wait")
    PROVE  Tasks' /\ Queued'
<1>1. handler'[p].version \in Maybe(0 .. vault')
  <2>1. VersionKnown(p)
    BY Zenon DEF Base, Tasks
  <2> QED
    BY <2>1 DEF VersionKnown, Maybe
<1>2. vault' \in Nat /\ vault <= vault'
  BY BaseParts
<1> QED
  BY <1>1, <1>2, BaseHears

LEMMA ValuesSame ==
    ASSUME Base, UNCHANGED <<tokenVars, modeVars, lockVars, metadata, stored, serverVars>>
    PROVE  Values'
<1>1. UNCHANGED tokenVars /\ UNCHANGED modeVars /\ UNCHANGED lockVars /\ UNCHANGED serverVars
      /\ UNCHANGED <<metadata, stored>>
  OBVIOUS
<1> QED
  BY <1>1, BaseParts, TokenSame, ModeSame, LockSame, CacheSame, ServerSame, Zenon DEF Values

LEMMA BaseLoadBegins ==
    ASSUME Base, NEW p \in Proc, LoadBegins(p)
    PROVE  Base'
<1>0. At(p, "load") /\ UNCHANGED <<tokenVars, modeVars, lockVars, cacheVars, serverVars>>
  BY DEF LoadBegins
<1>1. /\ Moves(p)
      /\ \/ Kept(p)
         \/ handler'[p].token = handler[p].token /\ handler'[p].version = handler[p].version
  BY BaseParts, LoadBeginsMoves, Zenon
<1>2. ~At(p, "serve") /\ ~At(p, "login") /\ ~At(p, "wait")
  BY <1>0, NotAt, Zenon
<1>3. UNCHANGED <<vault, logins, queue>> /\ UNCHANGED <<tokenVars, modeVars, lockVars, metadata, stored, serverVars>>
  BY <1>0 DEF serverVars, tokenVars, cacheVars
<1>4. Tasks' /\ Queued'
  BY <1>1, <1>2, <1>3, BaseKept, BaseReads, Zenon
<1> QED
  BY <1>3, <1>4, ValuesSame DEF Base

LEMMA BaseReadSaved ==
    ASSUME Base, NEW p \in Proc, ReadSaved(p)
    PROVE  Base'
<1>0. /\ At(p, "read session") \/ At(p, "read local")
      /\ UNCHANGED <<tokenVars, modeVars, lockVars, cacheVars, serverVars>>
  BY DEF ReadSaved
<1>1. /\ Moves(p) /\ Fine(handler'[p].todo)
      /\ handler'[p] = IdleHandler \/ handler'[p].version = handler[p].version
  BY BaseParts, ReadSavedMoves, Zenon DEF TokenTypes
<1>2. ~At(p, "serve") /\ ~At(p, "login") /\ ~At(p, "wait")
  BY <1>0, NotAt, Zenon
<1>3. /\ UNCHANGED <<vault, logins, queue>>
      /\ UNCHANGED <<tokenVars, modeVars, lockVars, metadata, stored, serverVars>>
  BY <1>0 DEF serverVars, tokenVars, cacheVars
<1>4. Tasks'
  <2>1. VersionKnown(p)'
    <3>1. VersionKnown(p) /\ vault' = vault
      BY <1>3, Zenon DEF Base, Tasks
    <3> QED
      BY <1>1, <3>1, IdleIsHandler, Zenon DEF VersionKnown
  <2>2. HasToken(p)'
    BY <1>1, <1>2, BaseParts, MovesHasToken, Zenon DEF Fine
  <2>3. vault' \in Nat /\ vault <= vault' /\ logins' = logins
    BY <1>3, BaseParts
  <2> QED
    BY <1>1, <1>2, <2>1, <2>2, <2>3, BaseParts, TasksMoves
<1>5. Queued'
  <2>1. \A q \in Proc \ {p} : Like(handler'[q], handler[q])
    BY <1>1, Zenon DEF Moves
  <2> QED
    BY <1>2, <1>3, <2>1, BaseParts, QueuedMoves
<1> QED
  BY <1>3, <1>4, <1>5, ValuesSame DEF Base

LEMMA BaseReadDeadline ==
    ASSUME Base, NEW p \in Proc, ReadDeadline(p)
    PROVE  Base'
<1>0. /\ At(p, "read deadline")
      /\ UNCHANGED <<tokenVars, modeVars, lockVars, cacheVars, serverVars>>
  BY DEF ReadDeadline
<1>1. Moves(p) /\ Kept(p)
  BY BaseParts, ReadDeadlineMoves, Zenon DEF LockTypes
<1>2. ~At(p, "serve") /\ ~At(p, "login") /\ ~At(p, "wait")
  BY <1>0, NotAt, Zenon
<1> QED
  BY <1>0, <1>1, <1>2, BaseQuiet

LEMMA TokenOf ==
    ASSUME Base, NEW p \in Proc
    PROVE  handler[p].token \in Maybe(Token)
  BY HandlerFields DEF Base, Tasks, Handlers

LEMMA BaseToken ==
    ASSUME Base, NEW p \in Proc, SetToken(p) \/ UseToken(p)
    PROVE  Base'
<1>0. /\ At(p, "set token") \/ At(p, "use token")
      /\ token' \in {token, handler[p].token}
      /\ UNCHANGED <<logins, clearing, saved, replaced, locked, modeVars, lockVars, cacheVars, serverVars>>
  BY DEF SetToken, UseToken
<1>1. Moves(p) /\ Kept(p)
  BY BaseParts, SetTokenMoves, UseTokenMoves, Zenon
<1>2. ~At(p, "serve") /\ ~At(p, "login") /\ ~At(p, "wait")
  BY <1>0, NotAt, Zenon
<1>3. UNCHANGED <<vault, logins, queue>>
  BY <1>0 DEF serverVars, cacheVars
<1>4. Tasks' /\ Queued'
  BY <1>1, <1>2, <1>3, BaseKept, Zenon
<1>5. TokenTypes'
  BY <1>0, BaseParts, TokenOf DEF TokenTypes
<1>6. Values'
  <2>1. UNCHANGED modeVars /\ UNCHANGED lockVars /\ UNCHANGED serverVars /\ UNCHANGED <<metadata, stored>>
    BY <1>0 DEF cacheVars
  <2> QED
    BY <1>5, <2>1, BaseParts, ModeSame, LockSame, CacheSame, ServerSame, Zenon DEF Values
<1> QED
  BY <1>4, <1>6 DEF Base

LEMMA BaseDeadline ==
    ASSUME Base, NEW p \in Proc,
           \/ RemoveDeadline(p) \/ ClearAlarm(p) \/ CreateAlarm(p) \/ SetDeadline(p)
           \/ MinutesChanged(p) \/ NewDeadline(p)
    PROVE  Base'
<1>0. /\ \/ At(p, "remove deadline") \/ At(p, "clear alarm") \/ At(p, "unset alarm")
         \/ At(p, "create alarm") \/ At(p, "set deadline") \/ At(p, "minutes") \/ At(p, "new deadline")
      /\ UNCHANGED <<tokenVars, modeVars, cacheVars, serverVars>>
  BY DEF RemoveDeadline, ClearAlarm, CreateAlarm, SetDeadline, MinutesChanged, NewDeadline
<1>1. Moves(p) /\ Kept(p)
  BY BaseParts, DeadlineMoves, Zenon
<1>2. ~At(p, "serve") /\ ~At(p, "login") /\ ~At(p, "wait")
  BY <1>0, NotAt, Zenon
<1>3. UNCHANGED <<vault, logins, queue>>
  BY <1>0 DEF serverVars, cacheVars, tokenVars
<1>4. Tasks' /\ Queued'
  BY <1>1, <1>2, <1>3, BaseKept, Zenon
<1>5. LockTypes'
  <2>1. /\ deadline' \in Maybe(Time) \cup {deadline} /\ alarm' \in Maybe(Time) \cup {alarm}
        /\ wiped' \in BOOLEAN \cup {wiped}
    BY DEF RemoveDeadline, ClearAlarm, CreateAlarm, SetDeadline, MinutesChanged, NewDeadline, Maybe, Time,
           lockVars
  <2> QED
    BY <2>1, BaseParts DEF LockTypes
<1>6. Values'
  <2>1. UNCHANGED modeVars /\ UNCHANGED tokenVars /\ UNCHANGED serverVars /\ UNCHANGED <<metadata, stored>>
    BY <1>0 DEF cacheVars
  <2> QED
    BY <1>5, <2>1, BaseParts, ModeSame, TokenSame, CacheSame, ServerSame, Zenon DEF Values
<1> QED
  BY <1>4, <1>6 DEF Base

LEMMA BaseLocks ==
    ASSUME Base, NEW p \in Proc, Forget(p) \/ Remove(p) \/ Cleared(p) \/ SaveToken(p)
    PROVE  Base'
<1>0. /\ \/ At(p, "clear token") \/ At(p, "remove session") \/ At(p, "remove local") \/ At(p, "cleared")
         \/ At(p, "save token")
      /\ UNCHANGED <<logins, modeVars, lockVars, cacheVars, serverVars>>
  BY DEF Forget, Remove, Cleared, SaveToken
<1>1. Moves(p) /\ Kept(p)
  BY BaseParts, ForgetMoves, LockMoves, Zenon
<1>2. ~At(p, "serve") /\ ~At(p, "login") /\ ~At(p, "wait")
  BY <1>0, NotAt, Zenon
<1>3. UNCHANGED <<vault, logins, queue>>
  BY <1>0 DEF serverVars, cacheVars
<1>4. Tasks' /\ Queued'
  BY <1>1, <1>2, <1>3, BaseKept, Zenon
<1>5. TokenTypes'
  <2>1. TokenTypes /\ handler[p].token \in Maybe(Token) /\ None \in Maybe(Token)
    BY BaseParts, TokenOf DEF Maybe
  <2>2. CASE Forget(p)
    BY <2>1, <2>2 DEF Forget, TokenTypes
  <2>3. ASSUME NEW area \in Area, NEW t \in Maybe(Token), Store(area, t),
               UNCHANGED <<token, logins, clearing, locked>>
        PROVE  TokenTypes'
    BY <2>1, <2>3 DEF Store, TokenTypes, Maybe
  <2>4. CASE Remove(p)
    BY <2>1, <2>3, <2>4 DEF Remove, Area
  <2>5. CASE Cleared(p)
    BY <2>1, <2>5 DEF Cleared, TokenTypes
  <2>6. CASE SaveToken(p)
    BY <2>1, <2>3, <2>6 DEF SaveToken, Area
  <2> QED
    BY <2>2, <2>4, <2>5, <2>6
<1>6. Values'
  <2>1. UNCHANGED modeVars /\ UNCHANGED lockVars /\ UNCHANGED serverVars /\ UNCHANGED <<metadata, stored>>
    BY <1>0 DEF cacheVars
  <2> QED
    BY <1>5, <2>1, BaseParts, ModeSame, LockSame, CacheSame, ServerSame, Zenon DEF Values
<1> QED
  BY <1>4, <1>6 DEF Base

\* Steps that only take the handler on.
LEMMA BaseGoesOn ==
    ASSUME Base, NEW p \in Proc, ClearPopup(p) \/ Validate(p) \/ Waited(p)
    PROVE  Base'
<1>0. /\ \/ At(p, "clear popup") \/ At(p, "validate")
         \/ At(p, "wait") /\ \A i \in DOMAIN queue : queue[i].by # p
      /\ UNCHANGED <<tokenVars, modeVars, lockVars, cacheVars, serverVars>>
  BY DEF ClearPopup, Validate, Waited
<1>1. Moves(p) /\ Kept(p)
  BY BaseParts, LockMoves, ValidateMoves, Zenon
<1>2. ~At(p, "serve") /\ ~At(p, "login") /\ (~At(p, "wait") \/ \A i \in DOMAIN queue : queue[i].by # p)
  BY <1>0, NotAt, Zenon
<1> QED
  BY <1>0, <1>1, <1>2, BaseQuiet, Zenon

LEMMA BaseSent ==
    ASSUME Base, NEW p \in Proc, LoginSent(p) \/ Send(p)
    PROVE  Base'
<1>0. /\ At(p, "log in") \/ At(p, "send")
      /\ UNCHANGED <<tokenVars, modeVars, lockVars, cacheVars, serverVars>>
  BY DEF LoginSent, Send
<1>1. /\ Moves(p)
      /\ \/ Kept(p)
         \/ handler'[p].token = handler[p].token /\ handler'[p].version = handler[p].version
  BY BaseParts, LoginSentMoves, SendMoves, Zenon DEF Kept
<1>2. ~At(p, "serve") /\ ~At(p, "login") /\ ~At(p, "wait")
  BY <1>0, NotAt, Zenon
<1>3. UNCHANGED <<vault, logins, queue>> /\ UNCHANGED <<tokenVars, modeVars, lockVars, metadata, stored, serverVars>>
  BY <1>0 DEF serverVars, tokenVars, cacheVars
<1>4. Tasks' /\ Queued'
  BY <1>1, <1>2, <1>3, BaseKept, BaseReads, Zenon
<1> QED
  BY <1>3, <1>4, ValuesSame DEF Base

LEMMA LoginLeft ==
    ASSUME Base, NEW p \in Proc, At(p, "login")
    PROVE  logins < MaxToken /\ p \in LoggingIn
<1>1. Handlers /\ HasToken(p)
  BY Zenon DEF Base, Tasks
<1>2. 1 \in DOMAIN Todo(p) /\ Todo(p)[1] = "login"
  BY <1>1, AtPlace, Zenon
<1>3. 1 + 6 = 7 /\ 7 > 6
  OBVIOUS
<1>4. 7 \in DOMAIN Todo(p) /\ Todo(p)[7] = "use token"
  <2>1. After(Todo(p), 1, 6, "use token")
    BY <1>1, <1>2, HandlerTodo, Zenon DEF Formed, Rules
  <2> QED
    BY <1>3, <2>1, Zenon DEF After
<1>5. logins < MaxToken /\ handler[p].kind = "login"
  BY <1>1, <1>3, <1>4, Zenon DEF HasToken
<1> QED
  BY <1>5 DEF LoggingIn

LEMMA BaseLoginAnswered ==
    ASSUME Base, NEW p \in Proc, LoginAnswered(p)
    PROVE  Base'
<1>0. /\ At(p, "login")
      /\ UNCHANGED <<clearing, saved, replaced, modeVars, lockVars, cacheVars, serverVars>>
  BY DEF LoginAnswered
<1>1. logins \in Nat /\ logins < MaxToken
  <2>1. logins \in 0 .. MaxToken
    BY BaseParts DEF TokenTypes
  <2> QED
    BY <1>0, <2>1, LoginLeft
<1>2. /\ Moves(p)
      /\ \/ Kept(p) /\ handler'[p].todo = <<>> /\ UNCHANGED <<token, logins, locked>>
         \/ /\ logins' = logins + 1 /\ token' = logins' /\ locked' = FALSE
            /\ \/ handler'[p] = IdleHandler
               \/ handler'[p].token = logins' /\ handler'[p].version = handler[p].version
  BY <1>1, BaseParts, LoginAnsweredMoves, Zenon
<1>3. ~At(p, "serve") /\ ~At(p, "wait")
  BY <1>0, NotAt, Zenon
<1>4. UNCHANGED <<vault, queue>>
  BY <1>0 DEF serverVars, cacheVars
<1>5. CASE Kept(p) /\ handler'[p].todo = <<>> /\ UNCHANGED <<token, logins, locked>>
  <2>1. Tasks' /\ Queued'
    BY <1>2, <1>3, <1>4, <1>5, BaseKept, Zenon
  <2>2. UNCHANGED <<tokenVars, modeVars, lockVars, metadata, stored, serverVars>>
    BY <1>0, <1>5 DEF cacheVars, tokenVars
  <2> QED
    BY <2>1, <2>2, ValuesSame DEF Base
<1>6. CASE /\ logins' = logins + 1 /\ token' = logins' /\ locked' = FALSE
           /\ \/ handler'[p] = IdleHandler
              \/ handler'[p].token = logins' /\ handler'[p].version = handler[p].version
  <2>1. logins' \in Nat /\ logins' # None
    BY <1>1, <1>6, ConstantAssumption
  <2>2. HasToken(p)'
    <3>1. handler'[p].todo = <<>> \/ handler'[p].token # None
      BY <1>6, <2>1, IdleIsHandler, Zenon
    <3> QED
      BY <1>0, <1>1, <1>2, <1>6, <2>1, <3>1, BaseParts, MovesHasToken, Zenon
  <2>3. VersionKnown(p)'
    <3>1. VersionKnown(p) /\ vault' = vault
      BY <1>4, Zenon DEF Base, Tasks
    <3> QED
      BY <1>6, <3>1, IdleIsHandler, Zenon DEF VersionKnown
  <2>4. Tasks'
    <3>1. vault' \in Nat /\ vault <= vault'
      BY <1>4, BaseParts
    <3> QED
      BY <1>0, <1>2, <1>3, <2>2, <2>3, <3>1, BaseParts, TasksMoves, Zenon
  <2>5. Queued'
    <3>1. \A q \in Proc \ {p} : Like(handler'[q], handler[q])
      BY <1>2, Zenon DEF Moves
    <3> QED
      BY <1>3, <1>4, <3>1, BaseParts, QueuedMoves
  <2>6. TokenTypes'
    <3>1. token' \in Token /\ logins' \in 0 .. MaxToken
      BY <1>1, <1>6, ConstantAssumption DEF Token
    <3> QED
      BY <1>0, <1>6, <3>1, BaseParts DEF TokenTypes, Maybe
  <2>7. Values'
    <3>1. UNCHANGED modeVars /\ UNCHANGED lockVars /\ UNCHANGED serverVars /\ UNCHANGED <<metadata, stored>>
      BY <1>0 DEF cacheVars
    <3> QED
      BY <2>6, <3>1, BaseParts, ModeSame, LockSame, CacheSame, ServerSame, Zenon DEF Values
  <2> QED
    BY <2>4, <2>5, <2>7 DEF Base
<1> QED
  BY <1>2, <1>5, <1>6, Zenon

(***************************************************************************)
(* Credential metadata                                                     *)
(***************************************************************************)
\* A handler asks for an operation, and waits.
LEMMA AsksQueued ==
    ASSUME Base, NEW p \in Proc, Moves(p), ~At(p, "wait"), At(p, "wait")',
           NEW kind \in {"clear", "read", "write"}, NEW record \in Maybe(Record), kind = "write" => record \in Record,
           Enqueue(p, kind, record)
    PROVE  Queued'
<1> DEFINE op == [by |-> p, kind |-> kind, record |-> record, begun |-> FALSE]
<1>1. /\ op \in Operation /\ op.by = p /\ op.begun = FALSE /\ op.kind = kind /\ op.record = record
  BY DEF Operation
<1>2. queue' = Append(queue, op)
  BY DEF Enqueue
<1> HIDE DEF op
<1>3. \A q \in Proc \ {p} : Like(handler'[q], handler[q])
  BY Zenon DEF Moves
<1> QED
  BY <1>1, <1>2, <1>3, BaseParts, QueuedAppend

LEMMA FirstLabel ==
    ASSUME NEW s \in Seq(Label), NEW label, 1 \in DOMAIN s, s[1] = label
    PROVE  s # <<>> /\ Head(s) = label
<1>1. s # <<>>
  BY EmptySeq
<1> QED
  BY <1>1, TailPlaces, Zenon

LEMMA HeadOne == \A a : <<a>> # <<>> /\ Head(<<a>>) = a
  OBVIOUS
LEMMA HeadTwo == \A a, b : <<a, b>> # <<>> /\ Head(<<a, b>>) = a
  OBVIOUS
LEMMA OneAndOne == 1 + 1 = 2 /\ \A n \in Nat : 2 \in 1 .. n => 1 \in 1 .. n - 1
  OBVIOUS

\* After "clear metadata" comes "wait".
LEMMA ThenWaits ==
    ASSUME Handlers, NEW p \in Proc, At(p, "clear metadata"), handler'[p].todo = Rest(p)
    PROVE  At(p, "wait")'
<1>1. 1 \in DOMAIN Todo(p) /\ Todo(p)[1] = "clear metadata" /\ Todo(p) # <<>>
  BY AtPlace, AtHead, Zenon
<1>2. 2 \in DOMAIN Todo(p) /\ Todo(p)[2] = "wait"
  <2>1. After(Todo(p), 1, 1, "wait") /\ 1 + 1 = 2
    BY <1>1, OneAndOne, HandlerTodo, Zenon DEF Formed, Rules
  <2> QED
    BY <2>1, Zenon DEF After
<1>3. Todo(p) \in Seq(Label) /\ Rest(p) = Tail(Todo(p))
  BY HandlerTodo DEF Rest, Todo
<1>4. /\ Len(Todo(p)) \in Nat /\ DOMAIN Todo(p) = 1 .. Len(Todo(p)) /\ Rest(p) \in Seq(Label)
      /\ DOMAIN Rest(p) = 1 .. Len(Todo(p)) - 1
      /\ \A i \in 1 .. Len(Todo(p)) - 1 : Rest(p)[i] = Todo(p)[i + 1]
  BY <1>1, <1>3, TailPlaces, Zenon
<1>5. 1 \in DOMAIN Rest(p) /\ Rest(p)[1] = "wait"
  <2>1. 1 \in 1 .. Len(Todo(p)) - 1 /\ 1 + 1 = 2
    BY <1>2, <1>4, OneAndOne, Zenon
  <2> QED
    BY <1>2, <1>4, <2>1, Zenon
<1>6. Rest(p) # <<>> /\ Head(Rest(p)) = "wait"
  BY <1>4, <1>5, FirstLabel
<1> QED
  BY <1>6, Zenon DEF At

LEMMA WaitFirst ==
    ASSUME NEW p, handler'[p].todo = <<"wait">> \/ handler'[p].todo = <<"wait", "read stored">>
    PROVE  At(p, "wait")'
<1>1. handler'[p].todo # <<>> /\ Head(handler'[p].todo) = "wait"
  BY HeadOne, HeadTwo, Zenon
<1> QED
  BY <1>1, Zenon DEF At

LEMMA BaseClearMetadataNow ==
    ASSUME Base, NEW p \in Proc, ClearMetadataNow(p)
    PROVE  Base'
<1>0. /\ At(p, "clear metadata") /\ Enqueue(p, "clear", None) /\ metadata' = None /\ stored' = stored
      /\ UNCHANGED <<tokenVars, modeVars, lockVars, serverVars>>
  BY DEF ClearMetadataNow, Clears
<1>1. Moves(p) /\ Kept(p) /\ handler'[p].todo = Rest(p)
  BY BaseParts, ClearMetadataNowMoves, Zenon
<1>2. ~At(p, "serve") /\ ~At(p, "login") /\ ~At(p, "wait")
  BY <1>0, NotAt, Zenon
<1>3. Tasks'
  <2>1. UNCHANGED <<vault, logins>>
    BY <1>0 DEF serverVars, tokenVars
  <2> QED
    BY <1>1, <1>2, <2>1, BaseParts, TasksKept
<1>4. Queued'
  <2>1. At(p, "wait")'
    BY <1>0, <1>1, BaseParts, ThenWaits
  <2>2. None \in Maybe(Record)
    BY DEF Maybe
  <2> QED
    BY <1>0, <1>1, <1>2, <2>1, <2>2, AsksQueued
<1>5. Values'
  <2>1. UNCHANGED tokenVars /\ UNCHANGED modeVars /\ UNCHANGED lockVars /\ UNCHANGED serverVars
    BY <1>0
  <2>2. CacheTypes'
    BY <1>0, BaseParts DEF CacheTypes, Maybe
  <2> QED
    BY <2>1, <2>2, BaseParts, TokenSame, ModeSame, LockSame, ServerSame, Zenon DEF Values
<1> QED
  BY <1>3, <1>4, <1>5 DEF Base

LEMMA BaseLookUp ==
    ASSUME Base, NEW p \in Proc, LookUp(p)
    PROVE  Base'
<1>0. /\ At(p, "look up")
      /\ UNCHANGED <<tokenVars, modeVars, lockVars, metadata, stored, serverVars>>
  BY DEF LookUp
<1>1. /\ Moves(p)
      /\ \/ Kept(p) /\ UNCHANGED queue
         \/ /\ Enqueue(p, "read", None) /\ handler'[p].todo = <<"wait", "read stored">>
            /\ Fine(handler'[p].todo)
            /\ \/ handler'[p] = IdleHandler
               \/ handler'[p].token = handler[p].token /\ handler'[p].version = handler[p].version
  BY BaseParts, LookUpMoves, Zenon
<1>2. ~At(p, "serve") /\ ~At(p, "login") /\ ~At(p, "wait")
  BY <1>0, NotAt, Zenon
<1>3. UNCHANGED <<vault, logins>> /\ Values'
  BY <1>0, ValuesSame DEF serverVars, tokenVars
<1>4. CASE Kept(p) /\ UNCHANGED queue
  BY <1>1, <1>2, <1>3, <1>4, BaseKept DEF Base
<1>5. CASE /\ Enqueue(p, "read", None) /\ handler'[p].todo = <<"wait", "read stored">>
           /\ Fine(handler'[p].todo)
           /\ \/ handler'[p] = IdleHandler
              \/ handler'[p].token = handler[p].token /\ handler'[p].version = handler[p].version
  <2>1. At(p, "wait")'
    BY <1>5, WaitFirst, Zenon
  <2>2. None \in Maybe(Record)
    BY DEF Maybe
  <2>3. Queued'
    BY <1>1, <1>2, <1>5, <2>1, <2>2, AsksQueued
  <2>4. Tasks'
    <3>1. VersionKnown(p)'
      <4>1. VersionKnown(p) /\ vault' = vault
        BY <1>3, Zenon DEF Base, Tasks
      <4> QED
        BY <1>5, <4>1, IdleIsHandler, Zenon DEF VersionKnown
    <3>2. HasToken(p)'
      BY <1>1, <1>2, <1>5, BaseParts, MovesHasToken, Zenon DEF Fine
    <3>3. vault' \in Nat /\ vault <= vault' /\ logins' = logins
      BY <1>3, BaseParts
    <3> QED
      BY <1>1, <1>2, <3>1, <3>2, <3>3, BaseParts, TasksMoves
  <2> QED
    BY <1>3, <2>3, <2>4 DEF Base
<1> QED
  BY <1>1, <1>4, <1>5

LEMMA BaseReadStored ==
    ASSUME Base, NEW p \in Proc, ReadStored(p)
    PROVE  Base'
<1>0. /\ At(p, "read stored") /\ metadata' \in {metadata, stored}
      /\ UNCHANGED <<tokenVars, modeVars, lockVars, stored, queue, serverVars>>
  BY DEF ReadStored
<1>1. Moves(p) /\ Kept(p)
  BY BaseParts, ReadStoredMoves
<1>2. ~At(p, "serve") /\ ~At(p, "login") /\ ~At(p, "wait")
  BY <1>0, NotAt, Zenon
<1>3. UNCHANGED <<vault, logins, queue>>
  BY <1>0 DEF serverVars, tokenVars
<1>4. Tasks' /\ Queued'
  BY <1>1, <1>2, <1>3, BaseKept, Zenon
<1>5. Values'
  <2>1. UNCHANGED tokenVars /\ UNCHANGED modeVars /\ UNCHANGED lockVars /\ UNCHANGED serverVars
    BY <1>0
  <2>2. CacheTypes'
    BY <1>0, BaseParts DEF CacheTypes
  <2> QED
    BY <2>1, <2>2, BaseParts, TokenSame, ModeSame, LockSame, ServerSame, Zenon DEF Values
<1> QED
  BY <1>4, <1>5 DEF Base

LEMMA BaseServe ==
    ASSUME Base, NEW p \in Proc, Serve(p)
    PROVE  Base'
<1>0. At(p, "serve") /\ UNCHANGED <<tokenVars, modeVars, lockVars, cacheVars, serverVars>>
  BY DEF Serve
<1>1. /\ Moves(p)
      /\ \/ handler'[p] = IdleHandler
         \/ handler'[p].token = handler[p].token /\ handler'[p].version = vault
  BY BaseParts, ServeMoves
<1>2. ~At(p, "login") /\ ~At(p, "wait")
  BY <1>0, NotAt, Zenon
<1>3. /\ UNCHANGED <<vault, logins, queue>>
      /\ UNCHANGED <<tokenVars, modeVars, lockVars, metadata, stored, serverVars>>
  BY <1>0 DEF serverVars, tokenVars, cacheVars
<1>4. Tasks' /\ Queued'
  <2>1. vault \in 0 .. vault /\ vault # None /\ vault' \in Nat /\ vault <= vault'
    BY <1>3, BaseParts, ConstantAssumption
  <2>2. VersionKnown(p)'
    BY <1>1, <1>3, <2>1, IdleIsHandler, Zenon DEF VersionKnown
  <2>3. HasToken(p)'
    BY <1>1, <1>2, <1>3, BaseParts, MovesHasToken, Zenon DEF Kept
  <2>4. handler'[p] = IdleHandler \/ handler'[p].version # None
    BY <1>1, <2>1
  <2>5. Tasks'
    BY <1>1, <1>3, <2>1, <2>2, <2>3, <2>4, BaseParts, TasksMoves
  <2>6. \A q \in Proc \ {p} : Like(handler'[q], handler[q])
    BY <1>1, Zenon DEF Moves
  <2> QED
    BY <1>2, <1>3, <2>5, <2>6, BaseParts, QueuedMoves
<1> QED
  BY <1>3, <1>4, ValuesSame DEF Base

LEMMA BaseReceive ==
    ASSUME Base, NEW p \in Proc, Receive(p)
    PROVE  Base'
<1> DEFINE record == [token |-> token, version |-> handler[p].version]
<1>0. /\ At(p, "receive")
      /\ UNCHANGED <<tokenVars, modeVars, lockVars, stored, serverVars>>
      /\ \/ /\ Current(p) /\ metadata' = record /\ Enqueue(p, "write", record)
            /\ Goes(p, <<"wait">>)
         \/ UNCHANGED <<metadata, queue>>
  BY DEF Receive
<1>1. Moves(p) /\ Kept(p)
  BY BaseParts, ReceiveMoves
<1>2. ~At(p, "serve") /\ ~At(p, "login") /\ ~At(p, "wait")
  BY <1>0, NotAt, Zenon
<1>3. UNCHANGED <<vault, logins>>
  BY <1>0 DEF serverVars, tokenVars
<1>4. Tasks'
  BY <1>1, <1>2, <1>3, BaseParts, TasksKept
<1>5. CASE UNCHANGED <<metadata, queue>>
  <2>1. Queued'
    BY <1>1, <1>2, <1>3, <1>5, BaseKept
  <2>2. Values'
    BY <1>0, <1>5, ValuesSame
  <2> QED
    BY <1>4, <2>1, <2>2 DEF Base
<1>6. CASE /\ Current(p) /\ metadata' = record /\ Enqueue(p, "write", record)
           /\ Goes(p, <<"wait">>)
  <2>1. record \in Record
    <3>1. token \in Token
      BY <1>6, BaseParts DEF TokenTypes, Current, Maybe
    <3>2. handler[p].version \in 0 .. vault
      BY <1>0, Zenon DEF Base, Tasks, HasVersion, VersionKnown
    <3>3. handler[p].version \in Version
      <4>1. vault \in 0 .. MaxVersion /\ MaxVersion \in Nat
        BY BaseParts, ConstantAssumption DEF ServerTypes, Version
      <4> QED
        BY <3>2, <4>1 DEF Version
    <3> QED
      BY <3>1, <3>3 DEF Record
  <2> HIDE DEF record
  <2>2. handler'[p].todo = <<"wait">>
    <3>1. At(p, "receive") => Todo(p) # <<>>
      BY AtHead, Zenon
    <3> QED
      BY <1>0, <1>6, <3>1, BaseParts, FineWait, GoesMoves
  <2>3. At(p, "wait")'
    BY <2>2, WaitFirst, Zenon
  <2>4. Queued'
    <3>1. record \in Maybe(Record)
      BY <2>1 DEF Maybe
    <3> QED
      BY <1>1, <1>2, <1>6, <2>1, <2>3, <3>1, AsksQueued
  <2>5. CacheTypes'
    BY <1>0, <1>6, <2>1, BaseParts DEF CacheTypes, Maybe
  <2>6. Values'
    <3>1. UNCHANGED tokenVars /\ UNCHANGED modeVars /\ UNCHANGED lockVars /\ UNCHANGED serverVars
      BY <1>0
    <3> QED
      BY <2>5, <3>1, BaseParts, TokenSame, ModeSame, LockSame, ServerSame, Zenon DEF Values
  <2> QED
    BY <1>4, <2>4, <2>6 DEF Base
<1> QED
  BY <1>0, <1>5, <1>6

LEMMA BaseApply ==
    ASSUME Base, NEW p \in Proc, Apply(p)
    PROVE  Base'
<1>0. At(p, "apply") /\ UNCHANGED <<tokenVars, modeVars, lockVars, cacheVars, own>>
  BY DEF Apply
<1>1. /\ Moves(p)
      /\ \/ Kept(p) /\ UNCHANGED vault
         \/ /\ vault < MaxVersion /\ vault' = vault + 1
            /\ handler'[p].token = handler[p].token /\ handler'[p].version = vault'
         \/ handler'[p] = IdleHandler /\ vault < MaxVersion /\ vault' = vault + 1
  BY BaseParts, ApplyMoves, Zenon
<1>2. ~At(p, "serve") /\ ~At(p, "login") /\ ~At(p, "wait")
  BY <1>0, NotAt, Zenon
<1>3. UNCHANGED <<logins, queue, own>> /\ UNCHANGED <<metadata, stored>>
  BY <1>0 DEF tokenVars, cacheVars
<1>4. vault \in Version /\ own \in 0 .. vault /\ MaxVersion \in Nat
  BY BaseParts, ConstantAssumption DEF ServerTypes
<1>5. vault' \in Version /\ own' \in 0 .. vault' /\ vault' \in Nat /\ vault <= vault' /\ vault' \in 0 .. vault'
  <2>1. vault' = vault \/ (vault < MaxVersion /\ vault' = vault + 1)
    BY <1>1, Zenon
  <2> QED
    BY <2>1, <1>3, <1>4 DEF Version
<1>6. VersionKnown(p)'
  <2>1. CASE Kept(p) /\ UNCHANGED vault
    <3>1. VersionKnown(p)
      BY Zenon DEF Base, Tasks
    <3> QED
      BY <2>1, <3>1, IdleIsHandler, Zenon DEF VersionKnown, Kept
  <2>2. CASE handler'[p].version = vault'
    BY <1>5, <2>2, Zenon DEF VersionKnown
  <2>3. CASE handler'[p] = IdleHandler
    BY <2>3, IdleIsHandler, Zenon DEF VersionKnown
  <2> QED
    BY <1>1, <2>1, <2>2, <2>3, Zenon
<1>7. HasToken(p)'
  BY <1>1, <1>2, <1>3, BaseParts, MovesHasToken, Zenon DEF Kept
<1>8. Tasks'
  BY <1>1, <1>2, <1>3, <1>5, <1>6, <1>7, BaseParts, TasksMoves
<1>9. Queued'
  <2>1. \A q \in Proc \ {p} : Like(handler'[q], handler[q])
    BY <1>1, Zenon DEF Moves
  <2> QED
    BY <1>2, <1>3, <2>1, BaseParts, QueuedMoves
<1>10. Values'
  <2>1. UNCHANGED tokenVars /\ UNCHANGED modeVars /\ UNCHANGED lockVars
    BY <1>0
  <2>2. ServerTypes'
    BY <1>5, Zenon DEF ServerTypes
  <2> QED
    BY <1>3, <2>1, <2>2, BaseParts, TokenSame, ModeSame, LockSame, CacheSame, Zenon DEF Values
<1> QED
  BY <1>8, <1>9, <1>10 DEF Base

LEMMA BaseAnswered ==
    ASSUME Base, NEW p \in Proc, Answered(p)
    PROVE  Base'
<1>0. At(p, "answer") /\ UNCHANGED <<tokenVars, modeVars, lockVars, cacheVars, serverVars>>
  BY DEF Answered
<1>1. /\ Moves(p)
      /\ \/ Kept(p)
         \/ handler'[p].token = handler[p].token /\ handler'[p].version = None
  BY BaseParts, AnsweredMoves, Zenon
<1>2. ~At(p, "serve") /\ ~At(p, "login") /\ ~At(p, "wait")
  BY <1>0, NotAt, Zenon
<1>3. /\ UNCHANGED <<vault, logins, queue>>
      /\ UNCHANGED <<tokenVars, modeVars, lockVars, metadata, stored, serverVars>>
  BY <1>0 DEF serverVars, tokenVars, cacheVars
<1>4. CASE Kept(p)
  BY <1>1, <1>2, <1>3, <1>4, BaseKept, ValuesSame DEF Base
<1>5. CASE handler'[p].token = handler[p].token /\ handler'[p].version = None
  <2>1. vault' \in Nat /\ vault <= vault' /\ None \in Maybe(0 .. vault')
    BY <1>3, BaseParts DEF Maybe
  <2>2. Tasks' /\ Queued'
    BY <1>1, <1>2, <1>3, <1>5, <2>1, BaseHears
  <2> QED
    BY <1>3, <2>2, ValuesSame DEF Base
<1> QED
  BY <1>1, <1>4, <1>5

LEMMA BaseMutated ==
    ASSUME Base, NEW p \in Proc, Mutated(p)
    PROVE  Base'
<1>0. /\ At(p, "mutated") /\ UNCHANGED <<tokenVars, modeVars, lockVars, cacheVars, vault>>
      /\ own' \in {own, handler[p].version} /\ (own' # own => handler[p].version # None)
  BY DEF Mutated
<1>1. Moves(p) /\ Kept(p)
  BY BaseParts, LockMoves, Zenon
<1>2. ~At(p, "serve") /\ ~At(p, "login") /\ ~At(p, "wait")
  BY <1>0, NotAt, Zenon
<1>3. UNCHANGED <<vault, logins, queue>> /\ UNCHANGED <<metadata, stored>>
  BY <1>0 DEF tokenVars, cacheVars
<1>4. Tasks' /\ Queued'
  BY <1>1, <1>2, <1>3, BaseKept, Zenon
<1>5. Values'
  <2>1. UNCHANGED tokenVars /\ UNCHANGED modeVars /\ UNCHANGED lockVars
    BY <1>0
  <2>2. ServerTypes'
    <3>1. VersionKnown(p) /\ ServerTypes
      BY BaseParts, Zenon DEF Tasks
    <3> QED
      BY <1>0, <3>1, Zenon DEF VersionKnown, ServerTypes
  <2> QED
    BY <1>3, <2>1, <2>2, BaseParts, TokenSame, ModeSame, LockSame, CacheSame, Zenon DEF Values
<1> QED
  BY <1>4, <1>5 DEF Base

(***************************************************************************)
(* The user, the browser and the world                                     *)
(***************************************************************************)
\* A handler begins.
LEMMA BaseBegins ==
    ASSUME Base, NEW p \in Proc, Begins(p), UNCHANGED <<vault, logins, queue>>,
           handler'[p].kind # "login"
    PROVE  Tasks' /\ Queued'
<1>1. Tasks'
  BY BaseParts, TasksBegins
<1>2. ~At(p, "wait")
  BY BaseParts, Zenon DEF Begins, Handlers, At, Todo
<1>3. Queued'
  <2>1. \A q \in Proc \ {p} : Like(handler'[q], handler[q])
    BY Zenon DEF Begins
  <2> QED
    BY <1>2, <2>1, BaseParts, QueuedMoves
<1> QED
  BY <1>1, <1>3

LEMMA BaseMessages ==
    ASSUME Base, NEW p \in Proc, Messages(p)
    PROVE  Base'
<1>1. UNCHANGED <<tokenVars, modeVars, lockVars, cacheVars, serverVars>>
  BY DEF Messages
<1>2. /\ UNCHANGED <<vault, logins, queue>>
      /\ UNCHANGED <<tokenVars, modeVars, lockVars, metadata, stored, serverVars>>
  BY <1>1 DEF serverVars, tokenVars, cacheVars
<1> QED
  BY <1>2, BaseParts, MessagesBegin, BaseBegins, ValuesSame DEF Base

LEMMA BaseStartLogin ==
    ASSUME Base, NEW p \in Proc, StartLogin(p)
    PROVE  Base'
<1>1. UNCHANGED <<tokenVars, modeVars, lockVars, cacheVars, serverVars>>
  BY DEF StartLogin
<1>2. UNCHANGED queue /\ UNCHANGED <<tokenVars, modeVars, lockVars, metadata, stored, serverVars>>
  BY <1>1 DEF cacheVars
<1>3. Tasks' /\ Begins(p)
  BY BaseParts, TasksLogin, LoginBegins
<1>4. Queued'
  <2>1. ~At(p, "wait") /\ \A q \in Proc \ {p} : Like(handler'[q], handler[q])
    BY <1>3, BaseParts, Zenon DEF Begins, Handlers, At, Todo
  <2> QED
    BY <1>2, <2>1, BaseParts, QueuedMoves
<1> QED
  BY <1>2, <1>3, <1>4, ValuesSame DEF Base

LEMMA BaseLockBegins ==
    ASSUME Base, NEW p \in Proc, ModeChanged(p) \/ AlarmFires(p)
    PROVE  Base'
<1>0. /\ cachedMode' \in {cachedMode, mode} /\ modeEvent' \in {modeEvent, FALSE} /\ alarm' \in {alarm, None}
      /\ UNCHANGED <<tokenVars, mode, deadline, wiped, cacheVars, serverVars>>
  BY DEF ModeChanged, AlarmFires, lockVars, modeVars
<1>1. UNCHANGED <<vault, logins, queue>> /\ UNCHANGED <<metadata, stored>>
  BY <1>0 DEF serverVars, tokenVars, cacheVars
<1>2. Tasks' /\ Queued'
  BY <1>1, BaseParts, LocksBegin, BaseBegins
<1>3. Values'
  <2>1. ModeTypes' /\ LockTypes'
    BY <1>0, BaseParts DEF ModeTypes, LockTypes, Maybe
  <2>2. UNCHANGED tokenVars /\ UNCHANGED serverVars
    BY <1>0
  <2> QED
    BY <1>1, <2>1, <2>2, BaseParts, TokenSame, CacheSame, ServerSame, Zenon DEF Values
<1> QED
  BY <1>2, <1>3 DEF Base

LEMMA BaseChangeMode ==
    ASSUME Base, NEW m \in Mode, ChangeMode(m)
    PROVE  Base'
<1>0. /\ mode' = m /\ modeEvent' = TRUE
      /\ UNCHANGED <<tokenVars, cachedMode, lockVars, cacheVars, handler, serverVars>>
  BY DEF ChangeMode
<1>1. UNCHANGED <<handler, vault, logins, queue>> /\ UNCHANGED <<metadata, stored>>
  BY <1>0 DEF serverVars, tokenVars, cacheVars
<1>2. \A q \in Proc : Like(handler'[q], handler[q])
  BY <1>1 DEF Like
<1>3. Handlers'
  BY <1>1, BaseParts, Zenon DEF Handlers, Todo, Idle
<1>4. Tasks'
  <2>1. vault' \in Nat /\ vault <= vault'
    BY <1>1, BaseParts
  <2> QED
    BY <1>1, <1>2, <1>3, <2>1, BaseParts, TasksLike
<1>5. Queued'
  <2>1. \A i \in DOMAIN queue : At(queue[i].by, "wait") => At(queue[i].by, "wait")'
    BY <1>1, Zenon DEF At
  <2> QED
    BY <1>1, <2>1, BaseParts, QueuedSame
<1>6. Values'
  <2>1. ModeTypes'
    BY <1>0, BaseParts DEF ModeTypes
  <2>2. UNCHANGED tokenVars /\ UNCHANGED lockVars /\ UNCHANGED serverVars
    BY <1>0
  <2> QED
    BY <1>1, <2>1, <2>2, BaseParts, TokenSame, LockSame, CacheSame, ServerSame, Zenon DEF Values
<1> QED
  BY <1>4, <1>5, <1>6 DEF Base

LEMMA BaseTokenReplaced ==
    ASSUME Base, NEW p \in Proc, NEW t \in Token, TokenReplaced(p, t)
    PROVE  Base'
<1>0. /\ replaced' \subseteq replaced /\ token' \in {token, None}
      /\ UNCHANGED <<logins, clearing, saved, locked, modeVars, lockVars, cacheVars, serverVars>>
  BY DEF TokenReplaced
<1>1. UNCHANGED <<vault, logins, queue>> /\ UNCHANGED <<metadata, stored>>
  BY <1>0 DEF serverVars, cacheVars
<1>2. Tasks' /\ Queued'
  BY <1>1, BaseParts, ReplacedBegins, BaseBegins
<1>3. Values'
  <2>1. TokenTypes'
    BY <1>0, BaseParts DEF TokenTypes, Maybe
  <2>2. UNCHANGED modeVars /\ UNCHANGED lockVars /\ UNCHANGED serverVars
    BY <1>0
  <2> QED
    BY <1>1, <2>1, <2>2, BaseParts, ModeSame, LockSame, CacheSame, ServerSame, Zenon DEF Values
<1> QED
  BY <1>2, <1>3 DEF Base

LEMMA BaseElapse ==
    ASSUME Base, Elapse
    PROVE  Base'
<1>0. UNCHANGED <<tokenVars, modeVars, wiped, cacheVars, serverVars>>
  BY DEF Elapse
<1>1. UNCHANGED <<vault, logins, queue>> /\ UNCHANGED <<metadata, stored>>
  BY <1>0 DEF serverVars, tokenVars, cacheVars
<1>2. /\ Handlers' /\ deadline' \in {deadline, "passed"} /\ alarm' \in {alarm, "passed"}
      /\ \A q \in Proc : Like(handler'[q], handler[q])
  BY BaseParts, ElapseLike
<1>3. Tasks'
  <2>1. vault' \in Nat /\ vault <= vault'
    BY <1>1, BaseParts
  <2> QED
    BY <1>1, <1>2, <2>1, BaseParts, TasksLike
<1>4. Queued'
  <2>1. \A i \in DOMAIN queue : At(queue[i].by, "wait") => At(queue[i].by, "wait")'
    <3>1. \A q \in Proc : At(q, "wait") => At(q, "wait")'
      BY <1>2, Zenon DEF Like, At
    <3> QED
      BY <1>1, <3>1, BaseParts, QueuePlaces, Zenon
  <2> QED
    BY <1>1, <2>1, BaseParts, QueuedSame
<1>5. Values'
  <2>1. LockTypes'
    BY <1>0, <1>2, BaseParts DEF LockTypes, Maybe, Time
  <2>2. UNCHANGED tokenVars /\ UNCHANGED modeVars /\ UNCHANGED serverVars
    BY <1>0
  <2> QED
    BY <1>1, <2>1, <2>2, BaseParts, TokenSame, ModeSame, CacheSame, ServerSame, Zenon DEF Values
<1> QED
  BY <1>3, <1>4, <1>5 DEF Base

LEMMA BaseRestart ==
    ASSUME Base, NEW p \in Proc, Restart(p)
    PROVE  Base'
<1>0. /\ token' = None /\ clearing' = FALSE /\ cachedMode' = None
      /\ metadata' = None /\ queue' = <<>> /\ stored' \in {stored, None} /\ alarm' \in {alarm, None}
      /\ saved' \in {saved, [saved EXCEPT !["session"] = None]} /\ replaced' \subseteq replaced
      /\ UNCHANGED <<logins, locked, mode, modeEvent, deadline, wiped, serverVars>>
  BY DEF Restart
<1>1. Tasks'
  BY BaseParts, TasksRestart
<1>2. Queued'
  <2>1. <<>> \in Seq(Operation) /\ DOMAIN <<>> = {}
    OBVIOUS
  <2> QED
    BY <1>0, <2>1, Zenon DEF Queued
<1>3. TokenTypes'
  BY <1>0, BaseParts DEF TokenTypes, Maybe, Area
<1>4. ModeTypes' /\ LockTypes' /\ CacheTypes'
  BY <1>0, BaseParts DEF ModeTypes, LockTypes, CacheTypes, Maybe
<1>5. ServerTypes'
  BY <1>0, BaseParts, ServerSame
<1> QED
  BY <1>1, <1>2, <1>3, <1>4, <1>5 DEF Base, Values

LEMMA BaseOutsideChange ==
    ASSUME Base, OutsideChange
    PROVE  Base'
<1>0. /\ vault < MaxVersion /\ vault' = vault + 1
      /\ UNCHANGED <<tokenVars, modeVars, lockVars, cacheVars, handler, own>>
  BY DEF OutsideChange
<1>1. UNCHANGED <<handler, logins, queue>> /\ UNCHANGED <<metadata, stored>>
  BY <1>0 DEF tokenVars, cacheVars
<1>2. vault \in Version /\ own \in 0 .. vault /\ MaxVersion \in Nat
  BY BaseParts, ConstantAssumption DEF ServerTypes
<1>3. vault' \in Version /\ own' \in 0 .. vault' /\ vault' \in Nat /\ vault <= vault'
  BY <1>0, <1>2 DEF Version
<1>4. \A q \in Proc : Like(handler'[q], handler[q])
  BY <1>1 DEF Like
<1>5. Handlers'
  BY <1>1, BaseParts, Zenon DEF Handlers, Todo, Idle
<1>6. Tasks'
  BY <1>1, <1>3, <1>4, <1>5, BaseParts, TasksLike
<1>7. Queued'
  <2>1. \A i \in DOMAIN queue : At(queue[i].by, "wait") => At(queue[i].by, "wait")'
    BY <1>1, Zenon DEF At
  <2> QED
    BY <1>1, <2>1, BaseParts, QueuedSame
<1>8. Values'
  <2>1. UNCHANGED tokenVars /\ UNCHANGED modeVars /\ UNCHANGED lockVars
    BY <1>0
  <2>2. ServerTypes'
    BY <1>3, Zenon DEF ServerTypes
  <2> QED
    BY <1>1, <2>1, <2>2, BaseParts, TokenSame, ModeSame, LockSame, CacheSame, Zenon DEF Values
<1> QED
  BY <1>6, <1>7, <1>8 DEF Base

LEMMA HeadOperation ==
    ASSUME Queued, queue # <<>>
    PROVE  /\ Head(queue) = queue[1] /\ 1 \in DOMAIN queue /\ Head(queue) \in Operation
           /\ Head(queue).kind = "write" => Head(queue).record \in Record
<1>1. queue \in Seq(Operation)
  BY Zenon DEF Queued
<1>2. Head(queue) = queue[1] /\ 1 \in DOMAIN queue
  BY <1>1, QueueTailPlaces
<1>3. queue[1] \in Operation
  BY <1>1, <1>2
<1> QED
  BY <1>2, <1>3, Zenon DEF Queued

LEMMA QueueSteps ==
    ASSUME QueueWorks
    PROVE  /\ queue # <<>> /\ UNCHANGED <<tokenVars, modeVars, lockVars, metadata, handler, serverVars>>
           /\ \/ Head(queue).kind = "clear" /\ stored' = None /\ queue' = Tail(queue)
              \/ Head(queue).kind = "read" /\ stored' = stored /\ queue' = Tail(queue)
              \/ /\ Head(queue).kind = "write" /\ ~Head(queue).begun /\ stored' = stored
                 /\ \/ Current(Head(queue).by) /\ queue' = [queue EXCEPT ![1].begun = TRUE]
                    \/ queue' = Tail(queue)
              \/ /\ Head(queue).kind = "write" /\ Head(queue).begun
                 /\ stored' \in {stored, Head(queue).record} /\ queue' = Tail(queue)
  BY DEF QueueWorks

LEMMA BaseQueueWorks ==
    ASSUME Base, QueueWorks
    PROVE  Base'
<1>0. /\ queue # <<>> /\ UNCHANGED <<tokenVars, modeVars, lockVars, metadata, handler, serverVars>>
      /\ \/ queue' = Tail(queue)
         \/ Head(queue).kind = "write" /\ queue' = [queue EXCEPT ![1].begun = TRUE]
      /\ \/ stored' \in {stored, None}
         \/ Head(queue).kind = "write" /\ stored' = Head(queue).record
  BY QueueSteps
<1>1. UNCHANGED <<handler, vault, logins>>
  BY <1>0 DEF serverVars, tokenVars
<1>2. Queued'
  BY <1>0, BaseParts, QueuedTail, QueuedBegins
<1>3. \A q \in Proc : Like(handler'[q], handler[q])
  BY <1>1 DEF Like
<1>4. Handlers'
  BY <1>1, BaseParts, Zenon DEF Handlers, Todo, Idle
<1>5. Tasks'
  <2>1. vault' \in Nat /\ vault <= vault'
    BY <1>1, BaseParts
  <2> QED
    BY <1>1, <1>3, <1>4, <2>1, BaseParts, TasksLike
<1>6. Values'
  <2>1. UNCHANGED tokenVars /\ UNCHANGED modeVars /\ UNCHANGED lockVars /\ UNCHANGED serverVars
    BY <1>0
  <2>2. CacheTypes'
    BY <1>0, BaseParts, HeadOperation DEF CacheTypes, Maybe
  <2> QED
    BY <2>1, <2>2, BaseParts, TokenSame, ModeSame, LockSame, ServerSame, Zenon DEF Values
<1> QED
  BY <1>2, <1>5, <1>6 DEF Base

LEMMA BaseStep ==
    ASSUME Base, NEW p \in Proc, Step(p)
    PROVE  Base'
  BY BaseGetMode, BaseLoadBegins, BaseReadSaved, BaseReadDeadline, BaseToken, BaseDeadline, BaseLocks,
     BaseGoesOn, BaseSent, BaseLoginAnswered, BaseClearMetadataNow, BaseLookUp, BaseReadStored, BaseServe,
     BaseReceive, BaseApply, BaseAnswered, BaseMutated, Zenon DEF Step

LEMMA BaseStutters ==
    ASSUME Base, UNCHANGED vars
    PROVE  Base'
<1>1. /\ UNCHANGED <<tokenVars, modeVars, lockVars, metadata, stored, serverVars>>
      /\ UNCHANGED <<handler, queue, vault, logins>>
  BY DEF vars, cacheVars, tokenVars, serverVars
<1>2. Handlers' /\ \A q \in Proc : Like(handler'[q], handler[q])
  BY <1>1, BaseParts, Zenon DEF Handlers, Todo, Idle, Like
<1>3. Tasks'
  <2>1. vault' \in Nat /\ vault <= vault'
    BY <1>1, BaseParts
  <2> QED
    BY <1>1, <1>2, <2>1, BaseParts, TasksLike
<1>4. Queued'
  <2>1. \A i \in DOMAIN queue : At(queue[i].by, "wait") => At(queue[i].by, "wait")'
    BY <1>1, Zenon DEF At
  <2> QED
    BY <1>1, <2>1, BaseParts, QueuedSame
<1> QED
  BY <1>1, <1>3, <1>4, ValuesSame DEF Base

LEMMA BaseNext ==
    ASSUME Base, [Next]_vars
    PROVE  Base'
  BY BaseStep, BaseQueueWorks, BaseElapse, BaseLockBegins, BaseTokenReplaced, BaseMessages, BaseStartLogin,
     BaseRestart, BaseChangeMode, BaseOutsideChange, BaseStutters, Zenon DEF Next, Work

LEMMA BaseInit == Init => Base
<1> SUFFICES ASSUME Init PROVE Base
  OBVIOUS
<1>1. Values
  <2>1. TokenTypes
    <3>1. MaxToken \in Nat /\ logins = 0
      BY ConstantAssumption DEF Init
    <3>2. logins \in 0 .. MaxToken
      BY <3>1
    <3>3. saved \in [Area -> Maybe(Token)]
      BY DEF Init, Maybe
    <3> QED
      BY <3>2, <3>3 DEF Init, TokenTypes, Maybe
  <2>2. mode \in Mode
    <3>1. scene \in [may : SUBSET Acts, acts : Nat, modes : SUBSET Mode] /\ mode \in scene.modes
      BY ConstantAssumption DEF Init
    <3> QED
      BY <3>1
  <2>3. ModeTypes /\ LockTypes /\ CacheTypes
    BY <2>2 DEF Init, ModeTypes, LockTypes, CacheTypes, Maybe
  <2>4. ServerTypes
    <3>1. MaxVersion \in Nat /\ vault = 0 /\ own = 0
      BY ConstantAssumption DEF Init
    <3> QED
      BY <3>1 DEF ServerTypes, Version
  <2> QED
    BY <2>1, <2>3, <2>4 DEF Values
<1>2. handler = [p \in Proc |-> IdleHandler] /\ queue = <<>>
  BY DEF Init
<1>3. \A p \in Proc : handler[p] = IdleHandler
  BY <1>2
<1>4. handler \in [Proc -> HandlerRecord]
  BY <1>2, IdleIsHandler
<1>5. Formed(<<>>)
  BY FineNothing, Zenon DEF Fine
<1>6. Handlers
  BY <1>3, <1>4, <1>5, IdleIsHandler, Zenon DEF Handlers, Todo, Idle
<1>7. OneLogin
  <2>1. None # "login"
    BY ConstantAssumption, KindNames
  <2>2. \A q \in Proc : handler[q].kind # "login"
    BY <1>3, <2>1, IdleIsHandler, Zenon
  <2> QED
    BY <2>2 DEF OneLogin, LoggingIn
<1>8. Tasks
  BY <1>3, <1>6, <1>7, IdleIsHandler, EmptySeq, Zenon
     DEF Tasks, VersionKnown, LoadsAnew, HasVersion, HasToken, At, Todo
<1>9. Queued
  <2>1. <<>> \in Seq(Operation) /\ DOMAIN <<>> = {}
    OBVIOUS
  <2> QED
    BY <1>2, <2>1, Zenon DEF Queued
<1> QED
  BY <1>1, <1>8, <1>9 DEF Base

LEMMA BaseTypes == Base => TypeOK
<1> SUFFICES ASSUME Base PROVE TypeOK
  OBVIOUS
<1>1. ASSUME NEW p \in Proc
      PROVE  handler[p].fresh \subseteq Counter /\ (Idle(p) <=> handler[p].todo = <<>>)
  BY HandlerFields, Zenon DEF Base, Tasks, Handlers, Todo
<1>2. ASSUME NEW p \in Proc
      PROVE  Cardinality({i \in DOMAIN queue : queue[i].by = p}) <= (IF At(p, "wait") THEN 1 ELSE 0)
  <2> DEFINE S == {i \in DOMAIN queue : queue[i].by = p}
  <2>1. S # {} => At(p, "wait")
    BY Zenon DEF Base, Queued
  <2>2. CASE S = {}
    <3>1. Cardinality(S) = 0
      BY <2>2, FS_EmptySet
    <3> QED
      BY <3>1
  <2>3. CASE S # {}
    <3>1. PICK i \in DOMAIN queue : queue[i].by = p
      BY <2>3
    <3>2. \A j \in S : j = i
      BY <3>1, Zenon DEF Base, Queued
    <3>3. S = {i}
      BY <3>1, <3>2
    <3>4. Cardinality(S) = 1
      BY <3>3, FS_Singleton
    <3> QED
      BY <2>1, <2>3, <3>4
  <2> QED
    BY <2>2, <2>3
<1> QED
  BY <1>1, <1>2 DEF Base, Values, TokenTypes, ModeTypes, LockTypes, CacheTypes, ServerTypes, TypeOK

\* Every variable has its type in every state, and a handler waits for at most
\* one operation of the storage queue: a storage operation is awaited by the
\* handler that asked for it, and never outlives it.
THEOREM TypeCorrect == Spec => []TypeOK
<1>1. Spec => []Base
  BY BaseInit, BaseNext, PTL DEF Spec
<1> QED
  BY <1>1, BaseTypes, PTL

(***************************************************************************)
(* What a handler will do soon: a label at one of its next n places        *)
(***************************************************************************)
Soon(p, label, n) == \E i \in DOMAIN Todo(p) : i <= n /\ Todo(p)[i] = label

LEMMA Order ==
    /\ \A i, n, m \in Nat : i <= n /\ n <= m => i <= m /\ ~(i > m)
    /\ 1 \in Nat /\ 2 \in Nat /\ 3 \in Nat /\ 4 \in Nat /\ 6 \in Nat /\ 7 \in Nat /\ 8 \in Nat /\ 9 \in Nat
    /\ 2 + 1 = 3 /\ 3 + 1 = 4 /\ 4 + 1 = 5 /\ 6 + 1 = 7 /\ 8 + 1 = 9 /\ 9 + 1 = 10
    /\ 1 <= 3 /\ 1 <= 6 /\ 1 <= 8 /\ 1 <= 9 /\ 1 <= 2 /\ 2 <= 6 /\ 2 <= 7 /\ 3 <= 4 /\ 3 <= 8 /\ 4 <= 6 /\ 4 <= 8
    /\ 6 <= 8 /\ 6 <= 9 /\ 7 <= 9 /\ 8 <= 8 /\ 9 <= 9 /\ 3 <= 6 /\ 7 <= 7 /\ ~(10 <= 9)
  OBVIOUS

LEMMA PlaceIsNat ==
    ASSUME Handlers, NEW p \in Proc
    PROVE  \A i \in DOMAIN Todo(p) : i \in Nat /\ i >= 1
<1>1. Todo(p) \in Seq(Label)
  BY HandlerTodo
<1> QED
  BY <1>1

LEMMA Sooner ==
    ASSUME Handlers, NEW p \in Proc, NEW label, NEW n \in Nat, NEW m \in Nat, n <= m, Soon(p, label, n)
    PROVE  Soon(p, label, m)
  BY PlaceIsNat, Order, Zenon DEF Soon

LEMMA SoonerAfter ==
    ASSUME Handlers', NEW p \in Proc, NEW label, NEW n \in Nat, NEW m \in Nat, n <= m, Soon(p, label, n)'
    PROVE  Soon(p, label, m)'
<1>1. handler'[p].todo \in Seq(Label)
  BY HandlerFields DEF Handlers
<1>2. \A i \in DOMAIN handler'[p].todo : i \in Nat
  BY <1>1
<1> QED
  BY <1>2, Order, Zenon DEF Soon, Todo

LEMMA FirstIsSoon ==
    ASSUME Handlers, NEW p \in Proc, NEW label, At(p, label), NEW n \in Nat, 1 <= n
    PROVE  Soon(p, label, n)
<1>1. 1 \in DOMAIN Todo(p) /\ Todo(p)[1] = label
  BY AtPlace
<1> QED
  BY <1>1, Zenon DEF Soon

LEMMA LikeSoon ==
    ASSUME NEW q, Like(handler'[q], handler[q]), NEW label, NEW n
    PROVE  Soon(q, label, n)' <=> Soon(q, label, n)
<1>1. handler'[q].todo = handler[q].todo
  BY Zenon DEF Like
<1> QED
  BY <1>1, Zenon DEF Soon, Todo

LEMMA SoonMoves ==
    ASSUME Handlers, NEW p \in Proc, Moves(p), ~Free(handler'[p].todo), NEW n \in Nat, NEW label,
           Soon(p, label, n)'
    PROVE  Soon(p, label, n) \/ (n + 1 \in DOMAIN Todo(p) /\ Todo(p)[n + 1] = label)
<1>1. PICK i \in DOMAIN handler'[p].todo : i <= n /\ handler'[p].todo[i] = label
  BY Zenon DEF Soon, Todo
<1>2. i \in Nat /\ i + 1 \in DOMAIN Todo(p) /\ Todo(p)[i + 1] = label
  BY <1>1, MovesPlaces, Zenon
<1>3. i + 1 <= n \/ i + 1 = n + 1
  <2>1. i \in Nat /\ i <= n
    BY <1>1, <1>2, Zenon
  <2> QED
    BY <2>1
<1> QED
  BY <1>2, <1>3, Zenon DEF Soon

\* Label x comes n places before place n + 1: it is the first.
LEMMA NextIs ==
    ASSUME Handlers, NEW p \in Proc, NEW n \in Nat, NEW x, n + 1 \in DOMAIN Todo(p),
           Before(Todo(p), n + 1, n, x)
    PROVE  At(p, x)
<1>1. n + 1 \in Nat
  OBVIOUS
<1>2. Todo(p) # <<>>
  BY EmptySeq
<1> QED
  BY <1>1, <1>2, FirstBefore

LEMMA FreeNotSoon ==
    ASSUME Handlers', NEW p \in Proc, Calm(handler'[p].todo)
    PROVE  /\ \A n \in Nat : n <= 8 => ~Soon(p, "cleared", n)'
           /\ \A n \in Nat : n <= 7 => ~Soon(p, "mutated", n)'
<1>0. \A i \in DOMAIN handler'[p].todo : i \in Nat
  <2>1. handler'[p].todo \in Seq(Label)
    BY HandlerFields DEF Handlers
  <2> QED
    BY <2>1
<1>1. \A i \in DOMAIN handler'[p].todo : CalmAt(handler'[p].todo, i)
  BY Zenon DEF Calm
<1> QED
  BY <1>0, <1>1, Order, Zenon DEF CalmAt, Soon, Todo

LEMMA FreeIsCalm == \A todo : Free(todo) => Calm(todo)
  BY Zenon DEF Free, Calm

\* A lock that is under way after a step was before, or begins.
LEMMA ClearedMoves ==
    ASSUME Handlers, NEW p \in Proc, Moves(p)
    PROVE  /\ Soon(p, "cleared", 8)' => Soon(p, "cleared", 8) \/ At(p, "clear token")
           /\ Soon(p, "cleared", 6)' => Soon(p, "cleared", 6) \/ At(p, "clear metadata")
           /\ Soon(p, "cleared", 4)' => Soon(p, "cleared", 4) \/ At(p, "remove session")
           /\ Soon(p, "cleared", 3)' => Soon(p, "cleared", 3) \/ At(p, "remove local")
<1>0. Handlers'
  BY Zenon DEF Moves
<1>1. ASSUME NEW n \in Nat, n <= 8, Soon(p, "cleared", n)'
      PROVE  Soon(p, "cleared", n) \/ (n + 1 \in DOMAIN Todo(p) /\ EndsLock(Todo(p), n + 1))
  <2>1. ~Free(handler'[p].todo)
    BY <1>0, <1>1, FreeNotSoon, FreeIsCalm, Zenon
  <2>2. Soon(p, "cleared", n) \/ (n + 1 \in DOMAIN Todo(p) /\ Todo(p)[n + 1] = "cleared")
    BY <1>1, <2>1, SoonMoves
  <2> QED
    BY <2>2, HandlerTodo, Zenon DEF Formed, Rules
<1>2. \A n \in Nat : n <= 8 /\ Soon(p, "cleared", n)' =>
        Soon(p, "cleared", n) \/ (n + 1 \in DOMAIN Todo(p) /\ EndsLock(Todo(p), n + 1))
  BY <1>1
<1>3. ASSUME NEW n \in Nat, NEW x, n + 1 \in DOMAIN Todo(p), Before(Todo(p), n + 1, n, x) PROVE At(p, x)
  BY <1>3, NextIs
<1>4. Soon(p, "cleared", 8)' => Soon(p, "cleared", 8) \/ At(p, "clear token")
  BY <1>2, <1>3, Order, Zenon DEF EndsLock
<1>5. Soon(p, "cleared", 6)' => Soon(p, "cleared", 6) \/ At(p, "clear metadata")
  BY <1>2, <1>3, Order, Zenon DEF EndsLock
<1>6. Soon(p, "cleared", 4)' => Soon(p, "cleared", 4) \/ At(p, "remove session")
  BY <1>2, <1>3, Order, Zenon DEF EndsLock
<1>7. Soon(p, "cleared", 3)' => Soon(p, "cleared", 3) \/ At(p, "remove local")
  BY <1>2, <1>3, Order, Zenon DEF EndsLock
<1> QED
  BY <1>4, <1>5, <1>6, <1>7

LEMMA LoginMoves ==
    ASSUME Handlers, NEW p \in Proc, Moves(p)
    PROVE  /\ Soon(p, "use token", 9)' => Soon(p, "use token", 9)
           /\ Soon(p, "use token", 6)' => Soon(p, "use token", 6) \/ At(p, "login")
<1>1. ASSUME NEW n \in Nat, Soon(p, "use token", n)'
      PROVE  Soon(p, "use token", n) \/ (n + 1 \in DOMAIN Todo(p) /\ EndsLogin(Todo(p), n + 1))
  <2>1. ~Free(handler'[p].todo)
    BY <1>1, Zenon DEF Free, Soon, Todo
  <2>2. Soon(p, "use token", n) \/ (n + 1 \in DOMAIN Todo(p) /\ Todo(p)[n + 1] = "use token")
    BY <1>1, <2>1, SoonMoves
  <2> QED
    BY <2>2, HandlerTodo, Zenon DEF Formed, Rules
<1>2. \A n \in Nat : Soon(p, "use token", n)' =>
        Soon(p, "use token", n) \/ (n + 1 \in DOMAIN Todo(p) /\ EndsLogin(Todo(p), n + 1))
  BY <1>1
<1>3. ASSUME NEW n \in Nat, NEW x, n + 1 \in DOMAIN Todo(p), Before(Todo(p), n + 1, n, x) PROVE At(p, x)
  BY <1>3, NextIs
<1>4. Soon(p, "use token", 9)' => Soon(p, "use token", 9)
  BY <1>2, Order, Zenon DEF EndsLogin
<1>5. Soon(p, "use token", 6)' => Soon(p, "use token", 6) \/ At(p, "login")
  BY <1>2, <1>3, Order, Zenon DEF EndsLogin
<1> QED
  BY <1>4, <1>5

LEMMA ChangeMoves ==
    ASSUME Handlers, NEW p \in Proc, Moves(p)
    PROVE  Soon(p, "mutated", 2)' => Soon(p, "mutated", 2) \/ At(p, "clear metadata")
<1>0. Handlers'
  BY Zenon DEF Moves
<1>1. SUFFICES ASSUME Soon(p, "mutated", 2)' PROVE Soon(p, "mutated", 2) \/ At(p, "clear metadata")
  OBVIOUS
<1>2. ~Free(handler'[p].todo)
  BY <1>0, <1>1, Order, FreeNotSoon, FreeIsCalm, Zenon
<1>3. Soon(p, "mutated", 2) \/ (2 + 1 \in DOMAIN Todo(p) /\ Todo(p)[2 + 1] = "mutated")
  BY <1>1, <1>2, Order, SoonMoves
<1>4. Todo(p)[2 + 1] = "mutated" /\ 2 + 1 \in DOMAIN Todo(p) => Before(Todo(p), 2 + 1, 2, "clear metadata")
  BY HandlerTodo, Zenon DEF Formed, Rules, EndsChange
<1> QED
  BY <1>3, <1>4, Order, NextIs

LEMMA ClearedSooner ==
    ASSUME Handlers', NEW p \in Proc
    PROVE  /\ Soon(p, "cleared", 6)' => Soon(p, "cleared", 8)'
           /\ Soon(p, "cleared", 4)' => Soon(p, "cleared", 8)'
           /\ Soon(p, "cleared", 3)' => Soon(p, "cleared", 8)'
<1>1. ASSUME Soon(p, "cleared", 6)' PROVE Soon(p, "cleared", 8)'
  BY <1>1, SoonerAfter, Order
<1>2. ASSUME Soon(p, "cleared", 4)' PROVE Soon(p, "cleared", 8)'
  BY <1>2, SoonerAfter, Order
<1>3. ASSUME Soon(p, "cleared", 3)' PROVE Soon(p, "cleared", 8)'
  BY <1>3, SoonerAfter, Order
<1> QED
  BY <1>1, <1>2, <1>3

(***************************************************************************)
(* Locks                                                                   *)
(***************************************************************************)
ClearQueued(q) == \E i \in DOMAIN queue : queue[i].by = q /\ queue[i].kind = "clear"
NoneBegun == \A i \in DOMAIN queue : ~queue[i].begun
StoredEmpty == stored = None /\ NoneBegun

\* A lock is under way, or has ended and no login been answered since.
Away == clearing \/ locked

\* The token in memory is gone; what loads meanwhile has found no token, or has
\* seen the lock begin.
TokenGone ==
    /\ Away => token = None
    /\ \A p \in Proc : "clears" \in handler[p].fresh => ~clearing /\ (locked => handler[p].token = None)
\* A lock that has ended has left nothing.
AllGone ==
    locked => (\A a \in Area : saved[a] = None) /\ metadata = None /\ StoredEmpty
\* What the lock of q has done, by what it has still to do.
GoneBy(q) ==
    /\ Soon(q, "cleared", 8) => Away
    /\ Soon(q, "cleared", 6) => metadata = None /\ (ClearQueued(q) \/ StoredEmpty)
    /\ Soon(q, "cleared", 4) => saved["session"] = None
    /\ Soon(q, "cleared", 3) => saved["local"] = None
\* Locks and logins do not overlap.
Apart ==
    /\ clearing => \E q \in Proc : Soon(q, "cleared", 8)
    /\ \A p \in Proc : Soon(p, "use token", 9) => ~clearing /\ \A q \in Proc : ~Soon(q, "cleared", 8)
    /\ \A p \in Proc : Soon(p, "use token", 6) => ~locked

Locks == TokenGone /\ AllGone /\ (\A q \in Proc : GoneBy(q)) /\ Apart

\* The labels of a lock, after the first.
LockLabels == {"clear popup", "clear metadata", "wait", "remove session", "remove local",
               "remove deadline", "clear alarm"}

\* Place c is one of the first nine.
AmongNine(c) ==
    \/ c = 1
    \/ c > 1 /\ c - 1 = 1
    \/ c > 2 /\ c - 2 = 1
    \/ c > 3 /\ c - 3 = 1
    \/ c > 4 /\ c - 4 = 1
    \/ c > 5 /\ c - 5 = 1
    \/ c > 6 /\ c - 6 = 1
    \/ c > 7 /\ c - 7 = 1
    \/ c > 8 /\ c - 8 = 1

LEMMA UpToNine == \A c \in Nat : c >= 1 /\ c <= 9 => AmongNine(c)
<1> SUFFICES ASSUME NEW c \in Nat, c >= 1, c <= 9 PROVE AmongNine(c)
  OBVIOUS
<1>1. c = 1 \/ c = 2 \/ c = 3 \/ c = 4 \/ c = 5 \/ c = 6 \/ c = 7 \/ c = 8 \/ c = 9
  OBVIOUS
<1>2. CASE c = 1
  BY <1>2, Zenon DEF AmongNine
<1>3. CASE c = 2
  BY <1>3 DEF AmongNine
<1>4. CASE c = 3
  BY <1>4 DEF AmongNine
<1>5. CASE c = 4
  BY <1>5 DEF AmongNine
<1>6. CASE c = 5
  BY <1>6 DEF AmongNine
<1>7. CASE c = 6
  BY <1>7 DEF AmongNine
<1>8. CASE c = 7
  BY <1>8 DEF AmongNine
<1>9. CASE c = 8
  BY <1>9 DEF AmongNine
<1>10. CASE c = 9
  BY <1>10 DEF AmongNine
<1> QED
  BY <1>1, <1>2, <1>3, <1>4, <1>5, <1>6, <1>7, <1>8, <1>9, <1>10

LEMMA UpToEight == \A c \in Nat : c >= 1 /\ c <= 8 => c <= 9 /\ ~(c > 8 /\ c - 8 = 1)
  OBVIOUS

LEMMA FirstOfLock ==
    ASSUME Handlers, NEW p \in Proc, NEW c \in DOMAIN Todo(p), c <= 8, Todo(p)[c] = "cleared", c # 1
    PROVE  Head(Todo(p)) \in LockLabels
<1>1. c \in Nat /\ c >= 1 /\ Todo(p) # <<>>
  <2>1. c \in Nat /\ c >= 1
    BY PlaceIsNat, Zenon
  <2>2. Todo(p) # <<>>
    BY EmptySeq
  <2> QED
    BY <2>1, <2>2
<1>2. AmongNine(c) /\ ~(c > 8 /\ c - 8 = 1)
  BY <1>1, UpToEight, UpToNine, Zenon
<1>3. EndsLock(Todo(p), c)
  BY HandlerTodo, Zenon DEF Formed, Rules
<1>4. Todo(p)[1] \in LockLabels
  BY <1>2, <1>3, Zenon DEF AmongNine, EndsLock, Before, LockLabels
<1>5. Head(Todo(p)) = Todo(p)[1]
  BY <1>1, HandlerTodo, TailPlaces, Zenon
<1> QED
  BY <1>4, <1>5

LEMMA RestPlaces ==
    ASSUME Handlers, NEW p \in Proc, NEW i \in DOMAIN Todo(p), i # 1
    PROVE  i - 1 \in DOMAIN Rest(p) /\ Rest(p)[i - 1] = Todo(p)[i] /\ i \in Nat /\ i >= 2
<1>1. Todo(p) \in Seq(Label) /\ Rest(p) = Tail(Todo(p)) /\ Todo(p) # <<>>
  BY HandlerTodo, EmptySeq DEF Rest, Todo
<1>2. /\ Len(Todo(p)) \in Nat /\ DOMAIN Todo(p) = 1 .. Len(Todo(p))
      /\ DOMAIN Tail(Todo(p)) = 1 .. Len(Todo(p)) - 1
      /\ \A k \in 1 .. Len(Todo(p)) - 1 : Tail(Todo(p))[k] = Todo(p)[k + 1]
  BY <1>1, TailPlaces, Zenon
<1>3. i - 1 \in 1 .. Len(Todo(p)) - 1 /\ (i - 1) + 1 = i /\ i \in Nat /\ i >= 2
  BY <1>2
<1> QED
  BY <1>1, <1>2, <1>3, Zenon

\* A lock that is under way stays so until it ends.
LEMMA ClearedStays ==
    ASSUME Handlers, NEW p \in Proc, Soon(p, "cleared", 8), ~At(p, "cleared"),
           handler'[p].todo = Rest(p) \/ Head(Todo(p)) \notin LockLabels
    PROVE  Soon(p, "cleared", 8)'
<1>1. PICK c \in DOMAIN Todo(p) : c <= 8 /\ Todo(p)[c] = "cleared"
  BY Zenon DEF Soon
<1>2. c # 1
  BY <1>1, AtPlace, Zenon
<1>3. handler'[p].todo = Rest(p)
  BY <1>1, <1>2, FirstOfLock
<1>4. c - 1 \in DOMAIN Rest(p) /\ Rest(p)[c - 1] = "cleared" /\ c \in Nat /\ c >= 2
  BY <1>1, <1>2, RestPlaces, Zenon
<1>5. c - 1 <= 8
  <2>1. c \in Nat /\ c <= 8
    BY <1>1, <1>4, Zenon
  <2> QED
    BY <2>1
<1> QED
  BY <1>3, <1>4, <1>5, Zenon DEF Soon, Todo

\* The first label of a login that has not used its token.
LEMMA FirstOfLogin ==
    ASSUME Handlers, NEW p \in Proc, Soon(p, "use token", 9)
    PROVE  ~At(p, "clear token")
<1>1. PICK c \in DOMAIN Todo(p) : c <= 9 /\ Todo(p)[c] = "use token"
  BY Zenon DEF Soon
<1>2. c \in Nat /\ c >= 1
  BY <1>1, PlaceIsNat, Zenon
<1>3. AmongNine(c)
  BY <1>1, <1>2, UpToNine, Zenon
<1>4. EndsLogin(Todo(p), c)
  BY <1>1, HandlerTodo, Zenon DEF Formed, Rules
<1>5. Todo(p)[1] # "clear token"
  BY <1>1, <1>3, <1>4, Zenon DEF AmongNine, EndsLogin, Before
<1> QED
  BY <1>5, AtPlace, Zenon

\* Only a login uses a token that it was given.
LEMMA UsesInLogin ==
    ASSUME Base, NEW p \in Proc, Soon(p, "use token", 9)
    PROVE  p \in LoggingIn
<1>1. handler[p].kind = "login"
  BY Zenon DEF Base, Tasks, HasToken, Soon
<1> QED
  BY <1>1 DEF LoggingIn

LEMMA EightPlaces == 1 + 8 = 9 /\ 9 - 1 = 8 /\ 9 # 1
  OBVIOUS

(***************************************************************************)
(* Steps that neither begin nor end a lock                                 *)
(***************************************************************************)
LEMMA LocksKept ==
    ASSUME Locks, UNCHANGED <<clearing, locked>>,
           clearing => \E q \in Proc : Soon(q, "cleared", 8)',
           \A q \in Proc :
              /\ Soon(q, "cleared", 8)' => Soon(q, "cleared", 8)
              /\ Soon(q, "cleared", 6)' =>
                    Soon(q, "cleared", 6) \/ (Soon(q, "cleared", 8)' /\ metadata' = None /\ ClearQueued(q)')
              /\ Soon(q, "cleared", 6)' => Soon(q, "cleared", 8)'
              /\ Soon(q, "cleared", 4)' => Soon(q, "cleared", 4) \/ saved'["session"] = None
              /\ Soon(q, "cleared", 4)' => Soon(q, "cleared", 8)'
              /\ Soon(q, "cleared", 3)' => Soon(q, "cleared", 3) \/ saved'["local"] = None
              /\ Soon(q, "cleared", 3)' => Soon(q, "cleared", 8)'
              /\ Soon(q, "use token", 9)' =>
                    Soon(q, "use token", 9) \/ (~clearing /\ \A r \in Proc : ~Soon(r, "cleared", 8))
              /\ Soon(q, "use token", 6)' => Soon(q, "use token", 6)
              /\ "clears" \in handler'[q].fresh => ~clearing /\ (locked => handler'[q].token = None),
           \/ ~Away
           \/ /\ token' \in {token, None} /\ metadata' \in {metadata, None}
              /\ \A a \in Area : saved'[a] \in {saved[a], None}
              /\ StoredEmpty => StoredEmpty'
              /\ \A q \in Proc : ClearQueued(q) => ClearQueued(q)' \/ StoredEmpty'
    PROVE  Locks'
<1>0. (clearing' <=> clearing) /\ (locked' <=> locked) /\ (Away' <=> Away)
  BY DEF Away
<1>1. TokenGone /\ AllGone /\ (\A q \in Proc : GoneBy(q)) /\ Apart
  BY Zenon DEF Locks
<1>2. TokenGone'
  <2>1. Away => token' = None
    BY <1>1 DEF TokenGone
  <2>2. \A p \in Proc : "clears" \in handler'[p].fresh => ~clearing' /\ (locked' => handler'[p].token = None)
    BY <1>0, Zenon
  <2> QED
    BY <1>0, <2>1, <2>2, Zenon DEF TokenGone
<1>3. AllGone'
  <2>1. ASSUME locked PROVE (\A a \in Area : saved'[a] = None) /\ metadata' = None /\ StoredEmpty'
    <3>1. Away
      BY <2>1 DEF Away
    <3>2. (\A a \in Area : saved[a] = None) /\ metadata = None /\ StoredEmpty
      BY <1>1, <2>1, Zenon DEF AllGone
    <3>3. metadata' = None /\ StoredEmpty'
      BY <3>1, <3>2
    <3>4. \A a \in Area : saved'[a] = None
      BY <3>1, <3>2
    <3> QED
      BY <3>3, <3>4
  <2> QED
    BY <1>0, <2>1, Zenon DEF AllGone
<1>4. ASSUME NEW q \in Proc PROVE GoneBy(q)'
  <2>1. GoneBy(q)
    BY <1>1
  <2>2. Soon(q, "cleared", 8)' => Away
    BY <2>1, Zenon DEF GoneBy
  <2>3. ASSUME Soon(q, "cleared", 6)'
        PROVE  metadata' = None /\ (ClearQueued(q)' \/ StoredEmpty')
    <3>0. Away
      BY <2>2, <2>3
    <3>1. CASE Soon(q, "cleared", 6)
      <4>1. metadata = None /\ (ClearQueued(q) \/ StoredEmpty)
        BY <2>1, <3>1, Zenon DEF GoneBy
      <4>2. metadata' = None
        BY <3>0, <4>1
      <4>3. ClearQueued(q)' \/ StoredEmpty'
        BY <3>0, <4>1, Zenon
      <4> QED
        BY <4>2, <4>3
    <3>2. CASE ~Soon(q, "cleared", 6)
      BY <2>3, <3>2, Zenon
    <3> QED
      BY <3>1, <3>2
  <2>4. ASSUME Soon(q, "cleared", 4)' PROVE saved'["session"] = None
    <3>0. Away /\ "session" \in Area
      BY <2>2, <2>4 DEF Area
    <3>1. CASE Soon(q, "cleared", 4)
      <4>1. saved["session"] = None
        BY <2>1, <3>1, Zenon DEF GoneBy
      <4> QED
        BY <3>0, <4>1
    <3> QED
      BY <2>4, <3>1, Zenon
  <2>5. ASSUME Soon(q, "cleared", 3)' PROVE saved'["local"] = None
    <3>0. Away /\ "local" \in Area
      BY <2>2, <2>5 DEF Area
    <3>1. CASE Soon(q, "cleared", 3)
      <4>1. saved["local"] = None
        BY <2>1, <3>1, Zenon DEF GoneBy
      <4> QED
        BY <3>0, <4>1
    <3> QED
      BY <2>5, <3>1, Zenon
  <2> QED
    BY <1>0, <2>2, <2>3, <2>4, <2>5, Zenon DEF GoneBy
<1>5. Apart'
  <2>1. clearing' => \E q \in Proc : Soon(q, "cleared", 8)'
    BY <1>0, Zenon
  <2>2. ASSUME NEW p \in Proc, Soon(p, "use token", 9)'
        PROVE  ~clearing' /\ \A q \in Proc : ~Soon(q, "cleared", 8)'
    BY <1>0, <1>1, <2>2, Zenon DEF Apart
  <2>3. ASSUME NEW p \in Proc, Soon(p, "use token", 6)' PROVE ~locked'
    BY <1>0, <1>1, <2>3, Zenon DEF Apart
  <2> QED
    BY <2>1, <2>2, <2>3, Zenon DEF Apart
<1> QED
  BY <1>2, <1>3, <1>4, <1>5, Zenon DEF Locks

\* A handler takes a step.
LEMMA LocksMoves ==
    ASSUME Base, Locks, NEW p \in Proc, Moves(p), UNCHANGED <<clearing, locked>>,
           ~At(p, "clear token"), ~At(p, "cleared"), ~At(p, "login"),
           handler'[p].todo = Rest(p) \/ Head(Todo(p)) \notin LockLabels,
           "clears" \in handler'[p].fresh => ~clearing /\ (locked => handler'[p].token = None),
           At(p, "clear metadata") => metadata' = None /\ ClearQueued(p)',
           At(p, "remove session") => saved'["session"] = None,
           At(p, "remove local") => saved'["local"] = None,
           \/ ~Away
           \/ /\ token' \in {token, None} /\ metadata' \in {metadata, None}
              /\ \A a \in Area : saved'[a] \in {saved[a], None}
              /\ StoredEmpty => StoredEmpty'
              /\ \A q \in Proc : ClearQueued(q) => ClearQueued(q)' \/ StoredEmpty'
    PROVE  Locks'
<1>0. Handlers /\ Handlers' /\ \A q \in Proc \ {p} : Like(handler'[q], handler[q])
  BY BaseParts, Zenon DEF Moves
<1>1. \A q \in Proc \ {p} : \A label, n : Soon(q, label, n)' <=> Soon(q, label, n)
  BY <1>0, LikeSoon, Zenon
<1>2. clearing => \E q \in Proc : Soon(q, "cleared", 8)'
  <2>1. clearing => \E q \in Proc : Soon(q, "cleared", 8)
    BY Zenon DEF Locks, Apart
  <2>2. Soon(p, "cleared", 8) => Soon(p, "cleared", 8)'
    BY <1>0, ClearedStays, Zenon
  <2> QED
    BY <1>1, <2>1, <2>2, Zenon
<1>3. ASSUME NEW q \in Proc
      PROVE  /\ Soon(q, "cleared", 6)' => Soon(q, "cleared", 8)'
             /\ Soon(q, "cleared", 4)' => Soon(q, "cleared", 8)'
             /\ Soon(q, "cleared", 3)' => Soon(q, "cleared", 8)'
  BY <1>0, ClearedSooner
<1>4. ASSUME NEW q \in Proc
      PROVE  /\ Soon(q, "cleared", 8)' => Soon(q, "cleared", 8)
             /\ Soon(q, "cleared", 6)' =>
                   Soon(q, "cleared", 6) \/ (metadata' = None /\ ClearQueued(q)')
             /\ Soon(q, "cleared", 4)' => Soon(q, "cleared", 4) \/ saved'["session"] = None
             /\ Soon(q, "cleared", 3)' => Soon(q, "cleared", 3) \/ saved'["local"] = None
             /\ Soon(q, "use token", 9)' => Soon(q, "use token", 9)
             /\ Soon(q, "use token", 6)' => Soon(q, "use token", 6)
  <2>1. CASE q = p
    BY <1>0, <2>1, ClearedMoves, LoginMoves, Zenon
  <2>2. CASE q # p
    BY <1>1, <2>2, Zenon
  <2> QED
    BY <2>1, <2>2
<1>5. ASSUME NEW q \in Proc, "clears" \in handler'[q].fresh
      PROVE  ~clearing /\ (locked => handler'[q].token = None)
  <2>1. CASE q = p
    BY <1>5, <2>1, Zenon
  <2>2. CASE q # p
    <3>1. "clears" \in handler[q].fresh /\ handler'[q].token = handler[q].token
      BY <1>0, <1>5, <2>2 DEF Like
    <3> QED
      BY <3>1, Zenon DEF Locks, TokenGone
  <2> QED
    BY <2>1, <2>2
<1> QED
  BY <1>2, <1>3, <1>4, <1>5, LocksKept

\* No handler takes a step.
LEMMA LocksLike ==
    ASSUME Base, Locks, Handlers', \A q \in Proc : Like(handler'[q], handler[q]), UNCHANGED <<clearing, locked>>,
           \/ ~Away
           \/ /\ token' \in {token, None} /\ metadata' \in {metadata, None}
              /\ \A a \in Area : saved'[a] \in {saved[a], None}
              /\ StoredEmpty => StoredEmpty'
              /\ \A q \in Proc : ClearQueued(q) => ClearQueued(q)' \/ StoredEmpty'
    PROVE  Locks'
<1>1. \A q \in Proc : \A label, n : Soon(q, label, n)' <=> Soon(q, label, n)
  BY LikeSoon, Zenon
<1>2. clearing => \E q \in Proc : Soon(q, "cleared", 8)'
  BY <1>1, Zenon DEF Locks, Apart
<1>3. \A q \in Proc : "clears" \in handler'[q].fresh => ~clearing /\ (locked => handler'[q].token = None)
  <2>1. \A q \in Proc : "clears" \in handler[q].fresh => ~clearing /\ (locked => handler[q].token = None)
    BY Zenon DEF Locks, TokenGone
  <2>2. \A q \in Proc : handler'[q].token = handler[q].token /\ handler'[q].fresh \subseteq handler[q].fresh
    BY Zenon DEF Like
  <2> QED
    BY <2>1, <2>2
<1>4. \A q \in Proc : /\ Soon(q, "cleared", 6)' => Soon(q, "cleared", 8)'
                      /\ Soon(q, "cleared", 4)' => Soon(q, "cleared", 8)'
                      /\ Soon(q, "cleared", 3)' => Soon(q, "cleared", 8)'
  BY ClearedSooner
<1> QED
  BY <1>1, <1>2, <1>3, <1>4, LocksKept

\* A handler begins.
LEMMA LocksBegins ==
    ASSUME Base, Locks, NEW p \in Proc, Begins(p), UNCHANGED <<clearing, locked>>,
           \A q \in Proc : Soon(q, "use token", 9)' =>
              Soon(q, "use token", 9) \/ (~clearing /\ \A r \in Proc : ~Soon(r, "cleared", 8)),
           ~Soon(p, "use token", 6)',
           \/ ~Away
           \/ /\ token' \in {token, None} /\ metadata' \in {metadata, None}
              /\ \A a \in Area : saved'[a] \in {saved[a], None}
              /\ StoredEmpty => StoredEmpty'
              /\ \A q \in Proc : ClearQueued(q) => ClearQueued(q)' \/ StoredEmpty'
    PROVE  Locks'
<1>0. /\ Handlers' /\ \A q \in Proc \ {p} : Like(handler'[q], handler[q])
      /\ Calm(handler'[p].todo) /\ handler'[p].fresh = {} /\ Idle(p)
  BY Zenon DEF Begins
<1>1. \A q \in Proc \ {p} : \A label, n : Soon(q, label, n)' <=> Soon(q, label, n)
  BY <1>0, LikeSoon, Zenon
<1>2. ~Soon(p, "cleared", 8)' /\ ~Soon(p, "cleared", 6)' /\ ~Soon(p, "cleared", 4)' /\ ~Soon(p, "cleared", 3)'
  BY <1>0, FreeNotSoon, Order, Zenon
<1>3. clearing => \E q \in Proc : Soon(q, "cleared", 8)'
  <2>1. clearing => \E q \in Proc : Soon(q, "cleared", 8)
    BY Zenon DEF Locks, Apart
  <2>2. ~Soon(p, "cleared", 8)
    <3>1. Todo(p) = <<>>
      BY <1>0, BaseParts, Zenon DEF Handlers
    <3> QED
      BY <3>1, EmptySeq, Zenon DEF Soon
  <2> QED
    BY <1>1, <2>1, <2>2, Zenon
<1>4. \A q \in Proc : "clears" \in handler'[q].fresh => ~clearing /\ (locked => handler'[q].token = None)
  <2>1. \A q \in Proc : "clears" \in handler[q].fresh => ~clearing /\ (locked => handler[q].token = None)
    BY Zenon DEF Locks, TokenGone
  <2>2. \A q \in Proc \ {p} : handler'[q].token = handler[q].token /\ handler'[q].fresh \subseteq handler[q].fresh
    BY <1>0, Zenon DEF Like
  <2> QED
    BY <1>0, <2>1, <2>2
<1>5. ASSUME NEW q \in Proc
      PROVE  /\ Soon(q, "cleared", 8)' => Soon(q, "cleared", 8)
             /\ Soon(q, "cleared", 6)' => Soon(q, "cleared", 6) /\ Soon(q, "cleared", 8)'
             /\ Soon(q, "cleared", 4)' => Soon(q, "cleared", 4) /\ Soon(q, "cleared", 8)'
             /\ Soon(q, "cleared", 3)' => Soon(q, "cleared", 3) /\ Soon(q, "cleared", 8)'
             /\ Soon(q, "use token", 6)' => Soon(q, "use token", 6)
  <2>1. CASE q = p
    BY <1>2, <2>1, Zenon
  <2>2. CASE q # p
    BY <1>0, <1>1, <2>2, ClearedSooner, Zenon
  <2> QED
    BY <2>1, <2>2
<1> QED
  BY <1>3, <1>4, <1>5, LocksKept

LEMMA LocksParts ==
    ASSUME Locks
    PROVE  TokenGone /\ AllGone /\ (\A q \in Proc : GoneBy(q)) /\ Apart
  BY Zenon DEF Locks

LEMMA TokenMeansOpen == Locks /\ token # None => ~Away
  BY Zenon DEF Locks, TokenGone

\* What a handler that has read nothing new knows of locks.
LEMMA ClearsKept ==
    ASSUME Locks, NEW p \in Proc,
           \/ Kept(p)
           \/ /\ handler'[p].token = handler[p].token
              /\ handler'[p].fresh \subseteq handler[p].fresh \cup {"token", "metadata"}
    PROVE  "clears" \in handler'[p].fresh => ~clearing /\ (locked => handler'[p].token = None)
<1>1. "clears" \in handler[p].fresh => ~clearing /\ (locked => handler[p].token = None)
  BY LocksParts, Zenon DEF TokenGone
<1>2. "clears" # "token" /\ "clears" # "metadata"
  OBVIOUS
<1>3. \/ handler'[p] = IdleHandler
      \/ /\ handler'[p].token = handler[p].token
         /\ handler'[p].fresh \subseteq handler[p].fresh \cup {"token", "metadata"}
  BY DEF Kept
<1>4. CASE handler'[p] = IdleHandler
  BY <1>4, IdleIsHandler
<1>5. CASE /\ handler'[p].token = handler[p].token
           /\ handler'[p].fresh \subseteq handler[p].fresh \cup {"token", "metadata"}
  <2>1. "clears" \in handler'[p].fresh => "clears" \in handler[p].fresh
    BY <1>2, <1>5
  <2> QED
    BY <1>1, <1>5, <2>1, Zenon
<1> QED
  BY <1>3, <1>4, <1>5

\* A step that touches none of what a lock empties.
LEMMA LocksQuiet ==
    ASSUME Base, Locks, NEW p \in Proc, Moves(p), UNCHANGED <<tokenVars, metadata, stored, queue>>,
           NEW label, At(p, label), label \notin {"clear token", "cleared", "login", "clear metadata",
                                                  "remove session", "remove local"},
           handler'[p].todo = Rest(p) \/ label \notin LockLabels,
           "clears" \in handler'[p].fresh => ~clearing /\ (locked => handler'[p].token = None)
    PROVE  Locks'
<1>1. ~At(p, "clear token") /\ ~At(p, "cleared") /\ ~At(p, "login") /\ ~At(p, "clear metadata")
      /\ ~At(p, "remove session") /\ ~At(p, "remove local")
  BY Zenon DEF At
<1>2. handler'[p].todo = Rest(p) \/ Head(Todo(p)) \notin LockLabels
  BY AtHead, Zenon
<1>3. /\ UNCHANGED <<clearing, locked, queue, stored>>
      /\ token' \in {token, None} /\ metadata' \in {metadata, None}
      /\ \A a \in Area : saved'[a] \in {saved[a], None}
  BY DEF tokenVars
<1>4. /\ StoredEmpty => StoredEmpty'
      /\ \A q \in Proc : ClearQueued(q) => ClearQueued(q)' \/ StoredEmpty'
  BY <1>3, Zenon DEF StoredEmpty, NoneBegun, ClearQueued
<1> QED
  BY <1>1, <1>2, <1>3, <1>4, LocksMoves

LEMMA QuietLabels ==
    /\ \A label \in {"get mode", "read deadline", "unset alarm", "create alarm", "set deadline", "minutes",
                     "new deadline", "validate", "answer", "mutated", "send", "log in", "serve", "apply",
                     "load", "read session", "read local", "set token", "look up", "read stored",
                     "receive", "save token", "use token"} :
          /\ label \notin {"clear token", "cleared", "login", "clear metadata",
                           "remove session", "remove local"}
          /\ label \notin LockLabels
    /\ \A label \in {"remove deadline", "clear alarm", "clear popup", "wait"} :
          label \notin {"clear token", "cleared", "login", "clear metadata",
                        "remove session", "remove local"}
  BY Zenon DEF LockLabels

LEMMA LocksReads ==
    ASSUME Base, Locks, NEW p \in Proc,
           \/ GetMode(p) \/ ReadDeadline(p) \/ CreateAlarm(p) \/ SetDeadline(p) \/ MinutesChanged(p)
           \/ NewDeadline(p) \/ (ClearAlarm(p) /\ At(p, "unset alarm")) \/ Validate(p) \/ Mutated(p)
           \/ Answered(p) \/ Send(p) \/ LoginSent(p) \/ Serve(p) \/ Apply(p)
    PROVE  Locks'
<1>1. \E label \in {"get mode", "read deadline", "unset alarm", "create alarm", "set deadline", "minutes",
                    "new deadline", "validate", "answer", "mutated", "send", "log in", "serve", "apply"} :
         At(p, label)
  BY DEF GetMode, ReadDeadline, CreateAlarm, SetDeadline, MinutesChanged, NewDeadline, Validate, Mutated,
         Answered, Send, LoginSent, Serve, Apply
<1>2. UNCHANGED <<tokenVars, metadata, stored, queue>>
  BY DEF GetMode, ReadDeadline, CreateAlarm, SetDeadline, MinutesChanged, NewDeadline, ClearAlarm, Validate,
         Mutated, Answered, Send, LoginSent, Serve, Apply, cacheVars
<1>3. Handlers /\ vault \in Nat
  BY BaseParts
<1>4. /\ Moves(p)
      /\ \/ Kept(p)
         \/ /\ handler'[p].token = handler[p].token
            /\ handler'[p].fresh \subseteq handler[p].fresh \cup {"token", "metadata"}
  <2>1. CASE GetMode(p) \/ ReadDeadline(p)
    BY <1>3, <2>1, BaseParts, GetModeMoves, ReadDeadlineMoves DEF ModeTypes, LockTypes
  <2>2. CASE CreateAlarm(p) \/ SetDeadline(p) \/ MinutesChanged(p) \/ NewDeadline(p) \/ ClearAlarm(p)
    BY <1>3, <2>2, DeadlineMoves
  <2>3. CASE Validate(p) \/ Mutated(p)
    BY <1>3, <2>3, ValidateMoves, LockMoves
  <2>4. CASE Answered(p)
    BY <1>3, <2>4, AnsweredMoves
  <2>5. CASE Send(p) \/ LoginSent(p)
    BY <1>3, <2>5, SendMoves, LoginSentMoves DEF Kept
  <2>6. CASE Serve(p) \/ Apply(p)
    BY <1>3, <2>6, ServeMoves, ApplyMoves DEF Kept
  <2> QED
    BY <2>1, <2>2, <2>3, <2>4, <2>5, <2>6
<1>5. "clears" \in handler'[p].fresh => ~clearing /\ (locked => handler'[p].token = None)
  BY <1>4, ClearsKept
<1>6. PICK label : /\ At(p, label)
                   /\ label \notin {"clear token", "cleared", "login", "clear metadata",
                                    "remove session", "remove local"}
                   /\ label \notin LockLabels
  BY <1>1, QuietLabels, Zenon
<1> QED
  BY <1>2, <1>4, <1>5, <1>6, LocksQuiet

LEMMA LocksGoOn ==
    ASSUME Base, Locks, NEW p \in Proc,
           \/ RemoveDeadline(p) \/ (ClearAlarm(p) /\ At(p, "clear alarm")) \/ ClearPopup(p) \/ Waited(p)
    PROVE  Locks'
<1>1. \E label \in {"remove deadline", "clear alarm", "clear popup", "wait"} : At(p, label)
  BY DEF RemoveDeadline, ClearPopup, Waited
<1>2. UNCHANGED <<tokenVars, metadata, stored, queue>> /\ Continue(p)
  BY DEF RemoveDeadline, ClearAlarm, ClearPopup, Waited, cacheVars
<1>3. Handlers /\ Todo(p) # <<>>
  BY <1>1, BaseParts, AtHead
<1>4. Moves(p) /\ Kept(p) /\ handler'[p].todo = Rest(p)
  BY <1>2, <1>3, ContinueMoves
<1>5. "clears" \in handler'[p].fresh => ~clearing /\ (locked => handler'[p].token = None)
  BY <1>4, ClearsKept
<1>6. PICK label : /\ At(p, label)
                   /\ label \notin {"clear token", "cleared", "login", "clear metadata",
                                    "remove session", "remove local"}
  BY <1>1, QuietLabels, Zenon
<1> QED
  BY <1>2, <1>4, <1>5, <1>6, LocksQuiet

\* A load begins when no lock is under way, with no token; and finds none in
\* storage once a lock has ended.
LEMMA LocksLoads ==
    ASSUME Base, Locks, NEW p \in Proc, LoadBegins(p) \/ ReadSaved(p)
    PROVE  Locks'
<1>1. \E label \in {"load", "read session", "read local"} : At(p, label)
  BY DEF LoadBegins, ReadSaved
<1>2. UNCHANGED <<tokenVars, metadata, stored, queue>>
  BY DEF LoadBegins, ReadSaved, cacheVars
<1>3. Moves(p)
  BY BaseParts, LoadBeginsMoves, ReadSavedMoves DEF TokenTypes
<1>4. "clears" \in handler'[p].fresh => ~clearing /\ (locked => handler'[p].token = None)
  <2>1. CASE LoadBegins(p)
    <3>1. \/ Kept(p)
          \/ ~clearing /\ handler'[p].token = handler[p].token
      BY <2>1, BaseParts, LoadBeginsMoves
    <3>2. handler[p].token = None
      BY <2>1, Zenon DEF LoadBegins, Base, Tasks, LoadsAnew
    <3> QED
      BY <3>1, <3>2, ClearsKept, Zenon
  <2>2. CASE ReadSaved(p)
    <3>1. \/ handler'[p] = IdleHandler
          \/ (\E a \in Area : handler'[p].token = saved[a]) /\ handler'[p].fresh = handler[p].fresh
      BY <2>2, BaseParts, ReadSavedMoves DEF TokenTypes
    <3>2. "clears" \in handler[p].fresh => ~clearing
      BY LocksParts, Zenon DEF TokenGone
    <3>3. locked => \A a \in Area : saved[a] = None
      BY LocksParts, Zenon DEF AllGone
    <3>4. "clears" \notin IdleHandler.fresh
      BY IdleIsHandler
    <3> QED
      BY <3>1, <3>2, <3>3, <3>4, Zenon
  <2> QED
    BY <2>1, <2>2
<1>5. PICK label : /\ At(p, label)
                   /\ label \notin {"clear token", "cleared", "login", "clear metadata",
                                    "remove session", "remove local"}
                   /\ label \notin LockLabels
  BY <1>1, QuietLabels, Zenon
<1> QED
  BY <1>2, <1>3, <1>4, <1>5, LocksQuiet

LEMMA EnqueuePlaces ==
    ASSUME Base, NEW p \in Proc, NEW kind \in {"clear", "read", "write"}, NEW record \in Maybe(Record),
           Enqueue(p, kind, record)
    PROVE  \E n \in Nat :
              /\ n \in DOMAIN queue' /\ n \notin DOMAIN queue /\ \A i \in DOMAIN queue : i < n
              /\ queue'[n].by = p /\ queue'[n].kind = kind /\ queue'[n].record = record /\ ~queue'[n].begun
              /\ \A i \in DOMAIN queue : i \in DOMAIN queue' /\ queue'[i] = queue[i]
              /\ \A i \in DOMAIN queue' : i \in DOMAIN queue \/ i = n
<1> DEFINE op == [by |-> p, kind |-> kind, record |-> record, begun |-> FALSE]
           new == Append(queue, op)
<1>1. op \in Operation /\ op.by = p /\ ~op.begun /\ op.kind = kind /\ op.record = record
  BY DEF Operation
<1>2. queue' = new
  BY DEF Enqueue
<1>3. queue \in Seq(Operation)
  BY BaseParts, Zenon DEF Queued
<1> HIDE DEF op
<1>4. /\ Len(queue) \in Nat
      /\ \A i \in DOMAIN queue : new[i] = queue[i] /\ i < Len(queue) + 1 /\ i \in DOMAIN new
      /\ new[Len(queue) + 1] = op /\ Len(queue) + 1 \in DOMAIN new
      /\ Len(queue) + 1 \notin DOMAIN queue
      /\ \A i \in DOMAIN new : i \in DOMAIN queue \/ i = Len(queue) + 1
  BY <1>1, <1>3, AppendPlaces
<1> HIDE DEF new
<1>5. Len(queue) + 1 \in Nat
  BY <1>4
<1> QED
  BY <1>1, <1>2, <1>4, <1>5, Zenon

LEMMA EnqueueKeeps ==
    ASSUME Base, NEW p \in Proc, NEW kind \in {"clear", "read", "write"}, NEW record \in Maybe(Record),
           Enqueue(p, kind, record)
    PROVE  /\ \A q \in Proc : ClearQueued(q) => ClearQueued(q)'
           /\ NoneBegun => NoneBegun'
           /\ kind = "clear" => ClearQueued(p)'
<1>1. PICK n \in Nat :
              /\ n \in DOMAIN queue' /\ n \notin DOMAIN queue /\ \A i \in DOMAIN queue : i < n
              /\ queue'[n].by = p /\ queue'[n].kind = kind /\ queue'[n].record = record /\ ~queue'[n].begun
              /\ \A i \in DOMAIN queue : i \in DOMAIN queue' /\ queue'[i] = queue[i]
              /\ \A i \in DOMAIN queue' : i \in DOMAIN queue \/ i = n
  BY EnqueuePlaces
<1>2. \A q \in Proc : ClearQueued(q) => ClearQueued(q)'
  BY <1>1, Zenon DEF ClearQueued
<1>3. NoneBegun => NoneBegun'
  BY <1>1, Zenon DEF NoneBegun
<1>4. kind = "clear" => ClearQueued(p)'
  BY <1>1, Zenon DEF ClearQueued
<1> QED
  BY <1>2, <1>3, <1>4

\* What the steps of a session write, while no lock is under way or has ended
\* since the last login.
LEMMA LocksOpen ==
    ASSUME Base, Locks, NEW p \in Proc, Moves(p), UNCHANGED <<clearing, locked>>, ~Away,
           NEW label, At(p, label), label \notin {"clear token", "cleared", "login", "clear metadata",
                                                  "remove session", "remove local"},
           label \notin LockLabels, Kept(p)
    PROVE  Locks'
<1>1. ~At(p, "clear token") /\ ~At(p, "cleared") /\ ~At(p, "login") /\ ~At(p, "clear metadata")
      /\ ~At(p, "remove session") /\ ~At(p, "remove local")
  BY Zenon DEF At
<1>2. handler'[p].todo = Rest(p) \/ Head(Todo(p)) \notin LockLabels
  BY AtHead, Zenon
<1>3. "clears" \in handler'[p].fresh => ~clearing /\ (locked => handler'[p].token = None)
  BY ClearsKept
<1> QED
  BY <1>1, <1>2, <1>3, LocksMoves

LEMMA UsesOpen ==
    ASSUME Base, Locks, NEW p \in Proc, At(p, "use token") \/ At(p, "save token")
    PROVE  ~Away
<1>0. Handlers
  BY BaseParts
<1>1. Soon(p, "use token", 6)
  <2>1. CASE At(p, "use token")
    BY <1>0, <2>1, FirstIsSoon, Order, Zenon
  <2>2. CASE At(p, "save token")
    <3>1. 1 \in DOMAIN Todo(p) /\ Todo(p)[1] = "save token"
      BY <1>0, <2>2, AtPlace, Zenon
    <3>2. After(Todo(p), 1, 1, "use token")
      BY <1>0, <3>1, HandlerTodo, Zenon DEF Formed, Rules
    <3> QED
      BY <3>2, OneAndOne, Order, Zenon DEF After, Soon
  <2> QED
    BY <2>1, <2>2
<1>2. Soon(p, "use token", 9)
  BY <1>0, <1>1, Sooner, Order
<1> QED
  BY <1>1, <1>2, LocksParts, Zenon DEF Apart, Away

LEMMA LocksSetToken ==
    ASSUME Base, Locks, NEW p \in Proc, SetToken(p)
    PROVE  Locks'
<1>1. /\ Moves(p) /\ Kept(p)
      /\ \/ UNCHANGED token
         \/ token' = handler[p].token /\ token' # None /\ ~clearing /\ "clears" \in handler[p].fresh
  BY BaseParts, SetTokenMoves
<1>2. At(p, "set token") /\ UNCHANGED <<clearing, locked, logins, saved, replaced, metadata, stored, queue>>
  BY DEF SetToken, cacheVars
<1>3. /\ "set token" \notin {"clear token", "cleared", "login", "clear metadata",
                             "remove session", "remove local"}
      /\ "set token" \notin LockLabels
  BY QuietLabels, Zenon
<1>4. CASE UNCHANGED token
  <2>1. UNCHANGED <<tokenVars, metadata, stored, queue>>
    BY <1>2, <1>4 DEF tokenVars
  <2>2. "clears" \in handler'[p].fresh => ~clearing /\ (locked => handler'[p].token = None)
    BY <1>1, ClearsKept
  <2> QED
    BY <1>1, <1>2, <1>3, <2>1, <2>2, LocksQuiet
<1>5. CASE token' = handler[p].token /\ token' # None /\ ~clearing /\ "clears" \in handler[p].fresh
  <2>1. ~Away
    <3>1. locked => handler[p].token = None
      BY <1>5, LocksParts, Zenon DEF TokenGone
    <3>2. handler[p].token # None
      BY <1>5
    <3> QED
      BY <1>5, <3>1, <3>2, Zenon DEF Away
  <2> QED
    BY <1>1, <1>2, <1>3, <2>1, LocksOpen
<1> QED
  BY <1>1, <1>4, <1>5, Zenon

LEMMA LocksUseToken ==
    ASSUME Base, Locks, NEW p \in Proc, UseToken(p) \/ SaveToken(p)
    PROVE  Locks'
<1>1. Moves(p) /\ Kept(p)
  BY BaseParts, UseTokenMoves, LockMoves
<1>2. (At(p, "use token") \/ At(p, "save token")) /\ UNCHANGED <<clearing, locked>>
  BY DEF UseToken, SaveToken
<1>3. \E label : /\ At(p, label)
                 /\ label \notin {"clear token", "cleared", "login", "clear metadata",
                                  "remove session", "remove local"}
                 /\ label \notin LockLabels
  BY <1>2, QuietLabels, Zenon
<1>4. ~Away
  BY <1>2, UsesOpen
<1> QED
  BY <1>1, <1>2, <1>3, <1>4, LocksOpen

LEMMA LocksLookUp ==
    ASSUME Base, Locks, NEW p \in Proc, LookUp(p)
    PROVE  Locks'
<1>1. /\ Moves(p)
      /\ \/ Kept(p) /\ UNCHANGED queue
         \/ /\ Enqueue(p, "read", None)
            /\ \/ handler'[p] = IdleHandler
               \/ handler'[p].token = handler[p].token /\ handler'[p].fresh = {"token", "metadata"}
  BY BaseParts, LookUpMoves, Zenon
<1>2. At(p, "look up") /\ UNCHANGED <<tokenVars, metadata, stored>>
  BY DEF LookUp
<1>3. "look up" \notin {"clear token", "cleared", "login", "clear metadata",
                        "remove session", "remove local"} \cup LockLabels
  BY QuietLabels, Zenon
<1>4. CASE Kept(p) /\ UNCHANGED queue
  <2>1. "clears" \in handler'[p].fresh => ~clearing /\ (locked => handler'[p].token = None)
    BY <1>4, ClearsKept
  <2> QED
    BY <1>1, <1>2, <1>3, <1>4, <2>1, LocksQuiet
<1>5. CASE /\ Enqueue(p, "read", None)
           /\ \/ handler'[p] = IdleHandler
              \/ handler'[p].token = handler[p].token /\ handler'[p].fresh = {"token", "metadata"}
  <2>1. None \in Maybe(Record)
    BY DEF Maybe
  <2>2. (\A q \in Proc : ClearQueued(q) => ClearQueued(q)') /\ (NoneBegun => NoneBegun')
    BY <1>5, <2>1, EnqueueKeeps
  <2>3. StoredEmpty => StoredEmpty'
    BY <1>2, <2>2 DEF StoredEmpty
  <2>4. "clears" \notin handler'[p].fresh
    BY <1>5, IdleIsHandler
  <2>5. /\ UNCHANGED <<clearing, locked>> /\ token' \in {token, None} /\ metadata' \in {metadata, None}
        /\ \A a \in Area : saved'[a] \in {saved[a], None}
    BY <1>2 DEF tokenVars
  <2>6. ~At(p, "clear token") /\ ~At(p, "cleared") /\ ~At(p, "login") /\ ~At(p, "clear metadata")
        /\ ~At(p, "remove session") /\ ~At(p, "remove local")
    BY <1>2, Zenon DEF At
  <2>7. Head(Todo(p)) \notin LockLabels
    BY <1>2, <1>3, AtHead, Zenon
  <2> QED
    BY <1>1, <2>2, <2>3, <2>4, <2>5, <2>6, <2>7, LocksMoves
<1> QED
  BY <1>1, <1>4, <1>5

LEMMA LocksReceives ==
    ASSUME Base, Locks, NEW p \in Proc, ReadStored(p) \/ Receive(p)
    PROVE  Locks'
<1>1. Moves(p) /\ Kept(p)
  BY BaseParts, ReadStoredMoves, ReceiveMoves
<1>2. /\ At(p, "read stored") \/ At(p, "receive")
      /\ UNCHANGED <<tokenVars, stored>>
      /\ token # None \/ UNCHANGED <<metadata, queue>>
  BY DEF ReadStored, Receive, Current
<1>3. PICK label : /\ At(p, label)
                   /\ label \notin {"clear token", "cleared", "login", "clear metadata",
                                    "remove session", "remove local"}
                   /\ label \notin LockLabels
  BY <1>2, QuietLabels, Zenon
<1>4. CASE token # None
  <2>1. ~Away
    BY <1>4, TokenMeansOpen
  <2>2. UNCHANGED <<clearing, locked>>
    BY <1>2 DEF tokenVars
  <2> QED
    BY <1>1, <1>3, <2>1, <2>2, LocksOpen
<1>5. CASE UNCHANGED <<metadata, queue>>
  <2>1. "clears" \in handler'[p].fresh => ~clearing /\ (locked => handler'[p].token = None)
    BY <1>1, ClearsKept
  <2>2. UNCHANGED <<tokenVars, metadata, stored, queue>>
    BY <1>2, <1>5
  <2> QED
    BY <1>1, <1>3, <2>1, <2>2, LocksQuiet
<1> QED
  BY <1>2, <1>4, <1>5

LEMMA LocksClearMetadataNow ==
    ASSUME Base, Locks, NEW p \in Proc, ClearMetadataNow(p)
    PROVE  Locks'
<1>1. Moves(p) /\ Kept(p) /\ handler'[p].todo = Rest(p)
  BY BaseParts, ClearMetadataNowMoves
<1>2. /\ At(p, "clear metadata") /\ UNCHANGED <<tokenVars, stored>> /\ metadata' = None
      /\ Enqueue(p, "clear", None)
  BY DEF ClearMetadataNow, Clears
<1>3. /\ \A q \in Proc : ClearQueued(q) => ClearQueued(q)'
      /\ NoneBegun => NoneBegun'
      /\ ClearQueued(p)'
  <2>1. None \in Maybe(Record)
    BY DEF Maybe
  <2> QED
    BY <1>2, <2>1, EnqueueKeeps
<1>4. StoredEmpty => StoredEmpty'
  BY <1>2, <1>3 DEF StoredEmpty
<1>5. /\ UNCHANGED <<clearing, locked>> /\ token' \in {token, None} /\ metadata' \in {metadata, None}
      /\ \A a \in Area : saved'[a] \in {saved[a], None}
  BY <1>2 DEF tokenVars
<1>6. ~At(p, "clear token") /\ ~At(p, "cleared") /\ ~At(p, "login")
      /\ ~At(p, "remove session") /\ ~At(p, "remove local")
  BY <1>2, Zenon DEF At
<1>7. "clears" \in handler'[p].fresh => ~clearing /\ (locked => handler'[p].token = None)
  BY <1>1, ClearsKept
<1>8. \A q \in Proc : ClearQueued(q) => ClearQueued(q)' \/ StoredEmpty'
  BY <1>3, Zenon
<1>9. At(p, "clear metadata") => metadata' = None /\ ClearQueued(p)'
  BY <1>2, <1>3, Zenon
<1> QED
  BY <1>1, <1>4, <1>5, <1>6, <1>7, <1>8, <1>9, LocksMoves

LEMMA LocksRemove ==
    ASSUME Base, Locks, NEW p \in Proc, Remove(p)
    PROVE  Locks'
<1>1. Moves(p) /\ Kept(p) /\ handler'[p].todo = Rest(p)
  BY BaseParts, LockMoves
<1>2. /\ UNCHANGED <<clearing, locked, token, metadata, stored, queue>>
      /\ \/ At(p, "remove session") /\ saved' = [saved EXCEPT !["session"] = None]
         \/ At(p, "remove local") /\ saved' = [saved EXCEPT !["local"] = None]
  BY DEF Remove, Store, cacheVars
<1>3. /\ \A a \in Area : saved'[a] \in {saved[a], None}
      /\ At(p, "remove session") => saved'["session"] = None
      /\ At(p, "remove local") => saved'["local"] = None
  <2>1. saved \in [Area -> Maybe(Token)] /\ "session" \in Area /\ "local" \in Area
    BY BaseParts DEF TokenTypes, Area
  <2>2. CASE At(p, "remove session") /\ saved' = [saved EXCEPT !["session"] = None]
    <3>1. ~At(p, "remove local")
      BY <2>2, Zenon DEF At
    <3> QED
      BY <2>1, <2>2, <3>1
  <2>3. CASE At(p, "remove local") /\ saved' = [saved EXCEPT !["local"] = None]
    <3>1. ~At(p, "remove session")
      BY <2>3, Zenon DEF At
    <3> QED
      BY <2>1, <2>3, <3>1
  <2> QED
    BY <1>2, <2>2, <2>3
<1>4. ~At(p, "clear token") /\ ~At(p, "cleared") /\ ~At(p, "login") /\ ~At(p, "clear metadata")
  BY <1>2, Zenon DEF At
<1>5. "clears" \in handler'[p].fresh => ~clearing /\ (locked => handler'[p].token = None)
  BY <1>1, ClearsKept
<1>6. /\ StoredEmpty => StoredEmpty'
      /\ \A q \in Proc : ClearQueued(q) => ClearQueued(q)' \/ StoredEmpty'
      /\ token' \in {token, None} /\ metadata' \in {metadata, None}
  BY <1>2, Zenon DEF StoredEmpty, NoneBegun, ClearQueued
<1> QED
  BY <1>1, <1>2, <1>3, <1>4, <1>5, <1>6, LocksMoves

\* A lock begins.
LEMMA LocksForget ==
    ASSUME Base, Locks, NEW p \in Proc, Forget(p)
    PROVE  Locks'
<1>0. /\ At(p, "clear token") /\ LoggingIn \subseteq {p} /\ clearing' = TRUE /\ token' = None
      /\ UNCHANGED <<saved, locked, metadata, stored, queue>>
  BY DEF Forget, cacheVars
<1>1. /\ Moves(p) /\ handler'[p].todo = Rest(p)
      /\ \A q \in Proc : "clears" \notin handler'[q].fresh
  BY BaseParts, ForgetMoves
<1>2. Handlers /\ Handlers' /\ \A q \in Proc \ {p} : Like(handler'[q], handler[q])
  BY <1>1, BaseParts, Zenon DEF Moves
<1>3. \A q \in Proc \ {p} : \A label, n : Soon(q, label, n)' <=> Soon(q, label, n)
  BY <1>2, LikeSoon, Zenon
<1>4. Soon(p, "cleared", 8)'
  <2>1. 1 \in DOMAIN Todo(p) /\ Todo(p)[1] = "clear token"
    BY <1>0, <1>2, AtPlace, Zenon
  <2>2. After(Todo(p), 1, 8, "cleared")
    BY <1>2, <2>1, HandlerTodo, Zenon DEF Formed, Rules
  <2>3. 9 \in DOMAIN Todo(p) /\ Todo(p)[9] = "cleared"
    BY <2>2, EightPlaces, Zenon DEF After
  <2>4. 8 \in DOMAIN Rest(p) /\ Rest(p)[8] = "cleared"
    BY <1>2, <2>3, EightPlaces, RestPlaces
  <2> QED
    BY <1>1, <2>4, Order, Zenon DEF Soon, Todo
<1>5. \A q \in Proc : ~Soon(q, "use token", 9)
  <2>1. ~Soon(p, "use token", 9)
    BY <1>0, <1>2, FirstOfLogin
  <2>2. \A q \in Proc \ {p} : q \notin LoggingIn
    BY <1>0
  <2> QED
    BY <2>1, <2>2, UsesInLogin, Zenon
<1>6. \A q \in Proc : ~Soon(q, "use token", 9)' /\ ~Soon(q, "use token", 6)'
  <2>1. ~Soon(p, "use token", 9)'
    BY <1>1, <1>2, <1>5, LoginMoves
  <2>2. \A q \in Proc : ~Soon(q, "use token", 9)'
    BY <1>3, <1>5, <2>1, Zenon
  <2>3. ASSUME NEW q \in Proc, Soon(q, "use token", 6)' PROVE Soon(q, "use token", 9)'
    BY <1>2, <2>3, SoonerAfter, Order
  <2> QED
    BY <2>2, <2>3
<1>7. ASSUME NEW q \in Proc
      PROVE  /\ Soon(q, "cleared", 6)' => Soon(q, "cleared", 6)
             /\ Soon(q, "cleared", 4)' => Soon(q, "cleared", 4)
             /\ Soon(q, "cleared", 3)' => Soon(q, "cleared", 3)
  <2>1. ~At(p, "clear metadata") /\ ~At(p, "remove session") /\ ~At(p, "remove local")
    BY <1>0, Zenon DEF At
  <2> QED
    BY <1>1, <1>2, <1>3, <2>1, ClearedMoves, Zenon
<1>8. TokenGone'
  BY <1>0, <1>1 DEF TokenGone
<1>9. AllGone'
  <2>1. AllGone
    BY LocksParts
  <2> QED
    BY <1>0, <2>1, Zenon DEF AllGone, StoredEmpty, NoneBegun
<1>10. ASSUME NEW q \in Proc PROVE GoneBy(q)'
  <2>1. GoneBy(q)
    BY LocksParts
  <2>2. Away'
    BY <1>0 DEF Away
  <2>3. (ClearQueued(q)' <=> ClearQueued(q)) /\ (StoredEmpty' <=> StoredEmpty)
    BY <1>0, Zenon DEF ClearQueued, StoredEmpty, NoneBegun
  <2> QED
    BY <1>0, <1>7, <2>1, <2>2, <2>3, Zenon DEF GoneBy
<1>11. Apart'
  BY <1>4, <1>6, Zenon DEF Apart
<1> QED
  BY <1>8, <1>9, <1>10, <1>11, Zenon DEF Locks

\* A lock ends.
LEMMA LocksCleared ==
    ASSUME Base, Locks, NEW p \in Proc, Cleared(p)
    PROVE  Locks'
<1>0. /\ At(p, "cleared") /\ clearing' = FALSE /\ locked' = TRUE
      /\ UNCHANGED <<token, saved, metadata, stored, queue>>
  BY DEF Cleared, cacheVars
<1>1. Moves(p) /\ Kept(p)
  BY BaseParts, LockMoves
<1>2. Handlers /\ Handlers' /\ \A q \in Proc \ {p} : Like(handler'[q], handler[q])
  BY <1>1, BaseParts, Zenon DEF Moves
<1>3. \A q \in Proc \ {p} : \A label, n : Soon(q, label, n)' <=> Soon(q, label, n)
  BY <1>2, LikeSoon, Zenon
<1>4. /\ Soon(p, "cleared", 8) /\ Soon(p, "cleared", 6)
      /\ Soon(p, "cleared", 4) /\ Soon(p, "cleared", 3)
  <2>1. 1 <= 4 /\ 1 <= 3 /\ 1 <= 6 /\ 1 <= 8 /\ 3 \in Nat /\ 4 \in Nat /\ 6 \in Nat /\ 8 \in Nat
    OBVIOUS
  <2> QED
    BY <1>0, <1>2, <2>1, FirstIsSoon, Zenon
<1>6. Away /\ metadata = None /\ saved["session"] = None /\ saved["local"] = None
  BY <1>4, LocksParts, Zenon DEF GoneBy
<1>7. StoredEmpty
  <2>1. ~ClearQueued(p)
    <3>1. \A i \in DOMAIN queue : At(queue[i].by, "wait")
      BY BaseParts, Zenon DEF Queued
    <3>2. ~At(p, "wait")
      BY <1>0, Zenon DEF At
    <3> QED
      BY <3>1, <3>2, Zenon DEF ClearQueued
  <2>2. ClearQueued(p) \/ StoredEmpty
    BY <1>4, LocksParts, Zenon DEF GoneBy
  <2> QED
    BY <2>1, <2>2
<1>8. TokenGone'
  <2>1. token' = None
    BY <1>0, <1>6, LocksParts, Zenon DEF TokenGone
  <2>2. ASSUME NEW q \in Proc, "clears" \in handler'[q].fresh PROVE handler'[q].token = None
    <3>1. "clears" \in handler[q].fresh => handler[q].token = None
      <4>1. "clears" \in handler[q].fresh => ~clearing /\ (locked => handler[q].token = None)
        BY LocksParts, Zenon DEF TokenGone
      <4> QED
        BY <1>6, <4>1, Zenon DEF Away
    <3>2. CASE q = p
      BY <1>1, <2>2, <3>1, <3>2, IdleIsHandler DEF Kept
    <3>3. CASE q # p
      BY <1>2, <2>2, <3>1, <3>3 DEF Like
    <3> QED
      BY <3>2, <3>3
  <2> QED
    BY <1>0, <2>1, <2>2 DEF TokenGone
<1>9. AllGone'
  <2>1. \A a \in Area : saved[a] = None
    BY <1>6 DEF Area
  <2>2. StoredEmpty'
    BY <1>0, <1>7, Zenon DEF StoredEmpty, NoneBegun
  <2> QED
    BY <1>0, <1>6, <2>1, <2>2, Zenon DEF AllGone
<1>10. Away' /\ StoredEmpty'
  BY <1>0, <1>7, Zenon DEF Away, StoredEmpty, NoneBegun
<1>11. \A q \in Proc : GoneBy(q)'
  BY <1>0, <1>6, <1>10, Zenon DEF GoneBy
<1>12. Apart'
  <2>1. \A q \in Proc : ~Soon(q, "use token", 9)
    BY <1>4, LocksParts, Zenon DEF Apart
  <2>2. ~Soon(p, "use token", 9)'
    BY <1>1, <1>2, <2>1, LoginMoves
  <2>3. \A q \in Proc : ~Soon(q, "use token", 9)'
    BY <1>3, <2>1, <2>2, Zenon
  <2>4. ASSUME NEW q \in Proc, Soon(q, "use token", 6)' PROVE Soon(q, "use token", 9)'
    BY <1>2, <2>4, SoonerAfter, Order
  <2> QED
    BY <1>0, <2>3, <2>4, Zenon DEF Apart
<1> QED
  BY <1>8, <1>9, <1>11, <1>12, Zenon DEF Locks

LEMMA SixPlaces == 1 + 6 = 7 /\ 7 <= 9
  OBVIOUS

\* A login is answered: no lock is under way, and what the last one left gone
\* may come back.
LEMMA LocksLoginAnswered ==
    ASSUME Base, Locks, NEW p \in Proc, LoginAnswered(p)
    PROVE  Locks'
<1>0. At(p, "login") /\ UNCHANGED <<clearing, saved, metadata, stored, queue>>
  BY DEF LoginAnswered, cacheVars
<1>1. /\ Moves(p)
      /\ \/ Kept(p) /\ handler'[p].todo = <<>> /\ UNCHANGED <<token, logins, locked>>
         \/ locked' = FALSE
  <2>1. logins \in Nat /\ logins < MaxToken
    <3>1. logins < MaxToken
      BY <1>0, LoginLeft
    <3>2. logins \in 0 .. MaxToken
      BY BaseParts DEF TokenTypes
    <3> QED
      BY <3>1, <3>2
  <2> QED
    BY <2>1, BaseParts, LoginAnsweredMoves
<1>2. Handlers /\ Handlers' /\ \A q \in Proc \ {p} : Like(handler'[q], handler[q])
  BY <1>1, BaseParts, Zenon DEF Moves
<1>3. \A q \in Proc \ {p} : \A label, n : Soon(q, label, n)' <=> Soon(q, label, n)
  BY <1>2, LikeSoon, Zenon
<1>4. Soon(p, "use token", 9)
  <2>1. 1 \in DOMAIN Todo(p) /\ Todo(p)[1] = "login"
    BY <1>0, <1>2, AtPlace, Zenon
  <2>2. After(Todo(p), 1, 6, "use token")
    BY <1>2, <2>1, HandlerTodo, Zenon DEF Formed, Rules
  <2> QED
    BY <2>2, SixPlaces, Zenon DEF After, Soon
<1>5. ~clearing /\ \A q \in Proc : ~Soon(q, "cleared", 8)
  BY <1>4, LocksParts, Zenon DEF Apart
<1>6. ~clearing' /\ \A q \in Proc : ~Soon(q, "cleared", 8)'
  <2>1. ~At(p, "clear token")
    BY <1>0, Zenon DEF At
  <2>2. ~Soon(p, "cleared", 8)'
    BY <1>1, <1>2, <1>5, <2>1, ClearedMoves
  <2> QED
    BY <1>0, <1>3, <1>5, <2>2, Zenon
<1>7. \A q \in Proc : GoneBy(q)'
  BY <1>2, <1>6, ClearedSooner, Zenon DEF GoneBy
<1>8. CASE Kept(p) /\ handler'[p].todo = <<>> /\ UNCHANGED <<token, logins, locked>>
  <2>1. TokenGone'
    <3>1. Away' <=> Away
      BY <1>0, <1>8 DEF Away
    <3>2. ASSUME NEW q \in Proc, "clears" \in handler'[q].fresh PROVE locked => handler'[q].token = None
      <4>1. CASE q = p
        BY <1>8, <3>2, <4>1, ClearsKept
      <4>2. CASE q # p
        <5>1. "clears" \in handler[q].fresh /\ handler'[q].token = handler[q].token
          BY <1>2, <3>2, <4>2 DEF Like
        <5> QED
          BY <5>1, LocksParts, Zenon DEF TokenGone
      <4> QED
        BY <4>1, <4>2
    <3>3. Away => token' = None
      BY <1>8, LocksParts DEF TokenGone
    <3> QED
      BY <1>6, <1>8, <3>1, <3>2, <3>3 DEF TokenGone
  <2>2. AllGone'
    BY <1>0, <1>8, LocksParts, Zenon DEF AllGone, StoredEmpty, NoneBegun
  <2>3. Apart'
    <3>1. ASSUME NEW q \in Proc, Soon(q, "use token", 6)' PROVE ~locked'
      <4>1. q # p
        BY <1>8, <3>1, EmptySeq, Zenon DEF Soon, Todo
      <4>2. Soon(q, "use token", 6)
        BY <1>3, <3>1, <4>1, Zenon
      <4> QED
        BY <1>8, <4>2, LocksParts, Zenon DEF Apart
    <3> QED
      BY <1>6, <3>1, Zenon DEF Apart
  <2> QED
    BY <1>7, <2>1, <2>2, <2>3, Zenon DEF Locks
<1>9. CASE locked' = FALSE
  <2>1. TokenGone' /\ AllGone' /\ Apart'
    BY <1>6, <1>9, Zenon DEF TokenGone, AllGone, Apart, Away
  <2> QED
    BY <1>7, <2>1, Zenon DEF Locks
<1> QED
  BY <1>1, <1>8, <1>9

\* The queue of storage operations goes on: a write that begins finds a token.
LEMMA LocksQueueWorks ==
    ASSUME Base, Locks, QueueWorks
    PROVE  Locks'
<1>0. queue # <<>> /\ UNCHANGED <<tokenVars, metadata, handler>>
  BY QueueSteps
<1>1. UNCHANGED <<token, clearing, locked, saved>>
  BY <1>0 DEF tokenVars
<1>2. Handlers' /\ \A q \in Proc : Like(handler'[q], handler[q])
  BY <1>0, BaseParts, Zenon DEF Handlers, Todo, Idle, Like
<1>3. Queued /\ queue \in Seq(Operation)
  BY BaseParts, Zenon DEF Queued
<1>4. Head(queue) = queue[1] /\ 1 \in DOMAIN queue
  BY <1>0, <1>3, HeadOperation
<1>5. CASE queue' = Tail(queue)
  <2>1. NoneBegun'
    BY <1>0, <1>3, <1>5, QueuedTail, Zenon DEF NoneBegun
  <2>2. \/ Head(queue).kind = "clear" /\ stored' = None
        \/ Head(queue).kind # "clear" /\ (stored' = stored \/ Head(queue).begun)
    BY QueueSteps
  <2>3. StoredEmpty => StoredEmpty'
    BY <1>4, <2>1, <2>2, Zenon DEF StoredEmpty, NoneBegun
  <2>4. ASSUME NEW q \in Proc, ClearQueued(q) PROVE ClearQueued(q)' \/ StoredEmpty'
    <3>1. PICK i \in DOMAIN queue : queue[i].by = q /\ queue[i].kind = "clear"
      BY <2>4, Zenon DEF ClearQueued
    <3>2. CASE i = 1
      <4>1. Head(queue).kind = "clear"
        BY <1>4, <3>1, <3>2
      <4>2. stored' = None
        BY <2>2, <4>1
      <4> QED
        BY <2>1, <4>2, Zenon DEF StoredEmpty
    <3>3. CASE i # 1
      <4>1. i - 1 \in DOMAIN Tail(queue) /\ Tail(queue)[i - 1] = queue[i]
        BY <1>0, <1>3, <3>3, QueueTailPlaces
      <4> QED
        BY <1>5, <3>1, <4>1, Zenon DEF ClearQueued
    <3> QED
      BY <3>2, <3>3
  <2>5. /\ token' \in {token, None} /\ metadata' \in {metadata, None}
        /\ \A a \in Area : saved'[a] \in {saved[a], None}
    BY <1>0, <1>1
  <2> QED
    BY <1>1, <1>2, <2>3, <2>4, <2>5, LocksLike
<1>6. CASE Current(Head(queue).by)
  <2>1. ~Away
    BY <1>6, TokenMeansOpen DEF Current
  <2> QED
    BY <1>1, <1>2, <2>1, LocksLike
<1> QED
  BY <1>5, <1>6, QueueSteps

\* Nothing that a lock empties changes.
LEMMA SameStores ==
    ASSUME token' \in {token, None}, UNCHANGED <<saved, metadata, stored, queue>>
    PROVE  /\ token' \in {token, None} /\ metadata' \in {metadata, None}
           /\ \A a \in Area : saved'[a] \in {saved[a], None}
           /\ StoredEmpty => StoredEmpty'
           /\ \A q \in Proc : ClearQueued(q) => ClearQueued(q)' \/ StoredEmpty'
<1>1. /\ metadata' \in {metadata, None}
      /\ \A a \in Area : saved'[a] \in {saved[a], None}
  OBVIOUS
<1>2. /\ StoredEmpty => StoredEmpty'
      /\ \A q \in Proc : ClearQueued(q) => ClearQueued(q)' \/ StoredEmpty'
  BY Zenon DEF StoredEmpty, NoneBegun, ClearQueued
<1> QED
  BY <1>1, <1>2

LEMMA LocksElsewhere ==
    ASSUME Base, Locks,
           \/ Elapse \/ OutsideChange \/ (\E m \in Mode : ChangeMode(m)) \/ UNCHANGED vars
    PROVE  Locks'
<1>1. UNCHANGED <<tokenVars, metadata, stored, queue>>
  BY DEF Elapse, OutsideChange, ChangeMode, vars, cacheVars
<1>2. token' \in {token, None} /\ UNCHANGED <<clearing, locked, saved, metadata, stored, queue>>
  BY <1>1 DEF tokenVars
<1>3. Handlers' /\ \A q \in Proc : Like(handler'[q], handler[q])
  <2>1. CASE Elapse
    BY <2>1, BaseParts, ElapseLike
  <2>2. CASE OutsideChange \/ (\E m \in Mode : ChangeMode(m)) \/ UNCHANGED vars
    <3>1. handler' = handler
      BY <2>2 DEF OutsideChange, ChangeMode, vars
    <3> QED
      BY <3>1, BaseParts, Zenon DEF Handlers, Todo, Idle, Like
  <2> QED
    BY <2>1, <2>2
<1> QED
  BY <1>2, <1>3, SameStores, LocksLike

\* A handler begins that does not log in.
LEMMA LocksStart ==
    ASSUME Base, Locks, NEW p \in Proc,
           \/ Messages(p) \/ ModeChanged(p) \/ AlarmFires(p) \/ (\E t \in Token : TokenReplaced(p, t))
    PROVE  Locks'
<1>1. Begins(p) /\ handler'[p].kind # "login"
  BY BaseParts, MessagesBegin, LocksBegin, ReplacedBegins
<1>2. token' \in {token, None} /\ UNCHANGED <<clearing, locked, saved, metadata, stored, queue>>
  <2>1. CASE Messages(p) \/ ModeChanged(p) \/ AlarmFires(p)
    BY <2>1 DEF Messages, ModeChanged, AlarmFires, tokenVars, cacheVars
  <2>2. CASE \E t \in Token : TokenReplaced(p, t)
    BY <2>2 DEF TokenReplaced, cacheVars
  <2> QED
    BY <2>1, <2>2
<1>3. \A n : ~Soon(p, "use token", n)'
  BY <1>1, Zenon DEF Begins, Soon, Todo
<1>4. \A q \in Proc \ {p} : Soon(q, "use token", 9)' <=> Soon(q, "use token", 9)
  BY <1>1, LikeSoon, Zenon DEF Begins
<1>5. /\ \A q \in Proc : Soon(q, "use token", 9)' =>
            Soon(q, "use token", 9) \/ (~clearing /\ \A r \in Proc : ~Soon(r, "cleared", 8))
      /\ ~Soon(p, "use token", 6)'
  BY <1>3, <1>4, Zenon
<1> QED
  BY <1>1, <1>2, <1>5, SameStores, LocksBegins

\* A login begins when no lock is under way.
LEMMA LocksStartLogin ==
    ASSUME Base, Locks, NEW p \in Proc, StartLogin(p)
    PROVE  Locks'
<1>1. Begins(p) /\ handler'[p].todo = Login
  BY BaseParts, LoginBegins
<1>2. token' \in {token, None} /\ UNCHANGED <<clearing, locked, saved, metadata, stored, queue>>
  BY DEF StartLogin, tokenVars, cacheVars
<1>3. \A r \in Proc : ~Soon(r, "cleared", 8)
  <2>1. \A r \in Proc : \A i \in DOMAIN handler[r].todo : handler[r].todo[i] \notin {"clear token", "cleared"}
    BY DEF StartLogin, Locking
  <2>2. \A r \in Proc : \A i \in DOMAIN handler[r].todo : handler[r].todo[i] # "cleared"
    BY <2>1, Zenon
  <2> QED
    BY <2>2, Zenon DEF Soon, Todo
<1>4. ~clearing
  BY <1>3, LocksParts, Zenon DEF Apart
<1>5. ~Soon(p, "use token", 6)'
  <2>1. \A i \in DOMAIN Login : i <= 6 => i = 1 \/ i = 2 \/ i = 3 \/ i = 4 \/ i = 5 \/ i = 6
    <3>1. Login \in Seq(Label) /\ Len(Login) = 11
      BY IsLogin, Zenon
    <3> QED
      BY <3>1
  <2>2. \A i \in DOMAIN Login : i <= 6 => Login[i] # "use token"
    BY <2>1, IsLogin, Zenon
  <2> QED
    BY <1>1, <2>2, Zenon DEF Soon, Todo
<1> QED
  BY <1>1, <1>2, <1>3, <1>4, <1>5, SameStores, LocksBegins

LEMMA NothingSoon ==
    ASSUME NEW p, handler'[p].todo = <<>>
    PROVE  \A label, n : ~Soon(p, label, n)'
  BY EmptySeq, Zenon DEF Soon, Todo

LEMMA LocksRestart ==
    ASSUME Base, Locks, NEW p \in Proc, Restart(p)
    PROVE  Locks'
<1>0. /\ token' = None /\ clearing' = FALSE /\ metadata' = None /\ queue' = <<>> /\ UNCHANGED locked
      /\ stored' \in {stored, None} /\ saved' \in {saved, [saved EXCEPT !["session"] = None]}
  BY DEF Restart
<1>1. /\ Handlers'
      /\ \A q \in Proc \ {p} : handler'[q] = IdleHandler
      /\ Starting(handler'[p].todo) /\ handler'[p].fresh = {}
  BY BaseParts, RestartBegins
<1>2. \A q \in Proc : /\ ~Soon(q, "cleared", 8)' /\ ~Soon(q, "cleared", 6)'
                      /\ ~Soon(q, "cleared", 4)' /\ ~Soon(q, "cleared", 3)'
                      /\ ~Soon(q, "use token", 9)' /\ ~Soon(q, "use token", 6)'
  <2>1. \A q \in Proc \ {p} : \A label, n : ~Soon(q, label, n)'
    BY <1>1, IdleIsHandler, NothingSoon, Zenon
  <2>2. /\ ~Soon(p, "cleared", 8)' /\ ~Soon(p, "cleared", 6)'
        /\ ~Soon(p, "cleared", 4)' /\ ~Soon(p, "cleared", 3)'
    BY <1>1, FreeNotSoon, Order, Zenon DEF Starting
  <2>3. ~Soon(p, "use token", 9)' /\ ~Soon(p, "use token", 6)'
    BY <1>1, Zenon DEF Starting, Soon, Todo
  <2> QED
    BY <2>1, <2>2, <2>3, Zenon
<1>3. TokenGone'
  <2>1. \A q \in Proc : "clears" \notin handler'[q].fresh
    BY <1>1, IdleIsHandler
  <2> QED
    BY <1>0, <2>1, Zenon DEF TokenGone
<1>4. AllGone'
  <2>1. NoneBegun'
    BY <1>0, EmptySeq, Zenon DEF NoneBegun
  <2>2. ASSUME locked PROVE stored' = None /\ \A a \in Area : saved'[a] = None
    <3>1. stored = None /\ \A a \in Area : saved[a] = None
      BY <2>2, LocksParts, Zenon DEF AllGone, StoredEmpty
    <3>2. saved \in [Area -> Maybe(Token)] /\ "session" \in Area
      BY BaseParts DEF TokenTypes, Area
    <3> QED
      BY <1>0, <3>1, <3>2
  <2> QED
    BY <1>0, <2>1, <2>2 DEF AllGone, StoredEmpty
<1>5. (\A q \in Proc : GoneBy(q)') /\ Apart'
  BY <1>0, <1>2, Zenon DEF GoneBy, Apart
<1> QED
  BY <1>3, <1>4, <1>5, Zenon DEF Locks

LEMMA LocksStep ==
    ASSUME Base, Locks, NEW p \in Proc, Step(p)
    PROVE  Locks'
<1>1. ClearAlarm(p) => At(p, "clear alarm") \/ At(p, "unset alarm")
  BY DEF ClearAlarm
<1> QED
  BY <1>1, LocksReads, LocksGoOn, LocksLoads, LocksSetToken, LocksUseToken, LocksLookUp, LocksReceives,
     LocksClearMetadataNow, LocksRemove, LocksForget, LocksCleared, LocksLoginAnswered, Zenon DEF Step

LEMMA LocksNext ==
    ASSUME Base, Locks, [Next]_vars
    PROVE  Locks'
  BY LocksStep, LocksQueueWorks, LocksElsewhere, LocksStart, LocksStartLogin, LocksRestart, Zenon
     DEF Next, Work

LEMMA LocksInit == Init => Locks
<1> SUFFICES ASSUME Init PROVE Locks
  OBVIOUS
<1>0. /\ handler = [p \in Proc |-> IdleHandler] /\ token = None
      /\ clearing = FALSE /\ locked = FALSE
  BY DEF Init
<1>1. \A p \in Proc : handler[p].todo = <<>> /\ handler[p].fresh = {}
  BY <1>0, IdleIsHandler
<1>2. \A p \in Proc : \A label, n : ~Soon(p, label, n)
  BY <1>1, EmptySeq, Zenon DEF Soon, Todo
<1>3. \A p \in Proc : "clears" \notin handler[p].fresh
  BY <1>1
<1> QED
  BY <1>0, <1>2, <1>3, Zenon DEF Locks, TokenGone, AllGone, GoneBy, Apart

LEMMA LocksEmpty == Locks => LockedIsEmpty
  BY Zenon DEF Locks, TokenGone, AllGone, Away, StoredEmpty, LockedIsEmpty

\* In every state where a lock has ended and no login been answered since, no
\* token and no metadata is left, in memory or in either storage: whatever
\* handlers, loads, storage writes and other locks were under way when it began
\* (clearToken).
THEOREM LockLeavesNothing == Spec => []LockedIsEmpty
<1>1. Init => Base /\ Locks
  BY BaseInit, LocksInit
<1>2. Base /\ Locks /\ [Next]_vars => (Base /\ Locks)'
  BY BaseNext, LocksNext
<1>3. Base /\ Locks => LockedIsEmpty
  BY LocksEmpty
<1> QED
  BY <1>1, <1>2, <1>3, PTL DEF Spec

(***************************************************************************)
(* Metadata                                                                *)
(***************************************************************************)
\* Handler p knows of a change that it is about to announce, and has cleared the
\* metadata since.
Changed(p) == Soon(p, "mutated", 2) /\ handler[p].version # None

\* A record of version v is as new as every change that was announced, or is
\* about to be; but for those whose handler has yet to clear the storage.
AtLeast(v) == own <= v /\ \A p \in Proc : Changed(p) => handler[p].version <= v
ButFor(v) == own <= v /\ \A p \in Proc : Changed(p) => ClearQueued(p) \/ handler[p].version <= v

Fresh(p) == "metadata" \in handler[p].fresh

MemoryNew == metadata # None => AtLeast(metadata.version)
StorageNew == stored # None => ButFor(stored.version)
BegunNew == \A i \in DOMAIN queue : queue[i].begun => ButFor(queue[i].record.version)
WritesNew ==
    \A i \in DOMAIN queue : queue[i].kind = "write" /\ Fresh(queue[i].by) => AtLeast(queue[i].record.version)
\* What asked since the last clear comes after it in the queue.
AfterClears ==
    \A i \in DOMAIN queue : queue[i].kind = "clear" =>
        \A q \in Proc : Fresh(q) => \E j \in DOMAIN queue : i < j /\ queue[j].by = q
AnswersNew == \A q \in Proc : At(q, "receive") /\ Fresh(q) => AtLeast(handler[q].version)

News == MemoryNew /\ StorageNew /\ BegunNew /\ WritesNew /\ AfterClears /\ AnswersNew

LEMMA NewsParts ==
    ASSUME News
    PROVE  MemoryNew /\ StorageNew /\ BegunNew /\ WritesNew /\ AfterClears /\ AnswersNew
  BY Zenon DEF News

LEMMA TwoPlaces == \A c \in Nat : c >= 1 /\ c <= 2 => c = 1 \/ (c > 1 /\ c - 1 = 1)
  OBVIOUS

LEMMA FirstOfChange ==
    ASSUME Handlers, NEW p \in Proc, Soon(p, "mutated", 2)
    PROVE  At(p, "mutated") \/ At(p, "wait")
<1>1. PICK c \in DOMAIN Todo(p) : c <= 2 /\ Todo(p)[c] = "mutated"
  BY Zenon DEF Soon
<1>2. c \in Nat /\ c >= 1
  BY <1>1, PlaceIsNat, Zenon
<1>3. EndsChange(Todo(p), c)
  BY <1>1, HandlerTodo, Zenon DEF Formed, Rules
<1>4. 1 \in DOMAIN Todo(p)
  <2>1. Todo(p) # <<>>
    BY <1>1, EmptySeq, Zenon
  <2>2. Todo(p) \in Seq(Label)
    BY HandlerTodo
  <2> QED
    BY <2>1, <2>2
<1>5. Todo(p)[1] = "mutated" \/ Todo(p)[1] = "wait"
  BY <1>1, <1>2, <1>3, TwoPlaces, Zenon DEF EndsChange, Before
<1> QED
  BY <1>4, <1>5, AtPlace, Zenon

\* No step but the clearing of metadata makes a handler know of a change.
LEMMA ChangedMoves ==
    ASSUME Handlers, NEW p \in Proc, Moves(p), Kept(p) \/ (~At(p, "mutated") /\ ~At(p, "wait"))
    PROVE  \A q \in Proc :
              Changed(q)' => \/ Changed(q) /\ handler'[q].version = handler[q].version
                             \/ q = p /\ At(p, "clear metadata")
<1>0. \A q \in Proc \ {p} : Like(handler'[q], handler[q])
  BY Zenon DEF Moves
<1>1. ASSUME NEW q \in Proc, q # p, Changed(q)' PROVE Changed(q) /\ handler'[q].version = handler[q].version
  <2>1. Like(handler'[q], handler[q])
    BY <1>0, <1>1
  <2>2. Soon(q, "mutated", 2)' <=> Soon(q, "mutated", 2)
    BY <2>1, LikeSoon, Zenon
  <2>3. handler'[q].version = handler[q].version
    BY <2>1, Zenon DEF Like
  <2> QED
    BY <1>1, <2>2, <2>3, Zenon DEF Changed
<1>2. ASSUME Changed(p)', ~At(p, "clear metadata") PROVE Changed(p) /\ handler'[p].version = handler[p].version
  <2>1. Soon(p, "mutated", 2)' /\ handler'[p].version # None
    BY <1>2, Zenon DEF Changed
  <2>2. Soon(p, "mutated", 2)
    BY <1>2, <2>1, ChangeMoves
  <2>3. Kept(p)
    BY <2>2, FirstOfChange, Zenon
  <2>4. handler'[p].version = handler[p].version
    BY <2>1, <2>3, IdleIsHandler, Zenon DEF Kept
  <2> QED
    BY <2>1, <2>2, <2>4, Zenon DEF Changed
<1> QED
  BY <1>1, <1>2, Zenon

\* An answer is heard of only after the server has served it.
LEMMA ReceivesNext ==
    ASSUME Handlers, NEW p \in Proc, Moves(p), ~At(p, "serve")
    PROVE  ~At(p, "receive")'
<1>0. Handlers'
  BY Zenon DEF Moves
<1>1. SUFFICES ASSUME At(p, "receive")' PROVE FALSE
  OBVIOUS
<1>2. 1 \in DOMAIN handler'[p].todo /\ handler'[p].todo[1] = "receive"
  <2>1. handler'[p].todo \in Seq(Label)
    BY <1>0, HandlerFields DEF Handlers
  <2>2. handler'[p].todo # <<>> /\ Head(handler'[p].todo) = "receive"
    BY <1>1, Zenon DEF At
  <2> QED
    BY <2>1, <2>2
<1>3. ~Free(handler'[p].todo)
  <2>1. ~(1 > 1)
    OBVIOUS
  <2> QED
    BY <1>2, <2>1, Zenon DEF Free, CalmAt
<1>4. 1 + 1 \in DOMAIN Todo(p) /\ Todo(p)[1 + 1] = "receive"
  BY <1>2, <1>3, MovesPlaces, Zenon
<1>5. Before(Todo(p), 1 + 1, 1, "serve")
  BY <1>4, HandlerTodo, Zenon DEF Formed, Rules
<1>6. 1 \in Nat /\ 1 + 1 \in Nat
  OBVIOUS
<1>7. At(p, "serve")
  BY <1>4, <1>5, <1>6, NextIs
<1> QED
  BY <1>7

LEMMA ReceivesMoves ==
    ASSUME Handlers, NEW p \in Proc, Moves(p), ~At(p, "serve")
    PROVE  \A q \in Proc : At(q, "receive")' =>
              q # p /\ At(q, "receive") /\ handler'[q].version = handler[q].version
<1>1. ~At(p, "receive")'
  BY ReceivesNext
<1>2. \A q \in Proc \ {p} : Like(handler'[q], handler[q])
  BY Zenon DEF Moves
<1>3. ASSUME NEW q \in Proc, q # p, At(q, "receive")'
      PROVE  At(q, "receive") /\ handler'[q].version = handler[q].version
  <2>1. Like(handler'[q], handler[q])
    BY <1>2, <1>3
  <2>2. At(q, "receive")
    BY <1>3, <2>1, LikeAt
  <2> QED
    BY <2>1, <2>2, Zenon DEF Like
<1> QED
  BY <1>1, <1>3, Zenon

\* What is new enough stays so while no handler learns of a change.
NoneLearns ==
    /\ own' = own
    /\ \A q \in Proc : Changed(q)' => Changed(q) /\ handler'[q].version = handler[q].version

LEMMA StaysNew ==
    ASSUME NoneLearns
    PROVE  /\ \A v : AtLeast(v) => AtLeast(v)'
           /\ (\A q \in Proc : ClearQueued(q) => ClearQueued(q)') => \A v : ButFor(v) => ButFor(v)'
<1>1. ASSUME NEW v, AtLeast(v) PROVE AtLeast(v)'
  BY <1>1, Zenon DEF AtLeast, NoneLearns
<1>2. ASSUME \A q \in Proc : ClearQueued(q) => ClearQueued(q)', NEW v, ButFor(v) PROVE ButFor(v)'
  BY <1>2, Zenon DEF ButFor, NoneLearns
<1> QED
  BY <1>1, <1>2, Zenon

LEMMA SameVersion == \A v : AtLeast(v) => ButFor(v)
  BY Zenon DEF AtLeast, ButFor

\* A step that touches neither the storage nor its queue.
LEMMA NewsKept ==
    ASSUME Queued, News, NoneLearns, UNCHANGED <<stored, queue>>,
           metadata' = None \/ metadata' = metadata \/ AtLeast(metadata'.version),
           \A q \in Proc : Fresh(q)' => Fresh(q),
           \A q \in Proc : At(q, "receive")' /\ Fresh(q)' =>
              \/ At(q, "receive") /\ handler'[q].version = handler[q].version
              \/ AtLeast(handler'[q].version)
    PROVE  News'
<1>0. MemoryNew /\ StorageNew /\ BegunNew /\ WritesNew /\ AfterClears /\ AnswersNew
  BY NewsParts
<1>1. \A q \in Proc : ClearQueued(q) => ClearQueued(q)'
  BY Zenon DEF ClearQueued
<1>2. (\A v : AtLeast(v) => AtLeast(v)') /\ (\A v : ButFor(v) => ButFor(v)')
  BY <1>1, StaysNew, Zenon
<1>3. MemoryNew'
  <2>1. metadata' # None => AtLeast(metadata'.version)
    BY <1>0 DEF MemoryNew
  <2> QED
    BY <1>2, <2>1, Zenon DEF MemoryNew
<1>4. StorageNew'
  BY <1>0, <1>2, Zenon DEF StorageNew
<1>5. BegunNew'
  BY <1>0, <1>2, Zenon DEF BegunNew
<1>6. WritesNew'
  <2>1. \A i \in DOMAIN queue : queue[i].by \in Proc
    BY QueuePlaces
  <2>2. \A i \in DOMAIN queue : Fresh(queue[i].by)' => Fresh(queue[i].by)
    BY <2>1, Zenon DEF Fresh
  <2> QED
    BY <1>0, <1>2, <2>2, Zenon DEF WritesNew
<1>8. AfterClears'
  BY <1>0, Zenon DEF AfterClears
<1>9. AnswersNew'
  BY <1>0, <1>2, Zenon DEF AnswersNew
<1> QED
  BY <1>3, <1>4, <1>5, <1>6, <1>8, <1>9, Zenon DEF News

LEMMA NewsMoves ==
    ASSUME Base, News, NEW p \in Proc, Moves(p), Kept(p) \/ (~At(p, "mutated") /\ ~At(p, "wait")),
           ~At(p, "clear metadata"), ~At(p, "serve"), UNCHANGED <<own, stored, queue>>,
           metadata' = None \/ metadata' = metadata \/ AtLeast(metadata'.version),
           Fresh(p)' => Fresh(p)
    PROVE  News'
<1>0. Handlers /\ Queued
  BY BaseParts
<1>1. NoneLearns
  BY <1>0, ChangedMoves, Zenon DEF NoneLearns
<1>2. \A q \in Proc : Fresh(q)' => Fresh(q)
  <2>1. \A q \in Proc \ {p} : Like(handler'[q], handler[q])
    BY Zenon DEF Moves
  <2>2. \A q \in Proc \ {p} : Fresh(q)' => Fresh(q)
    BY <2>1 DEF Fresh, Like
  <2> QED
    BY <2>2, Zenon
<1>3. \A q \in Proc : At(q, "receive")' => At(q, "receive") /\ handler'[q].version = handler[q].version
  BY <1>0, ReceivesMoves, Zenon
<1> QED
  BY <1>0, <1>1, <1>2, <1>3, NewsKept

LEMMA KeptFresh ==
    ASSUME NEW p, Kept(p)
    PROVE  Fresh(p)' => Fresh(p)
  BY IdleIsHandler DEF Kept, Fresh

\* The steps that have nothing to do with metadata.
LEMMA NewsQuiet ==
    ASSUME Base, News, NEW p \in Proc,
           \/ GetMode(p) \/ LoadBegins(p) \/ ReadSaved(p) \/ ReadDeadline(p) \/ SetToken(p)
           \/ RemoveDeadline(p) \/ ClearAlarm(p) \/ CreateAlarm(p) \/ SetDeadline(p) \/ MinutesChanged(p)
           \/ NewDeadline(p) \/ Forget(p) \/ ClearPopup(p) \/ Remove(p) \/ Cleared(p)
           \/ LoginSent(p) \/ LoginAnswered(p) \/ SaveToken(p) \/ UseToken(p) \/ Validate(p)
           \/ Waited(p) \/ Send(p) \/ Apply(p) \/ Answered(p)
    PROVE  News'
<1>0. Handlers /\ vault \in Nat /\ logins \in Nat
  <2>1. Handlers /\ vault \in Nat /\ logins \in 0 .. MaxToken
    BY BaseParts DEF TokenTypes
  <2> QED
    BY <2>1
<1>1. UNCHANGED <<own, metadata, stored, queue>>
  BY DEF GetMode, LoadBegins, ReadSaved, ReadDeadline, SetToken, RemoveDeadline, ClearAlarm, CreateAlarm,
         SetDeadline, MinutesChanged, NewDeadline, Forget, ClearPopup, Remove, Cleared, LoginSent,
         LoginAnswered, SaveToken, UseToken, Validate, Waited, Send, Apply, Answered, cacheVars, serverVars
<1>2. \E label \in {"get mode", "load", "read session", "read local", "read deadline", "set token",
                    "remove deadline", "clear alarm", "unset alarm", "create alarm", "set deadline",
                    "minutes", "new deadline", "clear token", "clear popup", "remove session",
                    "remove local", "cleared", "log in", "login", "save token", "use token", "validate",
                    "wait", "send", "apply", "answer"} : At(p, label)
  BY DEF GetMode, LoadBegins, ReadSaved, ReadDeadline, SetToken, RemoveDeadline, ClearAlarm, CreateAlarm,
         SetDeadline, MinutesChanged, NewDeadline, Forget, ClearPopup, Remove, Cleared, LoginSent,
         LoginAnswered, SaveToken, UseToken, Validate, Waited, Send, Apply, Answered
<1>3. ~At(p, "clear metadata") /\ ~At(p, "serve")
  BY <1>2, Zenon DEF At
<1>4. /\ Moves(p)
      /\ \/ Kept(p)
         \/ /\ ~At(p, "mutated") /\ ~At(p, "wait")
            /\ Fresh(p)' => Fresh(p)
  <2>1. CASE \/ GetMode(p) \/ ReadDeadline(p) \/ SetToken(p)
             \/ RemoveDeadline(p) \/ ClearAlarm(p) \/ CreateAlarm(p) \/ SetDeadline(p)
             \/ MinutesChanged(p) \/ NewDeadline(p)
    BY <1>0, <2>1, BaseParts, GetModeMoves, ReadDeadlineMoves, SetTokenMoves, DeadlineMoves
       DEF ModeTypes, LockTypes
  <2>2. CASE Forget(p) \/ ClearPopup(p) \/ Remove(p) \/ Cleared(p) \/ SaveToken(p) \/ Waited(p)
    BY <1>0, <2>2, ForgetMoves, LockMoves
  <2>3. CASE UseToken(p) \/ Validate(p)
    BY <1>0, <2>3, UseTokenMoves, ValidateMoves
  <2>4. CASE LoadBegins(p) \/ ReadSaved(p)
    <3>1. ~At(p, "mutated") /\ ~At(p, "wait")
      BY <2>4, Zenon DEF LoadBegins, ReadSaved, At
    <3>2. /\ Moves(p)
          /\ \/ Kept(p)
             \/ handler'[p].fresh \subseteq handler[p].fresh \cup {"clears"}
      <4>1. CASE LoadBegins(p)
        BY <1>0, <4>1, LoadBeginsMoves
      <4>2. CASE ReadSaved(p)
        <5>1. saved \in [Area -> Maybe(Token)]
          BY BaseParts DEF TokenTypes
        <5>2. Moves(p) /\ (handler'[p] = IdleHandler \/ handler'[p].fresh = handler[p].fresh)
          BY <1>0, <4>2, <5>1, ReadSavedMoves
        <5> QED
          BY <5>2 DEF Kept
      <4> QED
        BY <2>4, <4>1, <4>2
    <3> QED
      BY <3>1, <3>2 DEF Fresh
  <2>5. CASE LoginSent(p) \/ Send(p)
    <3>1. ~At(p, "mutated") /\ ~At(p, "wait")
      BY <2>5, Zenon DEF LoginSent, Send, At
    <3>2. Moves(p) /\ (Kept(p) \/ handler'[p].fresh = {"token"})
      BY <1>0, <2>5, LoginSentMoves, SendMoves DEF Kept
    <3> QED
      BY <3>1, <3>2 DEF Fresh
  <2>6. CASE LoginAnswered(p)
    <3>1. ~At(p, "mutated") /\ ~At(p, "wait") /\ At(p, "login")
      BY <2>6, Zenon DEF LoginAnswered, At
    <3>2. Moves(p) /\ (Kept(p) \/ handler'[p].fresh \subseteq handler[p].fresh)
      BY <1>0, <2>6, <3>1, LoginLeft, LoginAnsweredMoves DEF Kept
    <3> QED
      BY <3>1, <3>2 DEF Fresh
  <2>7. CASE Apply(p) \/ Answered(p)
    <3>1. ~At(p, "mutated") /\ ~At(p, "wait")
      BY <2>7, Zenon DEF Apply, Answered, At
    <3>2. Moves(p) /\ (Kept(p) \/ handler'[p].fresh = handler[p].fresh)
      BY <1>0, <2>7, ApplyMoves, AnsweredMoves DEF Kept
    <3> QED
      BY <3>1, <3>2 DEF Fresh
  <2> QED
    BY <2>1, <2>2, <2>3, <2>4, <2>5, <2>6, <2>7
<1>5. Fresh(p)' => Fresh(p)
  BY <1>4, KeptFresh
<1>6. Kept(p) \/ (~At(p, "mutated") /\ ~At(p, "wait"))
  BY <1>4
<1> QED
  BY <1>1, <1>3, <1>4, <1>5, <1>6, NewsMoves

LEMMA NotQueued ==
    ASSUME Queued, NEW p, ~At(p, "wait")
    PROVE  \A i \in DOMAIN queue : queue[i].by # p
  BY Zenon DEF Queued

\* A copy from storage is taken by a handler that no clear has come after.
LEMMA NewsReadStored ==
    ASSUME Base, News, NEW p \in Proc, ReadStored(p)
    PROVE  News'
<1>0. /\ At(p, "read stored") /\ UNCHANGED <<own, stored, queue>>
      /\ \/ Current(p) /\ Usable(stored) /\ metadata' = stored
         \/ metadata' = metadata
  BY DEF ReadStored, cacheVars, serverVars
<1>1. Moves(p) /\ Kept(p)
  BY BaseParts, ReadStoredMoves
<1>2. ~At(p, "clear metadata") /\ ~At(p, "serve") /\ ~At(p, "wait")
  BY <1>0, Zenon DEF At
<1>3. ASSUME Current(p), Usable(stored) PROVE AtLeast(stored.version)
  <2>1. Fresh(p) /\ stored # None
    BY <1>3 DEF Current, Fresh, Usable
  <2>2. ButFor(stored.version)
    BY <2>1, NewsParts, Zenon DEF StorageNew
  <2>3. \A q \in Proc : ~ClearQueued(q)
    <3>1. \A i \in DOMAIN queue : queue[i].by # p
      BY <1>2, BaseParts, NotQueued
    <3>2. \A i \in DOMAIN queue : queue[i].kind # "clear"
      BY <2>1, <3>1, NewsParts, Zenon DEF AfterClears
    <3> QED
      BY <3>2, Zenon DEF ClearQueued
  <2> QED
    BY <2>2, <2>3, Zenon DEF ButFor, AtLeast
<1>4. metadata' = None \/ metadata' = metadata \/ AtLeast(metadata'.version)
  BY <1>0, <1>3
<1>5. Fresh(p)' => Fresh(p)
  BY <1>1, KeptFresh
<1> QED
  BY <1>0, <1>1, <1>2, <1>4, <1>5, NewsMoves

\* What the server serves is as new as any change.
LEMMA NewsServe ==
    ASSUME Base, News, NEW p \in Proc, Serve(p)
    PROVE  News'
<1>0. At(p, "serve") /\ UNCHANGED <<own, vault, metadata, stored, queue>>
  BY DEF Serve, cacheVars, serverVars
<1>1. /\ Handlers /\ Moves(p)
      /\ \/ handler'[p] = IdleHandler
         \/ handler'[p].version = vault /\ handler'[p].fresh = handler[p].fresh
  BY BaseParts, ServeMoves
<1>2. \A q \in Proc \ {p} : Like(handler'[q], handler[q])
  BY <1>1, Zenon DEF Moves
<1>3. NoneLearns
  <2>1. ~At(p, "mutated") /\ ~At(p, "wait") /\ ~At(p, "clear metadata")
    BY <1>0, Zenon DEF At
  <2> QED
    BY <1>0, <1>1, <2>1, ChangedMoves, Zenon DEF NoneLearns
<1>4. AtLeast(vault)
  <2>1. own <= vault /\ vault \in Nat
    BY BaseParts DEF ServerTypes
  <2>2. ASSUME NEW q \in Proc, Changed(q) PROVE handler[q].version <= vault
    <3>1. handler[q].version \in 0 .. vault
      BY <2>2, BaseParts, Zenon DEF Tasks, VersionKnown, Changed
    <3> QED
      BY <2>1, <3>1
  <2> QED
    BY <2>1, <2>2, Zenon DEF AtLeast
<1>5. \A q \in Proc : Fresh(q)' => Fresh(q)
  <2>1. \A q \in Proc \ {p} : Fresh(q)' => Fresh(q)
    BY <1>2 DEF Fresh, Like
  <2>2. Fresh(p)' => Fresh(p)
    BY <1>1, IdleIsHandler DEF Fresh
  <2> QED
    BY <2>1, <2>2, Zenon
<1>6. ASSUME NEW q \in Proc, At(q, "receive")'
      PROVE  \/ At(q, "receive") /\ handler'[q].version = handler[q].version
             \/ AtLeast(handler'[q].version)
  <2>1. CASE q = p
    <3>1. handler'[p] # IdleHandler
      BY <1>6, <2>1, IdleIsHandler, Zenon DEF At
    <3> QED
      BY <1>1, <1>4, <2>1, <3>1, Zenon
  <2>2. CASE q # p
    <3>1. Like(handler'[q], handler[q])
      BY <1>2, <2>2
    <3>2. At(q, "receive")
      BY <1>6, <3>1, LikeAt
    <3> QED
      BY <3>1, <3>2, Zenon DEF Like
  <2> QED
    BY <2>1, <2>2
<1>7. Queued
  BY BaseParts
<1> QED
  BY <1>0, <1>3, <1>5, <1>6, <1>7, NewsKept

\* A change is announced: the handler has cleared the metadata and waited for the
\* storage to follow.
LEMMA NewsMutated ==
    ASSUME Base, News, NEW p \in Proc, Mutated(p)
    PROVE  News'
<1>0. /\ At(p, "mutated") /\ UNCHANGED <<metadata, stored, queue>>
      /\ own' = own \/ (handler[p].version # None /\ own' = handler[p].version)
  BY DEF Mutated, cacheVars
<1>1. Handlers /\ Queued /\ Moves(p) /\ Kept(p)
  BY BaseParts, LockMoves
<1>2. \A q \in Proc \ {p} : Like(handler'[q], handler[q])
  BY <1>1, Zenon DEF Moves
<1>3. ~At(p, "wait") /\ ~At(p, "clear metadata") /\ ~At(p, "serve")
  BY <1>0, Zenon DEF At
<1>4. \A q \in Proc : Changed(q)' => Changed(q) /\ handler'[q].version = handler[q].version
  BY <1>1, <1>3, ChangedMoves, Zenon
<1>5. own' = own \/ (Changed(p) /\ own' = handler[p].version)
  <2>1. Soon(p, "mutated", 2)
    BY <1>0, <1>1, FirstIsSoon, Order
  <2> QED
    BY <1>0, <2>1, Zenon DEF Changed
<1>6. ~ClearQueued(p) /\ \A q \in Proc : ClearQueued(q) => ClearQueued(q)'
  BY <1>0, <1>1, <1>3, NotQueued, Zenon DEF ClearQueued
<1>7. \A v : AtLeast(v) => AtLeast(v)'
  BY <1>4, <1>5, Zenon DEF AtLeast
<1>8. \A v : ButFor(v) => ButFor(v)'
  BY <1>4, <1>5, <1>6, Zenon DEF ButFor
<1>9. \A q \in Proc : Fresh(q)' => Fresh(q)
  <2>1. \A q \in Proc \ {p} : Fresh(q)' => Fresh(q)
    BY <1>2 DEF Fresh, Like
  <2> QED
    BY <1>1, <2>1, KeptFresh, Zenon
<1>10. \A q \in Proc : At(q, "receive")' => At(q, "receive") /\ handler'[q].version = handler[q].version
  BY <1>1, <1>3, ReceivesMoves, Zenon
<1>11. MemoryNew' /\ StorageNew' /\ BegunNew'
  BY <1>0, <1>7, <1>8, NewsParts, Zenon DEF MemoryNew, StorageNew, BegunNew
<1>12. WritesNew'
  <2>1. \A i \in DOMAIN queue : Fresh(queue[i].by)' => Fresh(queue[i].by)
    BY <1>0, <1>1, <1>9, QueuePlaces, Zenon DEF Fresh
  <2> QED
    BY <1>0, <1>7, <2>1, NewsParts, Zenon DEF WritesNew
<1>13. AfterClears' /\ AnswersNew'
  BY <1>0, <1>7, <1>9, <1>10, NewsParts, Zenon DEF AfterClears, AnswersNew
<1> QED
  BY <1>11, <1>12, <1>13, Zenon DEF News

\* A handler clears the metadata, and may know of a change.
LEMMA NewsClearMetadataNow ==
    ASSUME Base, News, NEW p \in Proc, ClearMetadataNow(p)
    PROVE  News'
<1>0. /\ At(p, "clear metadata") /\ metadata' = None /\ UNCHANGED <<own, stored>>
      /\ Enqueue(p, "clear", None)
  BY DEF ClearMetadataNow, Clears, serverVars
<1>1. /\ Handlers /\ Moves(p) /\ Kept(p)
      /\ \A q \in Proc : "metadata" \notin handler'[q].fresh
  BY BaseParts, ClearMetadataNowMoves
<1>2. None \in Maybe(Record)
  BY DEF Maybe
<1>3. PICK n \in Nat :
              /\ n \in DOMAIN queue' /\ n \notin DOMAIN queue /\ \A i \in DOMAIN queue : i < n
              /\ queue'[n].by = p /\ queue'[n].kind = "clear" /\ queue'[n].record = None /\ ~queue'[n].begun
              /\ \A i \in DOMAIN queue : i \in DOMAIN queue' /\ queue'[i] = queue[i]
              /\ \A i \in DOMAIN queue' : i \in DOMAIN queue \/ i = n
  BY <1>0, <1>2, EnqueuePlaces
<1>4. ClearQueued(p)' /\ \A q \in Proc : ClearQueued(q) => ClearQueued(q)'
  BY <1>3, Zenon DEF ClearQueued
<1>5. \A q \in Proc : Changed(q)' => \/ Changed(q) /\ handler'[q].version = handler[q].version
                                     \/ q = p
  BY <1>1, ChangedMoves, Zenon
<1>6. \A v : ButFor(v) => ButFor(v)'
  BY <1>0, <1>4, <1>5, Zenon DEF ButFor
<1>7. \A q \in Proc : ~Fresh(q)'
  BY <1>1, Zenon DEF Fresh
<1>8. MemoryNew' /\ StorageNew'
  BY <1>0, <1>6, NewsParts, Zenon DEF MemoryNew, StorageNew
<1>9. BegunNew'
  BY <1>3, <1>6, NewsParts, Zenon DEF BegunNew
<1>10. WritesNew'
  <2>1. \A i \in DOMAIN queue' : queue'[i].by \in Proc
    BY <1>3, BaseParts, QueuePlaces, Zenon
  <2>2. \A i \in DOMAIN queue' : ~Fresh(queue[i].by)'
    BY <1>1, <2>1, Zenon DEF Fresh
  <2> QED
    BY <2>2, Zenon DEF WritesNew
<1>11. AfterClears' /\ AnswersNew'
  BY <1>7, Zenon DEF AfterClears, AnswersNew
<1> QED
  BY <1>8, <1>9, <1>10, <1>11, Zenon DEF News

\* A handler asks the storage, after every clear that was asked for before.
LEMMA NewsLookUp ==
    ASSUME Base, News, NEW p \in Proc, LookUp(p)
    PROVE  News'
<1>0. At(p, "look up") /\ UNCHANGED <<own, metadata, stored>>
  BY DEF LookUp, serverVars
<1>1. /\ Handlers /\ Queued /\ Moves(p)
      /\ (Kept(p) /\ UNCHANGED queue) \/ Enqueue(p, "read", None)
  BY BaseParts, LookUpMoves
<1>2. ~At(p, "wait") /\ ~At(p, "clear metadata") /\ ~At(p, "serve") /\ ~At(p, "mutated")
  BY <1>0, Zenon DEF At
<1>3. CASE Kept(p) /\ UNCHANGED queue
  <2>1. Fresh(p)' => Fresh(p)
    BY <1>3, KeptFresh
  <2> QED
    BY <1>0, <1>1, <1>2, <1>3, <2>1, NewsMoves
<1>4. CASE Enqueue(p, "read", None)
  <2>1. None \in Maybe(Record)
    BY DEF Maybe
  <2>2. PICK n \in Nat :
              /\ n \in DOMAIN queue' /\ n \notin DOMAIN queue /\ \A i \in DOMAIN queue : i < n
              /\ queue'[n].by = p /\ queue'[n].kind = "read" /\ queue'[n].record = None /\ ~queue'[n].begun
              /\ \A i \in DOMAIN queue : i \in DOMAIN queue' /\ queue'[i] = queue[i]
              /\ \A i \in DOMAIN queue' : i \in DOMAIN queue \/ i = n
    BY <1>4, <2>1, EnqueuePlaces
  <2>3. queue'[n].kind # "clear" /\ queue'[n].kind # "write"
    BY <2>2
  <2>4. NoneLearns
    BY <1>0, <1>1, <1>2, ChangedMoves, Zenon DEF NoneLearns
  <2>5. \A q \in Proc : ClearQueued(q) => ClearQueued(q)'
    BY <2>2, Zenon DEF ClearQueued
  <2>6. (\A v : AtLeast(v) => AtLeast(v)') /\ (\A v : ButFor(v) => ButFor(v)')
    BY <2>4, <2>5, StaysNew, Zenon
  <2>7. \A q \in Proc \ {p} : Fresh(q)' => Fresh(q)
    <3>1. \A q \in Proc \ {p} : Like(handler'[q], handler[q])
      BY <1>1, Zenon DEF Moves
    <3> QED
      BY <3>1 DEF Fresh, Like
  <2>8. MemoryNew' /\ StorageNew' /\ BegunNew'
    BY <1>0, <2>2, <2>6, NewsParts, Zenon DEF MemoryNew, StorageNew, BegunNew
  <2>9. \A i \in DOMAIN queue : queue[i].by \in Proc \ {p}
    <3>1. \A i \in DOMAIN queue : queue[i].by \in Proc
      BY <1>1, QueuePlaces
    <3>2. \A i \in DOMAIN queue : queue[i].by # p
      BY <1>1, <1>2, NotQueued
    <3> QED
      BY <3>1, <3>2
  <2>10. WritesNew'
    <3>1. ASSUME NEW i \in DOMAIN queue', queue'[i].kind = "write", Fresh(queue[i].by)'
          PROVE  AtLeast(queue'[i].record.version)
      <4>1. i \in DOMAIN queue /\ queue'[i] = queue[i]
        BY <2>2, <2>3, <3>1, Zenon
      <4>2. Fresh(queue[i].by)
        BY <2>7, <2>9, <3>1, <4>1, Zenon DEF Fresh
      <4> QED
        BY <3>1, <4>1, <4>2, NewsParts, Zenon DEF WritesNew
    <3> QED
      BY <2>6, <3>1, Zenon DEF WritesNew
  <2>11. AfterClears'
    <3>1. ASSUME NEW i \in DOMAIN queue', queue'[i].kind = "clear", NEW q \in Proc, Fresh(q)'
          PROVE  \E j \in DOMAIN queue' : i < j /\ queue'[j].by = q
      <4>1. i \in DOMAIN queue /\ queue'[i] = queue[i]
        BY <2>2, <2>3, <3>1, Zenon
      <4>2. CASE q = p
        BY <2>2, <4>1, <4>2, Zenon
      <4>3. CASE q # p
        <5>1. Fresh(q)
          BY <2>7, <3>1, <4>3
        <5>2. PICK j \in DOMAIN queue : i < j /\ queue[j].by = q
          BY <3>1, <4>1, <5>1, NewsParts, Zenon DEF AfterClears
        <5> QED
          BY <2>2, <5>2, Zenon
      <4> QED
        BY <4>2, <4>3
    <3> QED
      BY <3>1, Zenon DEF AfterClears
  <2>12. AnswersNew'
    <3>1. \A q \in Proc : At(q, "receive")' =>
             q # p /\ At(q, "receive") /\ handler'[q].version = handler[q].version
      BY <1>1, <1>2, ReceivesMoves, Zenon
    <3>2. \A q \in Proc : q # p => (Fresh(q)' => Fresh(q))
      BY <2>7
    <3> QED
      BY <2>6, <3>1, <3>2, NewsParts, Zenon DEF AnswersNew
  <2> QED
    BY <2>8, <2>10, <2>11, <2>12, Zenon DEF News
<1> QED
  BY <1>1, <1>3, <1>4

\* An answer that nothing has come after goes to memory, and into the queue.
LEMMA NewsReceive ==
    ASSUME Base, News, NEW p \in Proc, Receive(p)
    PROVE  News'
<1>0. /\ At(p, "receive") /\ UNCHANGED <<own, stored>>
      /\ \/ UNCHANGED <<metadata, queue>>
         \/ /\ Current(p)
            /\ metadata' = [token |-> token, version |-> handler[p].version]
            /\ Enqueue(p, "write", [token |-> token, version |-> handler[p].version])
  BY DEF Receive, serverVars
<1>1. Handlers /\ Queued /\ Moves(p) /\ Kept(p)
  BY BaseParts, ReceiveMoves
<1>2. ~At(p, "wait") /\ ~At(p, "clear metadata") /\ ~At(p, "serve") /\ ~At(p, "mutated")
  BY <1>0, Zenon DEF At
<1>3. Fresh(p)' => Fresh(p)
  BY <1>1, KeptFresh
<1>4. CASE UNCHANGED <<metadata, queue>>
  BY <1>0, <1>1, <1>2, <1>3, <1>4, NewsMoves
<1>5. CASE /\ Current(p)
           /\ metadata' = [token |-> token, version |-> handler[p].version]
           /\ Enqueue(p, "write", [token |-> token, version |-> handler[p].version])
  <2> DEFINE record == [token |-> token, version |-> handler[p].version]
  <2>1. record \in Maybe(Record) /\ record.version = handler[p].version
    <3>1. token \in Token
      BY <1>5, BaseParts DEF TokenTypes, Current, Maybe
    <3>2. handler[p].version \in 0 .. vault
      BY <1>0, BaseParts, Zenon DEF Tasks, VersionKnown, HasVersion
    <3>3. handler[p].version \in Version
      <4>1. vault \in 0 .. MaxVersion
        BY BaseParts DEF ServerTypes, Version
      <4>2. MaxVersion \in Nat
        BY ConstantAssumption
      <4> QED
        BY <3>2, <4>1, <4>2 DEF Version
    <3> QED
      BY <3>1, <3>3 DEF Record, Maybe
  <2>2. AtLeast(handler[p].version)
    <3>1. Fresh(p)
      BY <1>5 DEF Current, Fresh
    <3> QED
      BY <1>0, <3>1, NewsParts, Zenon DEF AnswersNew
  <2>3. metadata' = record /\ Enqueue(p, "write", record)
    BY <1>5
  <2> HIDE DEF record
  <2>4. PICK n \in Nat :
              /\ n \in DOMAIN queue' /\ n \notin DOMAIN queue /\ \A i \in DOMAIN queue : i < n
              /\ queue'[n].by = p /\ queue'[n].kind = "write" /\ queue'[n].record = record /\ ~queue'[n].begun
              /\ \A i \in DOMAIN queue : i \in DOMAIN queue' /\ queue'[i] = queue[i]
              /\ \A i \in DOMAIN queue' : i \in DOMAIN queue \/ i = n
    BY <2>1, <2>3, EnqueuePlaces
  <2>5. NoneLearns
    BY <1>0, <1>1, <1>2, ChangedMoves, Zenon DEF NoneLearns
  <2>6. \A q \in Proc : ClearQueued(q) => ClearQueued(q)'
    BY <2>4, Zenon DEF ClearQueued
  <2>7. (\A v : AtLeast(v) => AtLeast(v)') /\ (\A v : ButFor(v) => ButFor(v)')
    BY <2>5, <2>6, StaysNew, Zenon
  <2>8. \A q \in Proc : Fresh(q)' => Fresh(q)
    <3>1. \A q \in Proc \ {p} : Like(handler'[q], handler[q])
      BY <1>1, Zenon DEF Moves
    <3>2. \A q \in Proc \ {p} : Fresh(q)' => Fresh(q)
      BY <3>1 DEF Fresh, Like
    <3> QED
      BY <1>3, <3>2, Zenon
  <2>9. MemoryNew' /\ StorageNew' /\ BegunNew'
    <3>1. AtLeast(metadata'.version)
      BY <2>1, <2>2, <2>3, Zenon
    <3>2. MemoryNew'
      BY <2>7, <3>1, Zenon DEF MemoryNew
    <3>3. StorageNew'
      BY <1>0, <2>7, NewsParts, Zenon DEF StorageNew
    <3>4. BegunNew'
      BY <2>4, <2>7, NewsParts, Zenon DEF BegunNew
    <3> QED
      BY <3>2, <3>3, <3>4
  <2>10. WritesNew'
    <3>1. ASSUME NEW i \in DOMAIN queue', queue'[i].kind = "write", Fresh(queue[i].by)'
          PROVE  AtLeast(queue'[i].record.version)
      <4>1. CASE i \in DOMAIN queue
        <5>1. queue'[i] = queue[i] /\ queue[i].by \in Proc
          BY <1>1, <2>4, <4>1, QueuePlaces, Zenon
        <5>2. Fresh(queue[i].by)
          BY <2>8, <3>1, <5>1, Zenon DEF Fresh
        <5> QED
          BY <3>1, <4>1, <5>1, <5>2, NewsParts, Zenon DEF WritesNew
      <4>2. CASE i = n
        BY <2>1, <2>2, <2>4, <4>2, Zenon
      <4> QED
        BY <2>4, <4>1, <4>2
    <3> QED
      BY <2>7, <3>1, Zenon DEF WritesNew
  <2>11. AfterClears'
    <3>1. queue'[n].kind # "clear"
      BY <2>4
    <3>2. ASSUME NEW i \in DOMAIN queue', queue'[i].kind = "clear", NEW q \in Proc, Fresh(q)'
          PROVE  \E j \in DOMAIN queue' : i < j /\ queue'[j].by = q
      <4>1. i \in DOMAIN queue /\ queue'[i] = queue[i]
        BY <2>4, <3>1, <3>2, Zenon
      <4>2. Fresh(q)
        BY <2>8, <3>2
      <4>3. PICK j \in DOMAIN queue : i < j /\ queue[j].by = q
        BY <3>2, <4>1, <4>2, NewsParts, Zenon DEF AfterClears
      <4> QED
        BY <2>4, <4>3, Zenon
    <3> QED
      BY <3>2, Zenon DEF AfterClears
  <2>12. AnswersNew'
    <3>1. \A q \in Proc : At(q, "receive")' =>
             q # p /\ At(q, "receive") /\ handler'[q].version = handler[q].version
      BY <1>1, <1>2, ReceivesMoves, Zenon
    <3> QED
      BY <2>7, <2>8, <3>1, NewsParts, Zenon DEF AnswersNew
  <2> QED
    BY <2>9, <2>10, <2>11, <2>12, Zenon DEF News
<1> QED
  BY <1>0, <1>4, <1>5

LEMMA LaterPlaces ==
    \A i, j \in Nat : /\ i + 1 < j => i < j - 1
                      /\ i >= 1 /\ i + 1 < j => j # 1
  OBVIOUS

\* The queue goes on: a write that begins is by a handler that no clear has come
\* after, and ends before the next operation begins.
LEMMA NewsQueueWorks ==
    ASSUME Base, News, QueueWorks
    PROVE  News'
<1>0. /\ queue # <<>> /\ UNCHANGED <<own, metadata, handler>>
      /\ \/ Head(queue).kind = "clear" /\ stored' = None /\ queue' = Tail(queue)
         \/ Head(queue).kind # "clear" /\ stored' = stored /\ queue' = Tail(queue)
         \/ /\ Head(queue).kind = "write" /\ stored' = stored
            /\ Current(Head(queue).by) /\ queue' = [queue EXCEPT ![1].begun = TRUE]
         \/ /\ Head(queue).kind # "clear" /\ Head(queue).begun
            /\ stored' = Head(queue).record /\ queue' = Tail(queue)
  BY QueueSteps DEF serverVars
<1>1. Queued /\ queue \in Seq(Operation)
  BY BaseParts, Zenon DEF Queued
<1>2. Head(queue) = queue[1] /\ 1 \in DOMAIN queue
  BY <1>0, <1>1, HeadOperation
<1>3. NoneLearns
  <2>1. \A q \in Proc : Changed(q)' <=> Changed(q)
    BY <1>0, Zenon DEF Changed, Soon, Todo
  <2> QED
    BY <1>0, <2>1, Zenon DEF NoneLearns
<1>4. \A v : AtLeast(v) => AtLeast(v)'
  BY <1>3, StaysNew, Zenon
<1>5. MemoryNew' /\ AnswersNew'
  BY <1>0, <1>4, NewsParts, Zenon DEF MemoryNew, AnswersNew, At, Fresh
<1>6. CASE queue' = Tail(queue)
  <2>1. \A i \in DOMAIN queue' :
           i + 1 \in DOMAIN queue /\ queue'[i] = queue[i + 1] /\ i \in Nat
    BY <1>0, <1>1, <1>6, QueueTailPlaces
  <2>2. \A i \in DOMAIN queue : i # 1 =>
           i - 1 \in DOMAIN queue' /\ queue'[i - 1] = queue[i]
    BY <1>0, <1>1, <1>6, QueueTailPlaces
  <2>3. BegunNew'
    BY <1>0, <1>1, <1>6, QueuedTail, Zenon DEF BegunNew
  <2>4. WritesNew'
    <3>1. \A i \in DOMAIN queue' : queue'[i].kind = "write" /\ Fresh(queue'[i].by) => AtLeast(queue'[i].record.version)
      BY <2>1, NewsParts, Zenon DEF WritesNew
    <3>2. \A i \in DOMAIN queue' : Fresh(queue[i].by)' => Fresh(queue'[i].by)
      BY <1>0, Zenon DEF Fresh
    <3> QED
      BY <1>4, <3>1, <3>2, Zenon DEF WritesNew
  <2>5. AfterClears'
    <3>1. ASSUME NEW i \in DOMAIN queue', queue'[i].kind = "clear", NEW q \in Proc, Fresh(q)'
          PROVE  \E j \in DOMAIN queue' : i < j /\ queue'[j].by = q
      <4>1. i + 1 \in DOMAIN queue /\ queue[i + 1].kind = "clear" /\ i \in Nat
        BY <2>1, <3>1, Zenon
      <4>2. Fresh(q)
        BY <1>0, <3>1, Zenon DEF Fresh
      <4>3. PICK j \in DOMAIN queue : i + 1 < j /\ queue[j].by = q
        BY <4>1, <4>2, NewsParts, Zenon DEF AfterClears
      <4>4. j \in Nat /\ i >= 1
        <5>1. j \in Nat
          BY <1>1, QueuePlaces
        <5>2. DOMAIN Tail(queue) = 1 .. Len(queue) - 1
          BY <1>0, <1>1
        <5>3. Len(queue) \in Nat
          BY <1>1
        <5>4. i \in 1 .. Len(queue) - 1
          BY <1>6, <3>1, <5>2, Zenon
        <5> QED
          BY <5>1, <5>3, <5>4
      <4>5. j # 1 /\ i < j - 1
        BY <4>1, <4>3, <4>4, LaterPlaces, Zenon
      <4> QED
        BY <2>2, <4>3, <4>5, Zenon
    <3> QED
      BY <3>1, Zenon DEF AfterClears
  <2>6. StorageNew'
    <3>1. CASE stored' = None
      BY <3>1, Zenon DEF StorageNew
    <3>2. CASE Head(queue).kind # "clear"
      <4>1. \A q \in Proc : ClearQueued(q) => ClearQueued(q)'
        <5>1. ASSUME NEW q \in Proc, NEW i \in DOMAIN queue, queue[i].by = q, queue[i].kind = "clear"
              PROVE  ClearQueued(q)'
          <6>1. i # 1
            BY <1>2, <3>2, <5>1, Zenon
          <6> QED
            BY <2>2, <5>1, <6>1, Zenon DEF ClearQueued
        <5> QED
          BY <5>1, Zenon DEF ClearQueued
      <4>2. \A v : ButFor(v) => ButFor(v)'
        BY <1>3, <4>1, StaysNew, Zenon
      <4>3. stored' # None => ButFor(stored'.version)
        <5>1. CASE stored' = stored
          BY <5>1, NewsParts, Zenon DEF StorageNew
        <5>2. CASE Head(queue).begun /\ stored' = Head(queue).record
          BY <1>2, <5>2, NewsParts, Zenon DEF BegunNew
        <5> QED
          BY <1>0, <3>2, <5>1, <5>2
      <4> QED
        BY <4>2, <4>3, Zenon DEF StorageNew
    <3> QED
      BY <1>0, <3>1, <3>2
  <2> QED
    BY <1>5, <2>3, <2>4, <2>5, <2>6, Zenon DEF News
<1>7. CASE /\ Head(queue).kind = "write" /\ stored' = stored
           /\ Current(Head(queue).by) /\ queue' = [queue EXCEPT ![1].begun = TRUE]
  <2>1. /\ DOMAIN queue' = DOMAIN queue
        /\ \A i \in DOMAIN queue :
              /\ queue'[i].by = queue[i].by /\ queue'[i].kind = queue[i].kind
              /\ queue'[i].record = queue[i].record
              /\ queue'[i].begun => i = 1
    BY <1>0, <1>1, <1>7, QueuedBegins
  <2>2. \A q \in Proc : ClearQueued(q) => ClearQueued(q)'
    BY <2>1, Zenon DEF ClearQueued
  <2>3. \A v : ButFor(v) => ButFor(v)'
    BY <1>3, <2>2, StaysNew, Zenon
  <2>4. StorageNew'
    BY <1>7, <2>3, NewsParts, Zenon DEF StorageNew
  <2>5. BegunNew'
    <3>1. Fresh(queue[1].by) /\ queue[1].kind = "write"
      BY <1>2, <1>7 DEF Current, Fresh
    <3>2. AtLeast(queue[1].record.version)
      BY <1>2, <3>1, NewsParts, Zenon DEF WritesNew
    <3>3. ButFor(queue[1].record.version)
      BY <3>2, SameVersion, Zenon
    <3> QED
      BY <1>2, <2>1, <2>3, <3>3, Zenon DEF BegunNew
  <2>6. WritesNew'
    <3>1. \A i \in DOMAIN queue : Fresh(queue[i].by)' => Fresh(queue[i].by)
      BY <1>0, <2>1, Zenon DEF Fresh
    <3> QED
      BY <1>4, <2>1, <3>1, NewsParts, Zenon DEF WritesNew
  <2>7. AfterClears'
    <3>1. \A q \in Proc : Fresh(q)' => Fresh(q)
      BY <1>0, Zenon DEF Fresh
    <3>2. ASSUME NEW i \in DOMAIN queue', queue'[i].kind = "clear", NEW q \in Proc, Fresh(q)'
          PROVE  \E j \in DOMAIN queue' : i < j /\ queue'[j].by = q
      <4>1. i \in DOMAIN queue /\ queue[i].kind = "clear" /\ Fresh(q)
        BY <2>1, <3>1, <3>2
      <4>2. PICK j \in DOMAIN queue : i < j /\ queue[j].by = q
        BY <4>1, NewsParts, Zenon DEF AfterClears
      <4>3. j \in DOMAIN queue' /\ queue'[j].by = q
        BY <2>1, <4>2
      <4> QED
        BY <4>2, <4>3
    <3> QED
      BY <3>2, Zenon DEF AfterClears
  <2> QED
    BY <1>5, <2>4, <2>5, <2>6, <2>7, Zenon DEF News
<1> QED
  BY <1>0, <1>6, <1>7

\* A handler begins.
LEMMA NewsBegins ==
    ASSUME Base, News, NEW p \in Proc,
           \/ Messages(p) \/ StartLogin(p) \/ ModeChanged(p) \/ AlarmFires(p)
           \/ \E t \in Token : TokenReplaced(p, t)
    PROVE  News'
<1>0. UNCHANGED <<own, metadata, stored, queue>>
  BY DEF Messages, StartLogin, ModeChanged, AlarmFires, TokenReplaced, cacheVars, serverVars
<1>1. Handlers /\ Queued /\ Begins(p)
  BY BaseParts, MessagesBegin, LoginBegins, LocksBegin, ReplacedBegins
<1>2. /\ Handlers' /\ Calm(handler'[p].todo) /\ handler'[p].fresh = {}
      /\ \A q \in Proc \ {p} : Like(handler'[q], handler[q])
  BY <1>1, Zenon DEF Begins
<1>3. NoneLearns
  <2>1. ~Changed(p)'
    BY <1>2, FreeNotSoon, Order, Zenon DEF Changed
  <2>2. ASSUME NEW q \in Proc, q # p, Changed(q)' PROVE Changed(q) /\ handler'[q].version = handler[q].version
    <3>1. Like(handler'[q], handler[q])
      BY <1>2, <2>2
    <3>2. Soon(q, "mutated", 2)' <=> Soon(q, "mutated", 2)
      BY <3>1, LikeSoon, Zenon
    <3>3. handler'[q].version = handler[q].version
      BY <3>1, Zenon DEF Like
    <3> QED
      BY <2>2, <3>2, <3>3, Zenon DEF Changed
  <2> QED
    BY <1>0, <2>1, <2>2, Zenon DEF NoneLearns
<1>4. \A q \in Proc : Fresh(q)' => Fresh(q)
  BY <1>2 DEF Fresh, Like
<1>5. ASSUME NEW q \in Proc, At(q, "receive")', Fresh(q)'
      PROVE  At(q, "receive") /\ handler'[q].version = handler[q].version
  <2>1. q # p
    BY <1>2, <1>5 DEF Fresh
  <2>2. Like(handler'[q], handler[q])
    BY <1>2, <2>1
  <2>3. At(q, "receive")
    BY <1>5, <2>2, LikeAt
  <2> QED
    BY <2>2, <2>3, Zenon DEF Like
<1> QED
  BY <1>0, <1>1, <1>3, <1>4, <1>5, NewsKept

LEMMA NewsElsewhere ==
    ASSUME Base, News,
           \/ Elapse \/ OutsideChange \/ (\E m \in Mode : ChangeMode(m)) \/ UNCHANGED vars
    PROVE  News'
<1>1. UNCHANGED <<own, metadata, stored, queue>>
  BY DEF Elapse, OutsideChange, ChangeMode, vars, cacheVars, serverVars
<1>2. \A q \in Proc : Like(handler'[q], handler[q])
  <2>1. CASE Elapse
    BY <2>1, BaseParts, ElapseLike
  <2>2. CASE OutsideChange \/ (\E m \in Mode : ChangeMode(m)) \/ UNCHANGED vars
    <3>1. handler' = handler
      BY <2>2 DEF OutsideChange, ChangeMode, vars
    <3> QED
      BY <3>1, Zenon DEF Like
  <2> QED
    BY <2>1, <2>2
<1>3. \A q \in Proc : handler'[q].version = handler[q].version /\ (Fresh(q)' => Fresh(q))
  BY <1>2 DEF Like, Fresh
<1>4. NoneLearns
  <2>1. \A q \in Proc : Soon(q, "mutated", 2)' <=> Soon(q, "mutated", 2)
    BY <1>2, LikeSoon, Zenon
  <2> QED
    BY <1>1, <1>3, <2>1, Zenon DEF NoneLearns, Changed
<1>5. \A q \in Proc : At(q, "receive")' => At(q, "receive")
  BY <1>2, LikeAt, Zenon
<1>6. Queued
  BY BaseParts
<1> QED
  BY <1>1, <1>3, <1>4, <1>5, <1>6, NewsKept

LEMMA NewsRestart ==
    ASSUME Base, News, NEW p \in Proc, Restart(p)
    PROVE  News'
<1>0. metadata' = None /\ queue' = <<>> /\ UNCHANGED own /\ stored' \in {stored, None}
  BY DEF Restart, serverVars
<1>1. /\ Handlers'
      /\ \A q \in Proc \ {p} : handler'[q] = IdleHandler
      /\ Starting(handler'[p].todo) /\ handler'[p].fresh = {}
  BY BaseParts, RestartBegins
<1>2. \A q \in Proc : ~Changed(q)'
  <2>1. \A q \in Proc \ {p} : ~Changed(q)'
    BY <1>1, IdleIsHandler, NothingSoon, Zenon DEF Changed
  <2>2. ~Changed(p)'
    BY <1>1, FreeNotSoon, Order, Zenon DEF Starting, Changed
  <2> QED
    BY <2>1, <2>2, Zenon
<1>3. \A q \in Proc : ~Fresh(q)'
  BY <1>1, IdleIsHandler DEF Fresh
<1>4. StorageNew'
  <2>1. stored # None => own <= stored.version
    BY NewsParts, Zenon DEF StorageNew, ButFor
  <2>2. stored' # None => own' <= stored'.version
    BY <1>0, <2>1
  <2> QED
    BY <1>2, <2>2, Zenon DEF StorageNew, ButFor
<1> QED
  BY <1>0, <1>3, <1>4, EmptySeq, Zenon
     DEF News, MemoryNew, BegunNew, WritesNew, AfterClears, AnswersNew

LEMMA NewsStep ==
    ASSUME Base, News, NEW p \in Proc, Step(p)
    PROVE  News'
  BY NewsQuiet, NewsReadStored, NewsServe, NewsMutated, NewsClearMetadataNow, NewsLookUp, NewsReceive, Zenon
     DEF Step

LEMMA NewsNext ==
    ASSUME Base, News, [Next]_vars
    PROVE  News'
  BY NewsStep, NewsQueueWorks, NewsElsewhere, NewsBegins, NewsRestart, Zenon DEF Next, Work

LEMMA NewsInit == Init => News
<1> SUFFICES ASSUME Init PROVE News
  OBVIOUS
<1>0. /\ handler = [p \in Proc |-> IdleHandler] /\ metadata = None /\ stored = None /\ queue = <<>>
  BY DEF Init
<1>1. \A p \in Proc : ~Fresh(p)
  BY <1>0, IdleIsHandler DEF Fresh
<1> QED
  BY <1>0, <1>1, EmptySeq, Zenon
     DEF News, MemoryNew, StorageNew, BegunNew, WritesNew, AfterClears, AnswersNew

LEMMA NewsCurrent ==
    ASSUME Base, News
    PROVE  MetadataCurrent
<1>1. /\ metadata # None => own <= metadata.version
      /\ stored # None => own <= stored.version
  BY NewsParts, Zenon DEF MemoryNew, StorageNew, AtLeast, ButFor
<1>2. own \in Int
  BY BaseParts DEF ServerTypes
<1>3. \A record \in {metadata, stored} : record # None => record.version \in Int
  BY BaseParts DEF CacheTypes, Record, Maybe, Version
<1> QED
  BY <1>1, <1>2, <1>3 DEF MetadataCurrent

\* In every state, metadata that would be used, from memory or from storage, is
\* not older than the last change of a login the extension was told of: no
\* answer that was under way, no write of the storage queue and no copy read
\* back brings an older one in again (mutateEntries, getCredentialsForDomain).
THEOREM MetadataStaysCurrent == Spec => []MetadataCurrent
<1>1. Init => Base /\ News
  BY BaseInit, NewsInit
<1>2. Base /\ News /\ [Next]_vars => (Base /\ News)'
  BY BaseNext, NewsNext
<1>3. Base /\ News => MetadataCurrent
  BY NewsCurrent
<1> QED
  BY <1>1, <1>2, <1>3, PTL DEF Spec
=============================================================================
