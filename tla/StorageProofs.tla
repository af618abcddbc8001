---------------------------- MODULE StorageProofs ----------------------------
(***************************************************************************)
(* Theorems about Storage for any number of copies kept, any number of     *)
(* days, and any number of crashes, errors and restored copies.            *)
(***************************************************************************)
EXTENDS Storage, FiniteSetTheorems, WellFoundedInduction, TLAPS

-----------------------------------------------------------------------------
(* The revisions.                                                           *)

\* The number of the statement that creates a table, counted over all revisions.
Created(t) == CASE t = "cards" -> 1 [] t = "reviews" -> 4 [] t = "writings" -> 7
                [] t = "drill_topics" -> 8 [] t = "app_settings" -> 9
                [] t = "users" -> 10 [] t = "invites" -> 11

\* The number of the statement that adds a column or an index.
Number(t, c) ==
    CASE t = "cards"    /\ c = "ix_cards_lemma"         -> 2
      [] t = "cards"    /\ c = "ix_cards_due"           -> 3
      [] t = "reviews"  /\ c = "ix_reviews_card_id"     -> 5
      [] t = "reviews"  /\ c = "ix_reviews_reviewed_at" -> 6
      [] t = "cards"    /\ c = "user_id"                -> 12
      [] t = "cards"    /\ c = "ix_cards_user_id"       -> 13
      [] t = "reviews"  /\ c = "user_id"                -> 14
      [] t = "reviews"  /\ c = "ix_reviews_user_id"     -> 15
      [] t = "writings" /\ c = "user_id"                -> 16
      [] t = "writings" /\ c = "ix_writings_user_id"    -> 17
      [] t = "users"    /\ c = "tz"                     -> 18
      [] t = "users"    /\ c = "track"                  -> 19
      [] OTHER                                          -> Created(t)

\* The statement, by revision and place in it.
Place(r, i) == CASE r = 1 -> i [] r = 2 -> 9 + i [] r = 3 -> 17 + i [] r = 4 -> 18 + i

\* The statements, one by one.
LEMMA Revisions ==
    /\ Releases = 1 .. 4
    /\ Script[1] = Initial /\ Script[2] = Multiuser
    /\ Script[3] = UserTimezone /\ Script[4] = UserTrack
  BY DEF Script, Releases

LEMMA Lengths ==
    /\ DOMAIN Script[1] = 1 .. 9 /\ DOMAIN Script[2] = 1 .. 8
    /\ DOMAIN Script[3] = 1 .. 1 /\ DOMAIN Script[4] = 1 .. 1
  BY Revisions DEF Initial, Multiuser, UserTimezone, UserTrack

\* A statement adds what has its number, and a table before its columns.
Fits(s, n) ==
    /\ s.adds # {}
    /\ \A e \in s.adds : e[1] = s.table /\ Number(e[1], e[2]) = n
    /\ Created(s.table) <= n
    /\ s.creates => Created(s.table) = n

LEMMA TableFits ==
    ASSUME NEW t, NEW columns, columns # {}, NEW n \in Nat, Created(t) = n,
           \A c \in columns : Number(t, c) = n
    PROVE  Fits(CreateTable(t, columns), n)
  <1> DEFINE s == CreateTable(t, columns)
  <1>1. s.table = t /\ s.adds = {t} \X columns
    BY DEF CreateTable
  <1>2. \A e \in {t} \X columns : e[1] = t /\ e[2] \in columns
    OBVIOUS
  <1>3. {t} \X columns # {}
    <2>1. PICK c \in columns : TRUE
      OBVIOUS
    <2>2. <<t, c>> \in {t} \X columns
      OBVIOUS
    <2> QED BY <2>2
  <1> HIDE DEF s
  <1>4. \A e \in s.adds : e[1] = s.table /\ Number(e[1], e[2]) = n
    BY <1>1, <1>2
  <1>5. s.adds # {} /\ Created(s.table) = n
    BY <1>1, <1>3
  <1>6. Fits(s, n)
    BY <1>4, <1>5 DEF Fits
  <1> QED BY <1>6 DEF s

LEMMA ColumnFits ==
    ASSUME NEW t, NEW c, NEW n \in Nat, Created(t) <= n, Number(t, c) = n
    PROVE  Fits(AddColumn(t, c), n)
  <1> DEFINE s == AddColumn(t, c)
  <1>1. s.table = t /\ s.adds = {<<t, c>>} /\ s.creates = FALSE
    BY DEF AddColumn
  <1>2. <<t, c>>[1] = t /\ <<t, c>>[2] = c
    OBVIOUS
  <1> HIDE DEF s
  <1>3. Fits(s, n)
    BY <1>1, <1>2 DEF Fits
  <1> QED BY <1>3 DEF s

LEMMA IndexFits ==
    ASSUME NEW t, NEW c, NEW name, NEW n \in Nat, Created(t) <= n, Number(t, name) = n
    PROVE  Fits(CreateIndex(name, t, c), n)
  <1> DEFINE s == CreateIndex(name, t, c)
  <1>1. s.table = t /\ s.adds = {<<t, name>>} /\ s.creates = FALSE
    BY DEF CreateIndex
  <1>2. <<t, name>>[1] = t /\ <<t, name>>[2] = name
    OBVIOUS
  <1> HIDE DEF s
  <1>3. Fits(s, n)
    BY <1>1, <1>2 DEF Fits
  <1> QED BY <1>3 DEF s

\* The statements of a revision bear its numbers.
LEMMA Numbered ==
    ASSUME NEW r \in 1 .. 4, NEW i \in DOMAIN Script[r]
    PROVE  Fits(Script[r][i], Place(r, i)) /\ Place(r, i) \in 1 .. 19
  <1>1. CASE r = 1
    <2>0. i \in 1 .. 9 /\ Script[r] = Initial /\ Place(r, i) = 0 + i
      BY <1>1, Revisions, Lengths DEF Place
    <2>1. Fits(Initial[1], 1)
      <3> DEFINE columns == {"id", "text", "lemma", "kind", "enrichment",
                          "error_meta", "fsrs", "due", "state", "created_at",
                          "suspended"}
      <3>1. Created("cards") = 1 /\ columns # {}
        BY DEF Created
      <3>2. \A c \in columns : Number("cards", c) = 1
        BY DEF Number, Created
      <3>3. Initial[1] = CreateTable("cards", columns)
        BY DEF Initial
      <3> HIDE DEF columns
      <3> QED BY <3>1, <3>2, <3>3, TableFits
    <2>2. Fits(Initial[2], 2)
      <3>1. Created("cards") <= 2 /\ Number("cards", "ix_cards_lemma") = 2
        BY DEF Created, Number
      <3> QED BY <3>1, IndexFits DEF Initial
    <2>3. Fits(Initial[3], 3)
      <3>1. Created("cards") <= 3 /\ Number("cards", "ix_cards_due") = 3
        BY DEF Created, Number
      <3> QED BY <3>1, IndexFits DEF Initial
    <2>4. Fits(Initial[4], 4)
      <3> DEFINE columns == {"id", "card_id", "rating", "reviewed_at",
                          "elapsed_days"}
      <3>1. Created("reviews") = 4 /\ columns # {}
        BY DEF Created
      <3>2. \A c \in columns : Number("reviews", c) = 4
        BY DEF Number, Created
      <3>3. Initial[4] = CreateTable("reviews", columns)
        BY DEF Initial
      <3> HIDE DEF columns
      <3> QED BY <3>1, <3>2, <3>3, TableFits
    <2>5. Fits(Initial[5], 5)
      <3>1. Created("reviews") <= 5 /\ Number("reviews", "ix_reviews_card_id") = 5
        BY DEF Created, Number
      <3> QED BY <3>1, IndexFits DEF Initial
    <2>6. Fits(Initial[6], 6)
      <3>1. Created("reviews") <= 6 /\ Number("reviews", "ix_reviews_reviewed_at") = 6
        BY DEF Created, Number
      <3> QED BY <3>1, IndexFits DEF Initial
    <2>7. Fits(Initial[7], 7)
      <3> DEFINE columns == {"id", "prompt", "answer", "corrections", "created_at"}
      <3>1. Created("writings") = 7 /\ columns # {}
        BY DEF Created
      <3>2. \A c \in columns : Number("writings", c) = 7
        BY DEF Number, Created
      <3>3. Initial[7] = CreateTable("writings", columns)
        BY DEF Initial
      <3> HIDE DEF columns
      <3> QED BY <3>1, <3>2, <3>3, TableFits
    <2>8. Fits(Initial[8], 8)
      <3> DEFINE columns == {"id", "slug", "title_fr", "position", "active_week"}
      <3>1. Created("drill_topics") = 8 /\ columns # {}
        BY DEF Created
      <3>2. \A c \in columns : Number("drill_topics", c) = 8
        BY DEF Number, Created
      <3>3. Initial[8] = CreateTable("drill_topics", columns)
        BY DEF Initial
      <3> HIDE DEF columns
      <3> QED BY <3>1, <3>2, <3>3, TableFits
    <2>9. Fits(Initial[9], 9)
      <3> DEFINE columns == {"key", "value"}
      <3>1. Created("app_settings") = 9 /\ columns # {}
        BY DEF Created
      <3>2. \A c \in columns : Number("app_settings", c) = 9
        BY DEF Number, Created
      <3>3. Initial[9] = CreateTable("app_settings", columns)
        BY DEF Initial
      <3> HIDE DEF columns
      <3> QED BY <3>1, <3>2, <3>3, TableFits
    <2> QED BY <2>0, <2>1, <2>2, <2>3, <2>4, <2>5, <2>6, <2>7, <2>8, <2>9
  <1>2. CASE r = 2
    <2>0. i \in 1 .. 8 /\ Script[r] = Multiuser /\ Place(r, i) = 9 + i
      BY <1>2, Revisions, Lengths DEF Place
    <2>1. Fits(Multiuser[1], 10)
      <3> DEFINE columns == {"id", "username", "first_name", "chat_id", "level",
                          "invite_code", "is_admin", "active", "reminder_time",
                          "writing_time", "daily_new_limit", "session_max",
                          "created_at"}
      <3>1. Created("users") = 10 /\ columns # {}
        BY DEF Created
      <3>2. \A c \in columns : Number("users", c) = 10
        BY DEF Number, Created
      <3>3. Multiuser[1] = CreateTable("users", columns)
        BY DEF Multiuser
      <3> HIDE DEF columns
      <3> QED BY <3>1, <3>2, <3>3, TableFits
    <2>2. Fits(Multiuser[2], 11)
      <3> DEFINE columns == {"code", "created_by", "max_uses", "used_count",
                          "created_at"}
      <3>1. Created("invites") = 11 /\ columns # {}
        BY DEF Created
      <3>2. \A c \in columns : Number("invites", c) = 11
        BY DEF Number, Created
      <3>3. Multiuser[2] = CreateTable("invites", columns)
        BY DEF Multiuser
      <3> HIDE DEF columns
      <3> QED BY <3>1, <3>2, <3>3, TableFits
    <2>3. Fits(Multiuser[3], 12)
      <3>1. Created("cards") <= 12 /\ Number("cards", "user_id") = 12
        BY DEF Created, Number
      <3> QED BY <3>1, ColumnFits DEF Multiuser
    <2>4. Fits(Multiuser[4], 13)
      <3>1. Created("cards") <= 13 /\ Number("cards", "ix_cards_user_id") = 13
        BY DEF Created, Number
      <3> QED BY <3>1, IndexFits DEF Multiuser
    <2>5. Fits(Multiuser[5], 14)
      <3>1. Created("reviews") <= 14 /\ Number("reviews", "user_id") = 14
        BY DEF Created, Number
      <3> QED BY <3>1, ColumnFits DEF Multiuser
    <2>6. Fits(Multiuser[6], 15)
      <3>1. Created("reviews") <= 15 /\ Number("reviews", "ix_reviews_user_id") = 15
        BY DEF Created, Number
      <3> QED BY <3>1, IndexFits DEF Multiuser
    <2>7. Fits(Multiuser[7], 16)
      <3>1. Created("writings") <= 16 /\ Number("writings", "user_id") = 16
        BY DEF Created, Number
      <3> QED BY <3>1, ColumnFits DEF Multiuser
    <2>8. Fits(Multiuser[8], 17)
      <3>1. Created("writings") <= 17 /\ Number("writings", "ix_writings_user_id") = 17
        BY DEF Created, Number
      <3> QED BY <3>1, IndexFits DEF Multiuser
    <2> QED BY <2>0, <2>1, <2>2, <2>3, <2>4, <2>5, <2>6, <2>7, <2>8
  <1>3. CASE r = 3
    <2>0. i \in 1 .. 1 /\ Script[r] = UserTimezone /\ Place(r, i) = 17 + i
      BY <1>3, Revisions, Lengths DEF Place
    <2>1. Fits(UserTimezone[1], 18)
      <3>1. Created("users") <= 18 /\ Number("users", "tz") = 18
        BY DEF Created, Number
      <3> QED BY <3>1, ColumnFits DEF UserTimezone
    <2> QED BY <2>0, <2>1
  <1>4. CASE r = 4
    <2>0. i \in 1 .. 1 /\ Script[r] = UserTrack /\ Place(r, i) = 18 + i
      BY <1>4, Revisions, Lengths DEF Place
    <2>1. Fits(UserTrack[1], 19)
      <3>1. Created("users") <= 19 /\ Number("users", "track") = 19
        BY DEF Created, Number
      <3> QED BY <3>1, ColumnFits DEF UserTrack
    <2> QED BY <2>0, <2>1
  <1> QED BY <1>1, <1>2, <1>3, <1>4

\* What a statement needs is brought by an earlier one.
Earlier(q, j, r, i) ==
    q \in Releases /\ j \in DOMAIN Script[q] /\ (q < r \/ (q = r /\ j < i))

Brings(r, i, e) == \E q, j : Earlier(q, j, r, i) /\ e \in Script[q][j].adds

LEMMA Grounded ==
    ASSUME NEW r \in 1 .. 4, NEW i \in DOMAIN Script[r], ~Script[r][i].creates
    PROVE  /\ \E e : e[1] = Script[r][i].table /\ Brings(r, i, e)
           /\ \A e \in Script[r][i].needs : Brings(r, i, e)
  <1> DEFINE s == Script[r][i]
  <1>0. /\ Releases = 1 .. 4 /\ \A q \in 1 .. 4 : \A j \in DOMAIN Script[q] : j \in Nat
    BY Revisions, Lengths
  <1>1. CASE r = 1
    <2>0. i \in 1 .. 9 /\ Script[r] = Initial
      BY <1>1, Revisions, Lengths
    <2>1. CASE i = 1
      BY <2>0, <2>1 DEF Initial, CreateTable
    <2>2. CASE i = 2
      <3>1. s.table = "cards" /\ s.needs = {<<"cards", "lemma">>}
        BY <2>0, <2>2 DEF Initial, CreateIndex
      <3>2. <<"cards", "lemma">> \in Script[1][1].adds
        BY Revisions DEF Initial, CreateTable
      <3>3. Earlier(1, 1, r, i)
        BY <1>0, <1>1, <2>2, Lengths DEF Earlier
      <3>4. Brings(r, i, <<"cards", "lemma">>) /\ <<"cards", "lemma">>[1] = "cards"
        BY <3>2, <3>3 DEF Brings
      <3> QED BY <3>1, <3>4
    <2>3. CASE i = 3
      <3>1. s.table = "cards" /\ s.needs = {<<"cards", "due">>}
        BY <2>0, <2>3 DEF Initial, CreateIndex
      <3>2. <<"cards", "due">> \in Script[1][1].adds
        BY Revisions DEF Initial, CreateTable
      <3>3. Earlier(1, 1, r, i)
        BY <1>0, <1>1, <2>3, Lengths DEF Earlier
      <3>4. Brings(r, i, <<"cards", "due">>) /\ <<"cards", "due">>[1] = "cards"
        BY <3>2, <3>3 DEF Brings
      <3> QED BY <3>1, <3>4
    <2>4. CASE i = 4
      BY <2>0, <2>4 DEF Initial, CreateTable
    <2>5. CASE i = 5
      <3>1. s.table = "reviews" /\ s.needs = {<<"reviews", "card_id">>}
        BY <2>0, <2>5 DEF Initial, CreateIndex
      <3>2. <<"reviews", "card_id">> \in Script[1][4].adds
        BY Revisions DEF Initial, CreateTable
      <3>3. Earlier(1, 4, r, i)
        BY <1>0, <1>1, <2>5, Lengths DEF Earlier
      <3>4. Brings(r, i, <<"reviews", "card_id">>) /\ <<"reviews", "card_id">>[1] = "reviews"
        BY <3>2, <3>3 DEF Brings
      <3> QED BY <3>1, <3>4
    <2>6. CASE i = 6
      <3>1. s.table = "reviews" /\ s.needs = {<<"reviews", "reviewed_at">>}
        BY <2>0, <2>6 DEF Initial, CreateIndex
      <3>2. <<"reviews", "reviewed_at">> \in Script[1][4].adds
        BY Revisions DEF Initial, CreateTable
      <3>3. Earlier(1, 4, r, i)
        BY <1>0, <1>1, <2>6, Lengths DEF Earlier
      <3>4. Brings(r, i, <<"reviews", "reviewed_at">>) /\ <<"reviews", "reviewed_at">>[1] = "reviews"
        BY <3>2, <3>3 DEF Brings
      <3> QED BY <3>1, <3>4
    <2>7. CASE i = 7
      BY <2>0, <2>7 DEF Initial, CreateTable
    <2>8. CASE i = 8
      BY <2>0, <2>8 DEF Initial, CreateTable
    <2>9. CASE i = 9
      BY <2>0, <2>9 DEF Initial, CreateTable
    <2> QED BY <2>0, <2>1, <2>2, <2>3, <2>4, <2>5, <2>6, <2>7, <2>8, <2>9
  <1>2. CASE r = 2
    <2>0. i \in 1 .. 8 /\ Script[r] = Multiuser
      BY <1>2, Revisions, Lengths
    <2>1. CASE i = 1
      BY <2>0, <2>1 DEF Multiuser, CreateTable
    <2>2. CASE i = 2
      BY <2>0, <2>2 DEF Multiuser, CreateTable
    <2>3. CASE i = 3
      <3>1. s.table = "cards" /\ s.needs = {}
        BY <2>0, <2>3 DEF Multiuser, AddColumn
      <3>2. <<"cards", "id">> \in Script[1][1].adds
        BY Revisions DEF Initial, CreateTable
      <3>3. Earlier(1, 1, r, i)
        BY <1>0, <1>2, <2>3, Lengths DEF Earlier
      <3>4. Brings(r, i, <<"cards", "id">>) /\ <<"cards", "id">>[1] = "cards"
        BY <3>2, <3>3 DEF Brings
      <3> QED BY <3>1, <3>4
    <2>4. CASE i = 4
      <3>1. s.table = "cards" /\ s.needs = {<<"cards", "user_id">>}
        BY <2>0, <2>4 DEF Multiuser, CreateIndex
      <3>2. <<"cards", "user_id">> \in Script[2][3].adds
        BY Revisions DEF Multiuser, AddColumn
      <3>3. Earlier(2, 3, r, i)
        BY <1>0, <1>2, <2>4, Lengths DEF Earlier
      <3>4. Brings(r, i, <<"cards", "user_id">>) /\ <<"cards", "user_id">>[1] = "cards"
        BY <3>2, <3>3 DEF Brings
      <3> QED BY <3>1, <3>4
    <2>5. CASE i = 5
      <3>1. s.table = "reviews" /\ s.needs = {}
        BY <2>0, <2>5 DEF Multiuser, AddColumn
      <3>2. <<"reviews", "id">> \in Script[1][4].adds
        BY Revisions DEF Initial, CreateTable
      <3>3. Earlier(1, 4, r, i)
        BY <1>0, <1>2, <2>5, Lengths DEF Earlier
      <3>4. Brings(r, i, <<"reviews", "id">>) /\ <<"reviews", "id">>[1] = "reviews"
        BY <3>2, <3>3 DEF Brings
      <3> QED BY <3>1, <3>4
    <2>6. CASE i = 6
      <3>1. s.table = "reviews" /\ s.needs = {<<"reviews", "user_id">>}
        BY <2>0, <2>6 DEF Multiuser, CreateIndex
      <3>2. <<"reviews", "user_id">> \in Script[2][5].adds
        BY Revisions DEF Multiuser, AddColumn
      <3>3. Earlier(2, 5, r, i)
        BY <1>0, <1>2, <2>6, Lengths DEF Earlier
      <3>4. Brings(r, i, <<"reviews", "user_id">>) /\ <<"reviews", "user_id">>[1] = "reviews"
        BY <3>2, <3>3 DEF Brings
      <3> QED BY <3>1, <3>4
    <2>7. CASE i = 7
      <3>1. s.table = "writings" /\ s.needs = {}
        BY <2>0, <2>7 DEF Multiuser, AddColumn
      <3>2. <<"writings", "id">> \in Script[1][7].adds
        BY Revisions DEF Initial, CreateTable
      <3>3. Earlier(1, 7, r, i)
        BY <1>0, <1>2, <2>7, Lengths DEF Earlier
      <3>4. Brings(r, i, <<"writings", "id">>) /\ <<"writings", "id">>[1] = "writings"
        BY <3>2, <3>3 DEF Brings
      <3> QED BY <3>1, <3>4
    <2>8. CASE i = 8
      <3>1. s.table = "writings" /\ s.needs = {<<"writings", "user_id">>}
        BY <2>0, <2>8 DEF Multiuser, CreateIndex
      <3>2. <<"writings", "user_id">> \in Script[2][7].adds
        BY Revisions DEF Multiuser, AddColumn
      <3>3. Earlier(2, 7, r, i)
        BY <1>0, <1>2, <2>8, Lengths DEF Earlier
      <3>4. Brings(r, i, <<"writings", "user_id">>) /\ <<"writings", "user_id">>[1] = "writings"
        BY <3>2, <3>3 DEF Brings
      <3> QED BY <3>1, <3>4
    <2> QED BY <2>0, <2>1, <2>2, <2>3, <2>4, <2>5, <2>6, <2>7, <2>8
  <1>3. CASE r = 3
    <2>0. i \in 1 .. 1 /\ Script[r] = UserTimezone
      BY <1>3, Revisions, Lengths
    <2>1. CASE i = 1
      <3>1. s.table = "users" /\ s.needs = {}
        BY <2>0, <2>1 DEF UserTimezone, AddColumn
      <3>2. <<"users", "id">> \in Script[2][1].adds
        BY Revisions DEF Multiuser, CreateTable
      <3>3. Earlier(2, 1, r, i)
        BY <1>0, <1>3, <2>1, Lengths DEF Earlier
      <3>4. Brings(r, i, <<"users", "id">>) /\ <<"users", "id">>[1] = "users"
        BY <3>2, <3>3 DEF Brings
      <3> QED BY <3>1, <3>4
    <2> QED BY <2>0, <2>1
  <1>4. CASE r = 4
    <2>0. i \in 1 .. 1 /\ Script[r] = UserTrack
      BY <1>4, Revisions, Lengths
    <2>1. CASE i = 1
      <3>1. s.table = "users" /\ s.needs = {}
        BY <2>0, <2>1 DEF UserTrack, AddColumn
      <3>2. <<"users", "id">> \in Script[2][1].adds
        BY Revisions DEF Multiuser, CreateTable
      <3>3. Earlier(2, 1, r, i)
        BY <1>0, <1>4, <2>1, Lengths DEF Earlier
      <3>4. Brings(r, i, <<"users", "id">>) /\ <<"users", "id">>[1] = "users"
        BY <3>2, <3>3 DEF Brings
      <3> QED BY <3>1, <3>4
    <2> QED BY <2>0, <2>1
  <1> QED BY <1>1, <1>2, <1>3, <1>4

LEMMA ReleasesAre == Releases = 1 .. 4
  BY Revisions

\* The statements of a revision are numbered from 1.
LEMMA ScriptRows ==
    /\ \A r \in 1 .. 4 : \E n \in Nat : DOMAIN Script[r] = 1 .. n
    /\ \A r \in 1 .. 4 : \A i \in DOMAIN Script[r] : i \in Nat /\ ~(i < 1)
  <1>1. ASSUME NEW r \in 1 .. 4 PROVE \E n \in Nat : DOMAIN Script[r] = 1 .. n
    <2>1. r = 1 \/ r = 2 \/ r = 3 \/ r = 4
      OBVIOUS
    <2>2. 1 \in Nat /\ 8 \in Nat /\ 9 \in Nat
      OBVIOUS
    <2> QED BY <2>1, <2>2, Lengths, Zenon
  <1>2. ASSUME NEW r \in 1 .. 4, NEW i \in DOMAIN Script[r] PROVE i \in Nat /\ ~(i < 1)
    <2>1. PICK n \in Nat : DOMAIN Script[r] = 1 .. n
      BY <1>1
    <2> QED BY <2>1
  <1> QED BY <1>1, <1>2

LEMMA BroughtGrows ==
    /\ Brought[0] = {}
    /\ \A v \in 0 .. 3 : Brought[v + 1] = Brought[v] \cup Adds(v + 1)
    /\ \A v \in 0 .. 4 : Brought[v] \subseteq Columns
    /\ \A r \in 1 .. 4 : Adds(r) \subseteq Columns
  <1>1. \A v \in 0 .. 4 : Brought[v] = UNION {Adds(q) : q \in 1 .. v}
    BY DEF Brought
  <1>2. Brought[0] = {}
    BY <1>1
  <1>3. ASSUME NEW v \in 0 .. 3 PROVE Brought[v + 1] = Brought[v] \cup Adds(v + 1)
    <2>1. 1 .. v + 1 = (1 .. v) \cup {v + 1} /\ v + 1 \in 0 .. 4 /\ v \in 0 .. 4
      OBVIOUS
    <2> QED BY <1>1, <2>1
  <1>4. ASSUME NEW v \in 0 .. 4 PROVE Brought[v] \subseteq Brought[4]
    BY <1>1
  <1>5. ASSUME NEW r \in 1 .. 4 PROVE Adds(r) \subseteq Brought[4]
    BY <1>1
  <1> QED BY <1>2, <1>3, <1>4, <1>5 DEF Columns

\* What the models name is added by the revision of the release that names it first.
LEMMA NamedIsAdded ==
    ASSUME NEW t \in DOMAIN Models, NEW c \in Models[t]
    PROVE  Since(t, c) \in 1 .. 4 /\ <<t, c>> \in Adds(Since(t, c))
  <1>1. ASSUME NEW r \in 1 .. 4, NEW i \in DOMAIN Script[r], <<t, c>> \in Script[r][i].adds
        PROVE  <<t, c>> \in Adds(r)
    BY <1>1 DEF Adds
  <1>2. CASE t = "cards"
    <2>0. c \in {"id", "user_id", "text", "lemma", "kind", "enrichment",
                 "error_meta", "fsrs", "due", "state", "created_at",
                 "suspended", "ix_cards_user_id", "ix_cards_lemma",
                 "ix_cards_due"}
      BY <1>2 DEF Models
    <2>1. CASE c \in {"id", "text", "lemma", "kind", "enrichment", "error_meta",
                   "fsrs", "due", "state", "created_at", "suspended"}
      <3>1. Since(t, c) = 1
        BY <1>2, <2>1 DEF Since, Owned
      <3>2. <<t, c>> \in Script[1][1].adds /\ 1 \in DOMAIN Script[1]
        BY <1>2, <2>1, Revisions, Lengths DEF Initial, CreateTable
      <3> QED BY <1>1, <3>1, <3>2
    <2>2. CASE c = "ix_cards_lemma"
      <3>1. Since(t, c) = 1
        BY <1>2, <2>2 DEF Since, Owned
      <3>2. <<t, c>> \in Script[1][2].adds /\ 2 \in DOMAIN Script[1]
        BY <1>2, <2>2, Revisions, Lengths DEF Initial, CreateIndex
      <3> QED BY <1>1, <3>1, <3>2
    <2>3. CASE c = "ix_cards_due"
      <3>1. Since(t, c) = 1
        BY <1>2, <2>3 DEF Since, Owned
      <3>2. <<t, c>> \in Script[1][3].adds /\ 3 \in DOMAIN Script[1]
        BY <1>2, <2>3, Revisions, Lengths DEF Initial, CreateIndex
      <3> QED BY <1>1, <3>1, <3>2
    <2>4. CASE c = "user_id"
      <3>1. Since(t, c) = 2
        BY <1>2, <2>4 DEF Since, Owned
      <3>2. <<t, c>> \in Script[2][3].adds /\ 3 \in DOMAIN Script[2]
        BY <1>2, <2>4, Revisions, Lengths DEF Multiuser, AddColumn
      <3> QED BY <1>1, <3>1, <3>2
    <2>5. CASE c = "ix_cards_user_id"
      <3>1. Since(t, c) = 2
        BY <1>2, <2>5 DEF Since, Owned
      <3>2. <<t, c>> \in Script[2][4].adds /\ 4 \in DOMAIN Script[2]
        BY <1>2, <2>5, Revisions, Lengths DEF Multiuser, CreateIndex
      <3> QED BY <1>1, <3>1, <3>2
    <2> QED BY <2>0, <2>1, <2>2, <2>3, <2>4, <2>5
  <1>3. CASE t = "reviews"
    <2>0. c \in {"id", "user_id", "card_id", "rating", "reviewed_at",
                 "elapsed_days", "ix_reviews_user_id",
                 "ix_reviews_card_id", "ix_reviews_reviewed_at"}
      BY <1>3 DEF Models
    <2>1. CASE c \in {"id", "card_id", "rating", "reviewed_at", "elapsed_days"}
      <3>1. Since(t, c) = 1
        BY <1>3, <2>1 DEF Since, Owned
      <3>2. <<t, c>> \in Script[1][4].adds /\ 4 \in DOMAIN Script[1]
        BY <1>3, <2>1, Revisions, Lengths DEF Initial, CreateTable
      <3> QED BY <1>1, <3>1, <3>2
    <2>2. CASE c = "ix_reviews_card_id"
      <3>1. Since(t, c) = 1
        BY <1>3, <2>2 DEF Since, Owned
      <3>2. <<t, c>> \in Script[1][5].adds /\ 5 \in DOMAIN Script[1]
        BY <1>3, <2>2, Revisions, Lengths DEF Initial, CreateIndex
      <3> QED BY <1>1, <3>1, <3>2
    <2>3. CASE c = "ix_reviews_reviewed_at"
      <3>1. Since(t, c) = 1
        BY <1>3, <2>3 DEF Since, Owned
      <3>2. <<t, c>> \in Script[1][6].adds /\ 6 \in DOMAIN Script[1]
        BY <1>3, <2>3, Revisions, Lengths DEF Initial, CreateIndex
      <3> QED BY <1>1, <3>1, <3>2
    <2>4. CASE c = "user_id"
      <3>1. Since(t, c) = 2
        BY <1>3, <2>4 DEF Since, Owned
      <3>2. <<t, c>> \in Script[2][5].adds /\ 5 \in DOMAIN Script[2]
        BY <1>3, <2>4, Revisions, Lengths DEF Multiuser, AddColumn
      <3> QED BY <1>1, <3>1, <3>2
    <2>5. CASE c = "ix_reviews_user_id"
      <3>1. Since(t, c) = 2
        BY <1>3, <2>5 DEF Since, Owned
      <3>2. <<t, c>> \in Script[2][6].adds /\ 6 \in DOMAIN Script[2]
        BY <1>3, <2>5, Revisions, Lengths DEF Multiuser, CreateIndex
      <3> QED BY <1>1, <3>1, <3>2
    <2> QED BY <2>0, <2>1, <2>2, <2>3, <2>4, <2>5
  <1>4. CASE t = "writings"
    <2>0. c \in {"id", "user_id", "prompt", "answer", "corrections",
                 "created_at", "ix_writings_user_id"}
      BY <1>4 DEF Models
    <2>1. CASE c \in {"id", "prompt", "answer", "corrections", "created_at"}
      <3>1. Since(t, c) = 1
        BY <1>4, <2>1 DEF Since, Owned
      <3>2. <<t, c>> \in Script[1][7].adds /\ 7 \in DOMAIN Script[1]
        BY <1>4, <2>1, Revisions, Lengths DEF Initial, CreateTable
      <3> QED BY <1>1, <3>1, <3>2
    <2>2. CASE c = "user_id"
      <3>1. Since(t, c) = 2
        BY <1>4, <2>2 DEF Since, Owned
      <3>2. <<t, c>> \in Script[2][7].adds /\ 7 \in DOMAIN Script[2]
        BY <1>4, <2>2, Revisions, Lengths DEF Multiuser, AddColumn
      <3> QED BY <1>1, <3>1, <3>2
    <2>3. CASE c = "ix_writings_user_id"
      <3>1. Since(t, c) = 2
        BY <1>4, <2>3 DEF Since, Owned
      <3>2. <<t, c>> \in Script[2][8].adds /\ 8 \in DOMAIN Script[2]
        BY <1>4, <2>3, Revisions, Lengths DEF Multiuser, CreateIndex
      <3> QED BY <1>1, <3>1, <3>2
    <2> QED BY <2>0, <2>1, <2>2, <2>3
  <1>5. CASE t = "drill_topics"
    <2>0. c \in {"id", "slug", "title_fr", "position", "active_week"}
      BY <1>5 DEF Models
    <2>1. CASE c \in {"id", "slug", "title_fr", "position", "active_week"}
      <3>1. Since(t, c) = 1
        BY <1>5, <2>1 DEF Since, Owned
      <3>2. <<t, c>> \in Script[1][8].adds /\ 8 \in DOMAIN Script[1]
        BY <1>5, <2>1, Revisions, Lengths DEF Initial, CreateTable
      <3> QED BY <1>1, <3>1, <3>2
    <2> QED BY <2>0, <2>1
  <1>6. CASE t = "users"
    <2>0. c \in {"id", "username", "first_name", "chat_id", "level",
                 "invite_code", "is_admin", "active", "tz", "track",
                 "reminder_time", "writing_time", "daily_new_limit",
                 "session_max", "created_at"}
      BY <1>6 DEF Models
    <2>1. CASE c \in {"id", "username", "first_name", "chat_id", "level",
                   "invite_code", "is_admin", "active", "reminder_time",
                   "writing_time", "daily_new_limit", "session_max",
                   "created_at"}
      <3>1. Since(t, c) = 2
        BY <1>6, <2>1 DEF Since, Owned
      <3>2. <<t, c>> \in Script[2][1].adds /\ 1 \in DOMAIN Script[2]
        BY <1>6, <2>1, Revisions, Lengths DEF Multiuser, CreateTable
      <3> QED BY <1>1, <3>1, <3>2
    <2>2. CASE c = "tz"
      <3>1. Since(t, c) = 3
        BY <1>6, <2>2 DEF Since, Owned
      <3>2. <<t, c>> \in Script[3][1].adds /\ 1 \in DOMAIN Script[3]
        BY <1>6, <2>2, Revisions, Lengths DEF UserTimezone, AddColumn
      <3> QED BY <1>1, <3>1, <3>2
    <2>3. CASE c = "track"
      <3>1. Since(t, c) = 4
        BY <1>6, <2>3 DEF Since, Owned
      <3>2. <<t, c>> \in Script[4][1].adds /\ 1 \in DOMAIN Script[4]
        BY <1>6, <2>3, Revisions, Lengths DEF UserTrack, AddColumn
      <3> QED BY <1>1, <3>1, <3>2
    <2> QED BY <2>0, <2>1, <2>2, <2>3
  <1>7. CASE t = "invites"
    <2>0. c \in {"code", "created_by", "max_uses", "used_count",
                 "created_at"}
      BY <1>7 DEF Models
    <2>1. CASE c \in {"code", "created_by", "max_uses", "used_count",
                   "created_at"}
      <3>1. Since(t, c) = 2
        BY <1>7, <2>1 DEF Since, Owned
      <3>2. <<t, c>> \in Script[2][2].adds /\ 2 \in DOMAIN Script[2]
        BY <1>7, <2>1, Revisions, Lengths DEF Multiuser, CreateTable
      <3> QED BY <1>1, <3>1, <3>2
    <2> QED BY <2>0, <2>1
  <1>8. CASE t = "app_settings"
    <2>0. c \in {"key", "value"}
      BY <1>8 DEF Models
    <2>1. CASE c \in {"key", "value"}
      <3>1. Since(t, c) = 1
        BY <1>8, <2>1 DEF Since, Owned
      <3>2. <<t, c>> \in Script[1][9].adds /\ 9 \in DOMAIN Script[1]
        BY <1>8, <2>1, Revisions, Lengths DEF Initial, CreateTable
      <3> QED BY <1>1, <3>1, <3>2
    <2> QED BY <2>0, <2>1
  <1>9. t \in {"cards", "reviews", "writings", "drill_topics", "users",
               "invites", "app_settings"}
    BY DEF Models
  <1> QED BY <1>2, <1>3, <1>4, <1>5, <1>6, <1>7, <1>8, <1>9

\* The revisions up to a release bring all that its models name.
LEMMA ModelsCovered ==
    ASSUME NEW r \in 1 .. 4
    PROVE  Required[r] \subseteq Brought[r] /\ Required[r] \subseteq Columns
  <1>1. Required[r] = {e \in Named : Since(e[1], e[2]) <= r} /\ Required[r] \subseteq Named
    BY DEF Required
  <1>2. Brought[r] = UNION {Adds(q) : q \in 1 .. r}
    BY DEF Brought
  <1>3. ASSUME NEW e \in Required[r] PROVE e \in Brought[r]
    <2>1. PICK t \in DOMAIN Models : e \in {t} \X Models[t]
      BY <1>1 DEF Named
    <2>2. e[1] = t /\ e[2] \in Models[t] /\ e = <<t, e[2]>>
      BY <2>1
    <2>3. Since(t, e[2]) \in 1 .. 4 /\ e \in Adds(Since(t, e[2]))
      BY <2>2, NamedIsAdded
    <2>4. Since(t, e[2]) \in 1 .. r
      BY <1>1, <2>2, <2>3
    <2> QED BY <1>2, <2>3, <2>4
  <1> QED BY <1>1, <1>3 DEF Columns

-----------------------------------------------------------------------------
(* The copies.                                                              *)

LEMMA Minimum ==
    ASSUME NEW S, S \subseteq Nat, IsFiniteSet(S), S # {}
    PROVE  \E m \in S : \A k \in S : m <= k
  <1> DEFINE Below(k) == {x \in S : x < k}
             T == {Below(k) : k \in S}
  <1>1. T # {} /\ T \subseteq SUBSET S
    OBVIOUS
  <1>2. IsWellFoundedOn(StrictSubsetOrdering(S), SUBSET S)
    BY FS_StrictSubsetOrderingWellFounded, FS_FiniteSubsetsOfFinite
  <1>3. PICK t \in T : \A y \in T : <<y, t>> \notin StrictSubsetOrdering(S)
    <2> HIDE DEF T
    <2> QED BY <1>1, <1>2, WFMin
  <1>4. PICK m \in S : t = Below(m)
    OBVIOUS
  <1>5. ASSUME NEW k \in S, k < m PROVE FALSE
    <2>1. Below(k) \subseteq Below(m) /\ k \in Below(m) /\ k \notin Below(k)
      <3>1. \A x \in S : x \in Nat
        OBVIOUS
      <3>2. \A x \in S : x < k => x < m
        BY <1>5, <3>1
      <3>3. k < m /\ ~(k < k)
        BY <1>5, <3>1
      <3> QED BY <3>2, <3>3
    <2>2. Below(k) \in T /\ Below(k) \in SUBSET S /\ Below(m) \in SUBSET S
      OBVIOUS
    <2>3. <<Below(k), Below(m)>> \in StrictSubsetOrdering(S)
      BY <2>1, <2>2 DEF StrictSubsetOrdering
    <2> QED BY <1>3, <1>4, <2>2, <2>3
  <1>6. \A k \in S : m <= k
    BY <1>5
  <1> QED BY <1>6

\* What pruning leaves is no more than Keep files.
LEMMA KeptFew ==
    ASSUME NEW P, P \subseteq Nat, IsFiniteSet(P),
           NEW n \in Nat \ {0},
           NEW S, S = {d \in P : Cardinality({e \in P : e > d}) >= n}
    PROVE  IsFiniteSet(P \ S) /\ Cardinality(P \ S) <= n
  <1> DEFINE R == P \ S
  <1>1. IsFiniteSet(R) /\ Cardinality(R) \in Nat
    BY FS_Subset, FS_CardinalityType
  <1>2. CASE R = {}
    <2>1. Cardinality(R) = 0
      BY <1>2, FS_EmptySet
    <2> QED BY <1>1, <2>1
  <1>3. CASE R # {}
    <2>1. PICK m \in R : \A k \in R : m <= k
      BY <1>1, <1>3, Minimum
    <2> DEFINE U == {e \in P : e > m}
    <2>2. IsFiniteSet(U) /\ Cardinality(U) \in Nat
      BY FS_Subset, FS_CardinalityType
    <2>3. R \ {m} \subseteq U
      <3>1. m \in Nat /\ \A k \in R : k \in Nat
        OBVIOUS
      <3>2. \A k \in R \ {m} : k > m
        BY <2>1, <3>1
      <3> QED BY <3>2
    <2>4. Cardinality(R \ {m}) <= Cardinality(U)
      BY <2>2, <2>3, FS_Subset
    <2>5. Cardinality(R \ {m}) = Cardinality(R) - 1
      BY <1>1, FS_RemoveElement
    <2>6. ~(Cardinality(U) >= n)
      OBVIOUS
    <2> QED BY <1>1, <2>2, <2>4, <2>5, <2>6
  <1> QED BY <1>2, <1>3

-----------------------------------------------------------------------------
(* The invariant.                                                           *)

\* Files are named after past dates, and the copy under way after the last one.
FilesDated ==
    /\ day \in 1 .. MaxDay /\ ran <= day /\ copying \in {0, ran} /\ newest <= ran
    /\ copying # 0 => newest < copying
    /\ \A d \in Present(files) : d <= ran

\* What the statements so far of the revision that runs have added.
Made == IF Pending THEN UNION {Revision[i].adds : i \in {j \in DOMAIN Revision : j < at}}
                   ELSE {}

\* No file is ahead of the release.
NotAhead ==
    /\ db.version <= release
    /\ \A d \in DOMAIN files : files[d].kind = "whole" => files[d].db.version <= release

Midway == Made \subseteq db.schema

\* A database nothing has cut or patched has the columns of its version and those of
\* the statements that run, no others; so they never clash.
Uncut ==
    /\ db.marks = {} => db.schema = Brought[db.version] \cup Made
    /\ \A d \in DOMAIN files : files[d].kind = "whole" /\ files[d].db.marks = {}
          => files[d].db.schema = Brought[files[d].db.version]
    /\ up = "migrating" => fallback = "no"
    /\ up = "running" /\ fallback = "no" => db.version = release
    /\ up = "running" /\ fallback = "clash" => db.marks # {}

BackupInv == FilesDated /\ NewestCopyKept /\ CopiesBounded
SchemaInv == TypeOK /\ VersionHonest /\ NotAhead /\ Midway /\ Uncut
IInv == SchemaInv /\ BackupInv

-----------------------------------------------------------------------------
LEMMA PresentFinite ==
    ASSUME TypeOK
    PROVE  /\ DOMAIN files = 1 .. MaxDay
           /\ Present(files) \subseteq Nat /\ Present(files) \subseteq 1 .. MaxDay
           /\ IsFiniteSet(Present(files)) /\ Cardinality(Present(files)) \in Nat
  <1>1. DOMAIN files = 1 .. MaxDay /\ IsFiniteSet(1 .. MaxDay)
    BY StorageAssumption, FS_Interval DEF TypeOK
  <1>2. Present(files) \subseteq 1 .. MaxDay
    BY <1>1 DEF Present
  <1> QED BY <1>1, <1>2, FS_Subset, FS_CardinalityType, StorageAssumption

\* A step of the start, a crash or a handler leaves the copies alone.
LEMMA QuietKeepsBackups ==
    ASSUME BackupInv, TypeOK,
           UNCHANGED <<day, ran, files, newest, missed>>, copying' \in {0, copying}
    PROVE  BackupInv'
  BY DEF BackupInv, FilesDated, NewestCopyKept, CopiesBounded, Present, TypeOK

LEMMA NextDayKeepsBackups ==
    ASSUME BackupInv, TypeOK, NextDay
    PROVE  BackupInv'
  BY StorageAssumption
     DEF BackupInv, FilesDated, NewestCopyKept, CopiesBounded, Present, NextDay, TypeOK

LEMMA StartCopyKeepsBackups ==
    ASSUME BackupInv, TypeOK, StartCopy
    PROVE  BackupInv'
  <1>1. /\ day \in 1 .. MaxDay /\ ran < day /\ newest <= ran /\ ran \in Nat /\ newest \in Nat
        /\ ran' = day /\ copying' = day /\ missed' = missed + 1
        /\ newest' = newest /\ day' = day
        /\ files' = [files EXCEPT ![day] = [kind |-> "broken"]]
    BY DEF StartCopy, BackupInv, FilesDated, TypeOK
  <1>2. Present(files') = Present(files) \cup {day}
    BY <1>1, PresentFinite DEF Present
  <1>3. Cardinality(Present(files')) <= Cardinality(Present(files)) + 1
    <2>1. Cardinality(Present(files) \cup {day})
            = IF day \in Present(files) THEN Cardinality(Present(files))
                                       ELSE Cardinality(Present(files)) + 1
      BY PresentFinite, FS_AddElement
    <2>2. Cardinality(Present(files)) \in Nat
      BY PresentFinite
    <2> QED BY <1>2, <2>1, <2>2
  <1>4. FilesDated'
    <2>1. \A d \in Present(files') : d <= day
      BY <1>1, <1>2, PresentFinite DEF BackupInv, FilesDated
    <2>2. day' \in 1 .. MaxDay /\ ran' <= day' /\ newest' <= ran' /\ newest' < copying'
      BY <1>1, StorageAssumption
    <2>3. copying' \in {0, ran'} /\ ran' = day
      BY <1>1
    <2> QED BY <2>1, <2>2, <2>3 DEF FilesDated
  <1>5. NewestCopyKept'
    BY <1>1, PresentFinite DEF BackupInv, NewestCopyKept, TypeOK
  <1>6. CopiesBounded'
    <2>1. Cardinality(Present(files)) \in Nat /\ Cardinality(Present(files')) \in Nat
      BY <1>2, PresentFinite, FS_AddElement, FS_CardinalityType
    <2>2. missed \in Nat /\ Keep \in Nat /\ Cardinality(Present(files)) <= Keep + missed
      BY StorageAssumption DEF TypeOK, BackupInv, CopiesBounded
    <2>3. Cardinality(Present(files')) <= Keep + (missed + 1)
      BY <1>3, <2>1, <2>2
    <2> QED BY <1>1, <2>3 DEF CopiesBounded
  <1> QED BY <1>4, <1>5, <1>6 DEF BackupInv

\* The copy that has just been completed is the youngest of all: it is not pruned,
\* and a pruning that ends leaves Keep files.
LEMMA FinishCopyKeepsBackups ==
    ASSUME BackupInv, TypeOK, FinishCopy
    PROVE  BackupInv'
  <1> DEFINE copied == [files EXCEPT ![copying] = [kind |-> "whole", db |-> db]]
  <1>1. /\ copying # 0 /\ newest' = copying /\ copying' = 0
        /\ day' = day /\ ran' = ran
    BY DEF FinishCopy
  <1>2. PICK gone \in SUBSET Stale(copied) :
           /\ files' = [d \in DOMAIN files |->
                           IF d \in gone THEN [kind |-> "none"] ELSE copied[d]]
           /\ IF gone = Stale(copied) THEN missed' = 0 ELSE missed' = missed
    BY DEF FinishCopy
  <1>3. /\ copying = ran /\ copying \in 1 .. MaxDay /\ day \in 1 .. MaxDay /\ ran <= day
        /\ files[copying].kind = "broken"
        /\ \A d \in Present(files) : d <= copying
    BY <1>1 DEF BackupInv, FilesDated, TypeOK
  <1>4. /\ DOMAIN copied = 1 .. MaxDay /\ copied[copying].kind = "whole"
        /\ \A d \in 1 .. MaxDay : d # copying => copied[d] = files[d]
    BY <1>3, PresentFinite
  <1>5. Present(copied) = Present(files)
    BY <1>3, <1>4, PresentFinite DEF Present
  <1> HIDE DEF copied
  <1>6. Stale(copied) \subseteq Present(files)
    BY <1>5 DEF Stale
  <1>7. Present(files') = Present(files) \ gone
    BY <1>2, <1>4, <1>5, <1>6, PresentFinite DEF Present
  <1>8. copying \notin gone
    <2>1. {e \in Present(copied) : e > copying} = {}
      BY <1>3, <1>5, PresentFinite
    <2>2. Cardinality({e \in Present(copied) : e > copying}) = 0
      BY <2>1, FS_EmptySet
    <2> QED BY <2>2, StorageAssumption DEF Stale
  <1>9. NewestCopyKept'
    BY <1>1, <1>2, <1>3, <1>4, <1>8, PresentFinite DEF NewestCopyKept
  <1>10. FilesDated'
    BY <1>1, <1>3, <1>7 DEF FilesDated
  <1>11. CopiesBounded'
    <2>1. /\ Cardinality(Present(files')) <= Cardinality(Present(files))
          /\ Cardinality(Present(files')) \in Nat /\ Cardinality(Present(files)) \in Nat
      BY <1>7, PresentFinite, FS_Subset, FS_CardinalityType
    <2>2. CASE gone = Stale(copied)
      <3>1. Stale(copied)
              = {d \in Present(files) : Cardinality({e \in Present(files) : e > d}) >= Keep}
        BY <1>5 DEF Stale
      <3>2. Cardinality(Present(files')) <= Keep
        BY <1>7, <2>2, <3>1, PresentFinite, StorageAssumption, KeptFew
      <3>3. missed' = 0
        BY <1>2, <2>2
      <3> QED BY <2>1, <3>2, <3>3, StorageAssumption DEF CopiesBounded
    <2>3. CASE gone # Stale(copied)
      <3>1. missed' = missed /\ missed \in Nat
        BY <1>2, <2>3 DEF TypeOK
      <3>2. Cardinality(Present(files)) <= Keep + missed
        BY DEF BackupInv, CopiesBounded
      <3> QED BY <2>1, <3>1, <3>2, StorageAssumption DEF CopiesBounded
    <2> QED BY <2>2, <2>3
  <1> QED BY <1>9, <1>10, <1>11 DEF BackupInv

-----------------------------------------------------------------------------
(* The start.                                                               *)

LEMMA MadeNone ==
    ASSUME TypeOK, at = 1 \/ ~Pending
    PROVE  Made = {}
  <1>1. CASE ~Pending
    BY <1>1 DEF Made
  <1>2. CASE Pending /\ at = 1
    <2>1. db.version + 1 \in 1 .. 4
      BY <1>2, ReleasesAre DEF Pending, TypeOK, Database
    <2>2. \A j \in DOMAIN Revision : ~(j < 1)
      BY <2>1, ScriptRows DEF Revision
    <2> QED BY <1>2, <2>2 DEF Made
  <1> QED BY <1>1, <1>2

LEMMA MadeAll ==
    ASSUME TypeOK, Pending, at \notin DOMAIN Revision
    PROVE  Made = Adds(db.version + 1)
  <1>1. db.version + 1 \in 1 .. 4 /\ at \in Nat \ {0}
    BY ReleasesAre DEF Pending, TypeOK, Database
  <1>2. \A j \in DOMAIN Revision : j < at
    BY <1>1, ScriptRows DEF Revision
  <1>3. {j \in DOMAIN Revision : j < at} = DOMAIN Revision
    BY <1>2
  <1> QED BY <1>3 DEF Made, Adds, Revision

LEMMA MadeNext ==
    ASSUME TypeOK, Statement
    PROVE  Made' = Made \cup Revision[at].adds
  <1>1. /\ Pending /\ at \in DOMAIN Revision /\ at' = at + 1
        /\ db'.version = db.version /\ up' = up /\ release' = release
    BY DEF Statement, TypeOK, Database
  <1>2. Pending' /\ Revision' = Revision
    BY <1>1 DEF Pending, Revision
  <1>3. db.version + 1 \in 1 .. 4
    BY <1>1, ReleasesAre DEF Pending, TypeOK, Database
  <1>4. \A j \in DOMAIN Revision : j \in Nat /\ at \in Nat
    BY <1>1, <1>3, ScriptRows DEF Revision
  <1>5. {j \in DOMAIN Revision : j < at + 1} = {j \in DOMAIN Revision : j < at} \cup {at}
    BY <1>1, <1>4
  <1> HIDE DEF Revision
  <1>6. Made' = UNION {Revision[i].adds : i \in {j \in DOMAIN Revision : j < at + 1}}
    BY <1>1, <1>2 DEF Made
  <1>7. Made = UNION {Revision[i].adds : i \in {j \in DOMAIN Revision : j < at}}
    BY <1>1 DEF Made
  <1> QED BY <1>5, <1>6, <1>7

\* create_all adds to the schema and takes nothing away.
LEMMA CreateAllAdds ==
    ASSUME TypeOK, NEW why \in {"no_ini", "clash", "error"}, CreateAll(why)
    PROVE  /\ db' \in Database /\ db.schema \subseteq db'.schema
           /\ db'.version = db.version /\ db'.rows = db.rows
           /\ db.marks \subseteq db'.marks
           /\ db'.marks = {} => db'.schema = db.schema /\ ~(at > 1)
  <1> DEFINE new == {c \in Required[release] : c[1] \notin Tables(db.schema)}
             added == CutMark \cup (IF new = {} THEN {} ELSE {"created"})
  <1>1. new \subseteq Columns
    BY ReleasesAre, ModelsCovered DEF TypeOK
  <1>2. added \subseteq {"cut", "created"} /\ (added = {} => new = {} /\ ~(at > 1))
    BY DEF CutMark
  <1>3. db' = [db EXCEPT !.schema = db.schema \cup new, !.marks = db.marks \cup added]
    BY Zenon DEF CreateAll
  <1> HIDE DEF new, added
  <1> QED BY <1>1, <1>2, <1>3 DEF TypeOK, Database

\* An earlier statement has a lower number.
LEMMA EarlierIsLower ==
    ASSUME NEW r \in 1 .. 4, NEW i \in DOMAIN Script[r], NEW q, NEW j, Earlier(q, j, r, i)
    PROVE  /\ q \in 1 .. 4 /\ j \in DOMAIN Script[q]
           /\ Place(q, j) < Place(r, i)
  <1>1. q \in 1 .. 4 /\ j \in DOMAIN Script[q] /\ (q < r \/ (q = r /\ j < i))
    BY Revisions DEF Earlier
  <1>2. \A k \in 1 .. 4 : k = 1 \/ k = 2 \/ k = 3 \/ k = 4
    OBVIOUS
  <1>3. /\ q = 1 => j \in 1 .. 9 /\ Place(q, j) = j
        /\ q = 2 => j \in 1 .. 8 /\ Place(q, j) = 9 + j
        /\ q = 3 => j = 1 /\ Place(q, j) = 18
        /\ q = 4 => j = 1 /\ Place(q, j) = 19
    BY <1>1, Lengths DEF Place
  <1>4. /\ r = 1 => i \in 1 .. 9 /\ Place(r, i) = i
        /\ r = 2 => i \in 1 .. 8 /\ Place(r, i) = 9 + i
        /\ r = 3 => i = 1 /\ Place(r, i) = 18
        /\ r = 4 => i = 1 /\ Place(r, i) = 19
    BY Lengths DEF Place
  <1> QED BY <1>1, <1>2, <1>3, <1>4

\* A schema that holds what the earlier statements have added, and nothing else.
LEMMA NothingClashes ==
    ASSUME NEW r \in 1 .. 4, NEW i \in DOMAIN Script[r],
           \A e : e \in db.schema <=> Brings(r, i, e)
    PROVE  ~Clashes(Script[r][i])
  <1> DEFINE s == Script[r][i]
             n == Place(r, i)
  <1>1. Fits(s, n) /\ n \in 1 .. 19
    BY Numbered
  <1>2. ASSUME NEW e \in db.schema
        PROVE  /\ Number(e[1], e[2]) \in Nat /\ Created(e[1]) <= Number(e[1], e[2])
               /\ Number(e[1], e[2]) < n
    <2>1. PICK q, j : Earlier(q, j, r, i) /\ e \in Script[q][j].adds
      BY DEF Brings
    <2>2. q \in 1 .. 4 /\ j \in DOMAIN Script[q] /\ Place(q, j) < n
      BY <2>1, EarlierIsLower
    <2>3. Fits(Script[q][j], Place(q, j)) /\ Place(q, j) \in 1 .. 19
      BY <2>2, Numbered
    <2>4. e[1] = Script[q][j].table /\ Number(e[1], e[2]) = Place(q, j)
      BY <2>1, <2>3 DEF Fits
    <2>5. Created(e[1]) <= Place(q, j)
      BY <2>3, <2>4 DEF Fits
    <2> QED BY <2>2, <2>3, <2>4, <2>5
  <1> HIDE DEF s, n
  <1>3. s.adds \cap db.schema = {}
    <2> SUFFICES ASSUME NEW e \in s.adds, e \in db.schema PROVE FALSE
      OBVIOUS
    <2>1. Number(e[1], e[2]) = n
      BY <1>1 DEF Fits
    <2> QED BY <1>1, <1>2, <2>1
  <1>4. ASSUME s.creates PROVE s.table \notin Tables(db.schema)
    <2> SUFFICES ASSUME NEW e \in db.schema, e[1] = s.table PROVE FALSE
      BY DEF Tables
    <2>1. Created(e[1]) = n
      BY <1>1, <1>4 DEF Fits
    <2> QED BY <1>1, <1>2, <2>1
  <1>5. ASSUME ~s.creates PROVE s.table \in Tables(db.schema) /\ s.needs \subseteq db.schema
    <2>1. /\ \E e : e[1] = s.table /\ Brings(r, i, e)
          /\ \A e \in s.needs : Brings(r, i, e)
      BY <1>5, Grounded DEF s
    <2>2. PICK e : e[1] = s.table /\ Brings(r, i, e)
      BY <2>1
    <2>3. e \in db.schema
      BY <2>2
    <2> QED BY <2>1, <2>2, <2>3 DEF Tables
  <1>6. ~Clashes(s)
    BY <1>3, <1>4, <1>5 DEF Clashes
  <1> QED BY <1>6 DEF s

\* A revision that meets the schema of its predecessor runs to its end.
LEMMA NeverClashes ==
    ASSUME TypeOK, Pending, at \in DOMAIN Revision,
           db.schema = Brought[db.version] \cup Made
    PROVE  ~Clashes(Revision[at])
  <1> DEFINE v == db.version
  <1>1. v \in 0 .. 3 /\ v + 1 \in 1 .. 4 /\ v \in 0 .. 4
    BY ReleasesAre DEF Pending, TypeOK, Database
  <1>2. Revision = Script[v + 1] /\ at \in DOMAIN Script[v + 1]
    BY DEF Revision
  <1>3. Brought[v] = UNION {Adds(q) : q \in 1 .. v}
    BY <1>1 DEF Brought
  <1>4. Made = UNION {Script[v + 1][i].adds : i \in {j \in DOMAIN Script[v + 1] : j < at}}
    BY <1>2 DEF Made
  <1> HIDE DEF v
  <1>5. ASSUME NEW e, e \in db.schema PROVE Brings(v + 1, at, e)
    <2>1. CASE e \in Brought[v]
      <3>1. PICK q \in 1 .. v : e \in Adds(q)
        BY <1>3, <2>1
      <3>2. PICK j \in DOMAIN Script[q] : e \in Script[q][j].adds
        BY <3>1 DEF Adds
      <3>3. Earlier(q, j, v + 1, at)
        BY <1>1, ScriptRows, ReleasesAre DEF Earlier
      <3> QED BY <3>2, <3>3 DEF Brings
    <2>2. CASE e \in Made
      <3>1. PICK j \in DOMAIN Script[v + 1] : j < at /\ e \in Script[v + 1][j].adds
        BY <1>4, <2>2
      <3>2. Earlier(v + 1, j, v + 1, at)
        BY <1>1, <3>1, ScriptRows, ReleasesAre DEF Earlier
      <3> QED BY <3>1, <3>2 DEF Brings
    <2> QED BY <1>5, <2>1, <2>2 DEF v
  <1>6. ASSUME NEW e, Brings(v + 1, at, e) PROVE e \in db.schema
    <2>1. PICK q, j : Earlier(q, j, v + 1, at) /\ e \in Script[q][j].adds
      BY <1>6 DEF Brings
    <2>2. q \in 1 .. 4 /\ j \in DOMAIN Script[q] /\ (q < v + 1 \/ (q = v + 1 /\ j < at))
      BY <2>1, ScriptRows, ReleasesAre DEF Earlier
    <2>3. CASE q < v + 1
      <3>1. q \in 1 .. v /\ e \in Adds(q)
        BY <1>1, <2>1, <2>2, <2>3 DEF Adds
      <3>2. e \in Brought[v]
        BY <1>3, <3>1
      <3> QED BY <3>2 DEF v
    <2>4. CASE q = v + 1 /\ j < at
      <3>1. e \in Made
        BY <1>4, <2>1, <2>2, <2>4
      <3> QED BY <3>1
    <2> QED BY <2>2, <2>3, <2>4
  <1>7. \A e : e \in db.schema <=> Brings(v + 1, at, e)
    BY <1>5, <1>6
  <1>8. ~Clashes(Script[v + 1][at])
    BY <1>1, <1>2, <1>7, NothingClashes
  <1> QED BY <1>2, <1>8

-----------------------------------------------------------------------------
(* Steps of the start keep the schema's invariant.                          *)

\* The versions of the copies do not change in a step that leaves them alone.
CopiesFit ==
    /\ \A d \in DOMAIN files : files[d].kind = "whole" => Honest(files[d].db)
    /\ \A d \in DOMAIN files : files[d].kind = "whole" => files[d].db.version <= release
    /\ \A d \in DOMAIN files : files[d].kind = "whole" /\ files[d].db.marks = {}
          => files[d].db.schema = Brought[files[d].db.version]

LEMMA CopiesStayFit ==
    ASSUME SchemaInv, UNCHANGED files, release' >= release, release' \in Nat
    PROVE  CopiesFit'
  <1>1. \A d \in DOMAIN files : files[d].kind = "whole" => files[d].db.version \in 0 .. 4
    BY ReleasesAre DEF SchemaInv, TypeOK, File, Database
  <1>2. release \in Nat
    BY ReleasesAre DEF SchemaInv, TypeOK
  <1> QED BY <1>1, <1>2 DEF SchemaInv, VersionHonest, NotAhead, Uncut, CopiesFit

LEMMA CreateAllKeepsSchema ==
    ASSUME SchemaInv, up # "running", trouble' \in Nat,
           NEW why \in {"no_ini", "clash", "error"}, CreateAll(why),
           why = "clash" => Pending /\ at \in DOMAIN Revision /\ Clashes(Revision[at])
    PROVE  SchemaInv'
  <1>1. /\ TypeOK /\ up' = "running" /\ at' = 1 /\ fallback' = why /\ release' = release
        /\ UNCHANGED <<files, copying, day, ran, newest, missed>>
    BY DEF SchemaInv, CreateAll, backups
  <1>2. /\ db' \in Database /\ db.schema \subseteq db'.schema
        /\ db'.version = db.version /\ db'.rows = db.rows
        /\ db.marks \subseteq db'.marks
        /\ db'.marks = {} => db'.schema = db.schema /\ ~(at > 1)
    BY <1>1, CreateAllAdds
  <1>3. TypeOK'
    BY <1>1, <1>2 DEF TypeOK
  <1>4. CopiesFit'
    BY <1>1, CopiesStayFit, ReleasesAre DEF TypeOK
  <1>5. Honest(db')
    BY <1>2 DEF SchemaInv, VersionHonest, Honest
  <1>6. Made' = {}
    BY <1>1 DEF Made, Pending
  <1>7. db'.marks = {} => db'.schema = Brought[db'.version]
    <2> SUFFICES ASSUME db'.marks = {} PROVE db'.schema = Brought[db'.version]
      OBVIOUS
    <2>1. db.marks = {} /\ at = 1
      BY <1>1, <1>2 DEF TypeOK
    <2> QED BY <1>1, <1>2, <2>1, MadeNone DEF SchemaInv, Uncut
  <1>8. why = "clash" => db'.marks # {}
    BY <1>1, <1>2, NeverClashes DEF SchemaInv, Uncut
  <1>9. VersionHonest' /\ NotAhead'
    BY <1>1, <1>2, <1>4, <1>5 DEF SchemaInv, VersionHonest, NotAhead, CopiesFit
  <1>10. Midway' /\ Uncut'
    BY <1>1, <1>4, <1>6, <1>7, <1>8 DEF Midway, Uncut, CopiesFit
  <1> QED BY <1>3, <1>9, <1>10 DEF SchemaInv

\* A step that leaves the database, its copies and the release alone keeps the
\* invariant if the start it belongs to makes no claim it cannot keep.
LEMMA QuietKeepsSchema ==
    ASSUME SchemaInv, TypeOK', UNCHANGED <<db, files, release>>, Made' = {},
           Made = {}, up' = "migrating" => fallback' = "no",
           up' = "running" =>
               \/ up = "running" /\ fallback' = fallback
               \/ db.version = release /\ fallback' = "no"
    PROVE  SchemaInv'
  <1>1. CopiesFit'
    BY CopiesStayFit, ReleasesAre DEF SchemaInv, TypeOK
  <1>2. VersionHonest' /\ NotAhead'
    BY <1>1 DEF SchemaInv, VersionHonest, NotAhead, CopiesFit
  <1>3. Midway' /\ Uncut'
    BY <1>1 DEF SchemaInv, Midway, Uncut, CopiesFit
  <1> QED BY <1>2, <1>3 DEF SchemaInv

LEMMA StartKeepsSchema ==
    ASSUME SchemaInv, Start
    PROVE  SchemaInv'
  <1>1. TypeOK' /\ UNCHANGED <<db, files, release>> /\ up' = "migrating" /\ at' = 1
        /\ fallback' = "no"
    BY DEF SchemaInv, TypeOK, Start, backups
  <1>2. Made = {}
    BY MadeNone DEF SchemaInv, Start, Pending
  <1>3. Made' = {}
    <2>1. CASE ~Pending'
      BY <2>1 DEF Made
    <2>2. CASE Pending'
      <3>1. db.version + 1 \in 1 .. 4
        BY <1>1, <2>2, ReleasesAre DEF Pending, TypeOK, Database
      <3>2. \A j \in DOMAIN Revision : ~(j < 1)
        BY <3>1, ScriptRows DEF Revision
      <3>3. Revision' = Revision
        BY <1>1 DEF Revision
      <3> QED BY <1>1, <2>2, <3>2, <3>3 DEF Made
    <2> QED BY <2>1, <2>2
  <1> QED BY <1>1, <1>2, <1>3, QuietKeepsSchema

LEMMA StatementKeepsSchema ==
    ASSUME SchemaInv, Statement
    PROVE  SchemaInv'
  <1> USE DEF SchemaInv
  <1>1. /\ Pending /\ at \in DOMAIN Revision /\ up = "migrating" /\ up' = "migrating"
        /\ at' = at + 1 /\ UNCHANGED <<release, fallback, files, trouble, copying>>
        /\ UNCHANGED <<day, ran, newest, missed>>
    BY DEF Statement, backups, Pending
  <1>2. Revision[at].adds \subseteq Columns
    <2>1. db.version + 1 \in Releases
      BY <1>1, ReleasesAre DEF Pending, TypeOK, Database
    <2>2. Revision[at].adds \subseteq Adds(db.version + 1)
      BY <1>1 DEF Adds, Revision
    <2> QED BY <2>1, <2>2, BroughtGrows, ReleasesAre
  <1>3. db' = [db EXCEPT !.schema = db.schema \cup Revision[at].adds]
    BY Zenon DEF Statement
  <1> HIDE DEF Revision
  <1>4. /\ db' \in Database /\ db'.schema = db.schema \cup Revision[at].adds
        /\ db'.version = db.version /\ db'.rows = db.rows /\ db'.marks = db.marks
    BY <1>2, <1>3 DEF TypeOK, Database
  <1>5. TypeOK'
    BY <1>1, <1>4 DEF TypeOK
  <1>6. CopiesFit'
    BY <1>1, CopiesStayFit, ReleasesAre DEF TypeOK
  <1>7. VersionHonest' /\ NotAhead'
    BY <1>1, <1>4, <1>6 DEF VersionHonest, NotAhead, CopiesFit, Honest
  <1>8. Made' = Made \cup Revision[at].adds
    BY MadeNext
  <1>9. Midway' /\ Uncut'
    BY <1>1, <1>4, <1>6, <1>8 DEF Midway, Uncut, CopiesFit
  <1> QED BY <1>5, <1>7, <1>9

LEMMA StampKeepsSchema ==
    ASSUME SchemaInv, Stamp
    PROVE  SchemaInv'
  <1> USE DEF SchemaInv
  <1>1. /\ Pending /\ at \notin DOMAIN Revision /\ up = "migrating" /\ up' = "migrating"
        /\ at' = 1 /\ UNCHANGED <<release, fallback, files, trouble, copying>>
        /\ UNCHANGED <<day, ran, newest, missed>>
    BY DEF Stamp, backups, Pending
  <1>2. db.version \in 0 .. 3 /\ db.version < release /\ release \in 1 .. 4
    BY <1>1, ReleasesAre DEF Pending, TypeOK, Database
  <1>3. PICK rows \in {"none", "loose", "owned"} :
           /\ db' = [db EXCEPT !.version = db.version + 1, !.rows = rows]
           /\ db.version + 1 = 2 => rows # "loose"
           /\ db.version + 1 # 2 => rows = db.rows
    <2> DEFINE r == IF db.version + 1 = 2 /\ db.rows = "loose" THEN "owned" ELSE db.rows
    <2>1. db' = [db EXCEPT !.version = db.version + 1, !.rows = r]
      BY Zenon DEF Stamp
    <2>2. /\ r \in {"none", "loose", "owned"} /\ (db.version + 1 = 2 => r # "loose")
          /\ (db.version + 1 # 2 => r = db.rows)
      BY DEF TypeOK, Database
    <2> QED BY <2>1, <2>2
  <1>4. /\ db' \in Database /\ db'.schema = db.schema
        /\ db'.version = db.version + 1 /\ db'.rows = rows /\ db'.marks = db.marks
    <2>1. db.version + 1 \in Releases \cup {0}
      BY <1>2, ReleasesAre
    <2>2. db \in Database
      BY DEF TypeOK
    <2> QED BY <1>3, <2>1, <2>2 DEF Database
  <1>5. TypeOK'
    BY <1>1, <1>4 DEF TypeOK
  <1>6. CopiesFit'
    BY <1>1, CopiesStayFit, ReleasesAre DEF TypeOK
  <1>7. /\ Brought[db.version + 1] = Brought[db.version] \cup Adds(db.version + 1)
        /\ Made = Adds(db.version + 1)
    BY <1>1, <1>2, MadeAll, BroughtGrows
  <1>8. Honest(db')
    <2>1. Brought[db'.version] \subseteq db'.schema
      BY <1>4, <1>7 DEF VersionHonest, Honest, Midway
    <2>2. db'.version >= 2 => db'.rows # "loose"
      BY <1>2, <1>3, <1>4 DEF VersionHonest, Honest
    <2> QED BY <2>1, <2>2 DEF Honest
  <1>9. VersionHonest' /\ NotAhead'
    BY <1>1, <1>2, <1>4, <1>6, <1>8 DEF VersionHonest, NotAhead, CopiesFit
  <1>10. Made' = {}
    <2>1. CASE ~Pending'
      BY <2>1 DEF Made
    <2>2. CASE Pending'
      <3>1. db'.version + 1 \in 1 .. 4
        <4>1. db'.version < release'
          BY <2>2 DEF Pending
        <4> QED BY <1>1, <1>2, <1>4, <4>1
      <3>2. \A j \in DOMAIN Revision' : ~(j < 1)
        BY <3>1, ScriptRows DEF Revision
      <3> QED BY <1>1, <2>2, <3>2 DEF Made
    <2> QED BY <2>1, <2>2
  <1>11. Midway' /\ Uncut'
    BY <1>1, <1>4, <1>6, <1>7, <1>10 DEF Midway, Uncut, CopiesFit
  <1> QED BY <1>5, <1>9, <1>11

LEMMA UpgradedKeepsSchema ==
    ASSUME SchemaInv, Upgraded
    PROVE  SchemaInv'
  <1>1. /\ up = "migrating" /\ ~Pending /\ up' = "running"
        /\ UNCHANGED <<db, files, release, fallback, at>> /\ ~Pending'
    BY DEF Upgraded, backups, Pending
  <1>2. Made = {} /\ Made' = {}
    BY <1>1 DEF Made
  <1>3. TypeOK'
    BY <1>1 DEF SchemaInv, TypeOK, Upgraded, backups
  <1>4. db.version = release
    BY <1>1, ReleasesAre DEF Pending, SchemaInv, NotAhead, TypeOK, Database
  <1>5. fallback = "no"
    BY <1>1 DEF SchemaInv, Uncut
  <1> QED BY <1>1, <1>2, <1>3, <1>4, <1>5, QuietKeepsSchema

LEMMA CrashKeepsSchema ==
    ASSUME SchemaInv, Crash
    PROVE  SchemaInv'
  <1>1. /\ up # "down" /\ up' = "down" /\ at' = 1 /\ copying' = 0
        /\ UNCHANGED <<release, fallback, day, ran, files, newest, missed>>
        /\ trouble' = trouble + 1
    BY DEF Crash, Trouble
  <1>2. CutMark \subseteq {"cut"} /\ (CutMark = {} => ~(at > 1))
    BY DEF CutMark
  <1>3. db' = [db EXCEPT !.marks = db.marks \cup CutMark]
    BY Zenon DEF Crash
  <1>4. db \in Database
    BY DEF SchemaInv, TypeOK
  <1>5. /\ db' \in Database /\ db'.schema = db.schema
        /\ db'.version = db.version /\ db'.rows = db.rows
        /\ db'.marks = db.marks \cup CutMark
    BY <1>2, <1>3, <1>4 DEF Database
  <1>6. TypeOK'
    BY <1>1, <1>5, StorageAssumption DEF SchemaInv, TypeOK
  <1>7. CopiesFit'
    BY <1>1, CopiesStayFit, ReleasesAre DEF SchemaInv, TypeOK
  <1>8. VersionHonest' /\ NotAhead'
    BY <1>1, <1>5, <1>7 DEF SchemaInv, VersionHonest, NotAhead, CopiesFit, Honest
  <1>9. Made' = {}
    BY <1>1 DEF Made, Pending
  <1>10. db'.marks = {} => db'.schema = Brought[db'.version]
    <2> SUFFICES ASSUME db'.marks = {} PROVE db'.schema = Brought[db'.version]
      OBVIOUS
    <2>1. db.marks = {} /\ at = 1
      BY <1>2, <1>5 DEF SchemaInv, TypeOK
    <2> QED BY <1>5, <2>1, MadeNone DEF SchemaInv, Uncut
  <1>11. Midway' /\ Uncut'
    BY <1>1, <1>7, <1>9, <1>10 DEF Midway, Uncut, CopiesFit
  <1> QED BY <1>6, <1>8, <1>11 DEF SchemaInv

LEMMA DeployKeepsSchema ==
    ASSUME SchemaInv, Deploy
    PROVE  SchemaInv'
  <1>1. /\ up = "running" /\ up' = "down" /\ copying = 0
        /\ UNCHANGED <<db, files, fallback, at, copying, day, ran, newest, missed, trouble>>
        /\ release' \in Releases /\ release' > release
    BY DEF Deploy, backups
  <1>2. Made = {} /\ Made' = {}
    BY <1>1 DEF Made, Pending
  <1>3. TypeOK'
    BY <1>1 DEF SchemaInv, TypeOK
  <1>4. release \in Nat /\ release' \in Nat /\ release' >= release
    BY <1>1, ReleasesAre DEF SchemaInv, TypeOK
  <1>5. CopiesFit'
    BY <1>1, <1>4, CopiesStayFit
  <1>6. db.version \in Nat /\ db.version <= release'
    BY <1>1, <1>4, ReleasesAre DEF SchemaInv, NotAhead, TypeOK, Database
  <1>7. VersionHonest' /\ NotAhead'
    BY <1>1, <1>5, <1>6 DEF SchemaInv, VersionHonest, NotAhead, CopiesFit
  <1>8. Midway' /\ Uncut'
    BY <1>1, <1>2, <1>5 DEF SchemaInv, Midway, Uncut, CopiesFit
  <1> QED BY <1>3, <1>7, <1>8 DEF SchemaInv

LEMMA StoreRowKeepsSchema ==
    ASSUME SchemaInv, StoreRow
    PROVE  SchemaInv'
  <1>1. /\ up = "running" /\ Required[release] \subseteq db.schema
        /\ UNCHANGED <<files, release, up, at, fallback, copying, day, ran, newest,
                       missed, trouble>>
    BY DEF StoreRow, process, backups
  <1>2. PICK rows \in {"none", "loose", "owned"} :
           /\ db' = [db EXCEPT !.rows = rows]
           /\ release # 1 => (rows = "loose" => db.rows = "loose")
    <2> DEFINE r == IF release = 1 THEN "loose"
                    ELSE IF db.rows = "none" THEN "owned" ELSE db.rows
    <2>1. db' = [db EXCEPT !.rows = r]
      BY Zenon DEF StoreRow
    <2>2. r \in {"none", "loose", "owned"} /\ (release # 1 => (r = "loose" => db.rows = "loose"))
      BY DEF SchemaInv, TypeOK, Database
    <2> QED BY <2>1, <2>2
  <1>3. db \in Database
    BY DEF SchemaInv, TypeOK
  <1>4. /\ db' \in Database /\ db'.schema = db.schema
        /\ db'.version = db.version /\ db'.marks = db.marks /\ db'.rows = rows
    BY <1>2, <1>3 DEF Database
  <1>5. Honest(db')
    <2>1. release = 1 => ~(db.version >= 2)
      BY <1>3, ReleasesAre DEF SchemaInv, NotAhead, Database
    <2> QED BY <1>2, <1>4, <2>1 DEF SchemaInv, VersionHonest, Honest
  <1>6. TypeOK'
    BY <1>1, <1>4 DEF SchemaInv, TypeOK
  <1>7. CopiesFit'
    BY <1>1, CopiesStayFit, ReleasesAre DEF SchemaInv, TypeOK
  <1>8. VersionHonest' /\ NotAhead'
    BY <1>1, <1>4, <1>5, <1>7 DEF SchemaInv, VersionHonest, NotAhead, CopiesFit
  <1>9. Made = {} /\ Made' = {}
    BY <1>1 DEF Made, Pending
  <1>10. Midway' /\ Uncut'
    BY <1>1, <1>4, <1>7, <1>9 DEF SchemaInv, Midway, Uncut, CopiesFit
  <1> QED BY <1>6, <1>8, <1>10 DEF SchemaInv

LEMMA RestoreKeepsSchema ==
    ASSUME SchemaInv, Restore
    PROVE  SchemaInv'
  <1>1. /\ up = "down" /\ trouble' = trouble + 1
        /\ UNCHANGED <<files, release, up, at, fallback, copying, day, ran, newest, missed>>
    BY DEF Restore, process, backups, Trouble
  <1>2. PICK d \in DOMAIN files : files[d].kind = "whole" /\ db' = files[d].db
    BY DEF Restore
  <1>3. db' \in Database
    BY <1>2 DEF SchemaInv, TypeOK, File
  <1>4. TypeOK'
    BY <1>1, <1>3 DEF SchemaInv, TypeOK
  <1>5. CopiesFit'
    BY <1>1, CopiesStayFit, ReleasesAre DEF SchemaInv, TypeOK
  <1>6. VersionHonest' /\ NotAhead'
    BY <1>1, <1>2, <1>5 DEF SchemaInv, VersionHonest, NotAhead, CopiesFit
  <1>7. Made' = {}
    BY <1>1 DEF Made, Pending
  <1>8. Midway' /\ Uncut'
    BY <1>1, <1>2, <1>5, <1>7 DEF Midway, Uncut, CopiesFit
  <1> QED BY <1>4, <1>6, <1>8 DEF SchemaInv

-----------------------------------------------------------------------------
(* Steps of the nightly copy keep the schema's invariant.                   *)

LEMMA CopyStepKeepsSchema ==
    ASSUME SchemaInv, TypeOK', CopiesFit', UNCHANGED <<db, process>>
    PROVE  SchemaInv'
  <1>1. UNCHANGED <<db, release, up, at, fallback>>
    BY DEF process
  <1>2. VersionHonest' /\ NotAhead'
    BY <1>1 DEF SchemaInv, VersionHonest, NotAhead, CopiesFit
  <1>3. Made' = Made
    BY <1>1 DEF Made, Pending, Revision
  <1>4. Midway' /\ Uncut'
    BY <1>1, <1>3 DEF SchemaInv, Midway, Uncut, CopiesFit
  <1> QED BY <1>2, <1>4 DEF SchemaInv

LEMMA NextDayKeepsSchema ==
    ASSUME SchemaInv, NextDay
    PROVE  SchemaInv'
  <1>1. /\ day' = day + 1 /\ UNCHANGED <<db, process>>
        /\ UNCHANGED <<release, up, at, fallback, ran, copying, files, newest, missed, trouble>>
    BY DEF NextDay, process
  <1>2. TypeOK'
    BY <1>1 DEF SchemaInv, TypeOK
  <1>3. CopiesFit'
    BY <1>1, CopiesStayFit, ReleasesAre DEF SchemaInv, TypeOK
  <1> QED BY <1>1, <1>2, <1>3, CopyStepKeepsSchema

LEMMA CopyFailsKeepsSchema ==
    ASSUME SchemaInv, CopyFails
    PROVE  SchemaInv'
  <1>1. /\ copying' = 0 /\ UNCHANGED <<db, process>> /\ trouble' = trouble + 1
        /\ UNCHANGED <<release, up, at, fallback, day, ran, files, newest, missed>>
    BY DEF CopyFails, process, Trouble
  <1>2. TypeOK'
    BY <1>1, StorageAssumption DEF SchemaInv, TypeOK
  <1>3. CopiesFit'
    BY <1>1, CopiesStayFit, ReleasesAre DEF SchemaInv, TypeOK
  <1> QED BY <1>1, <1>2, <1>3, CopyStepKeepsSchema

LEMMA StartCopyKeepsSchema ==
    ASSUME SchemaInv, FilesDated, StartCopy
    PROVE  SchemaInv'
  <1>1. /\ up = "running" /\ copying' = day /\ missed' = missed + 1 /\ ran' = day
        /\ UNCHANGED <<db, process>> /\ day \in 1 .. MaxDay
        /\ UNCHANGED <<release, up, at, fallback, day, newest, trouble>>
        /\ files' = [files EXCEPT ![day] = [kind |-> "broken"]]
    BY DEF StartCopy, process, FilesDated
  <1>2. [kind |-> "broken"] \in File
    BY DEF File
  <1>3. /\ files' \in [1 .. MaxDay -> File] /\ files'[day].kind = "broken"
        /\ DOMAIN files = 1 .. MaxDay
        /\ \A d \in DOMAIN files : d # day => files'[d] = files[d]
    BY <1>1, <1>2 DEF SchemaInv, TypeOK
  <1>4. TypeOK'
    BY <1>1, <1>3, StorageAssumption DEF SchemaInv, TypeOK
  <1>5. CopiesFit'
    BY <1>1, <1>3 DEF SchemaInv, VersionHonest, NotAhead, Uncut, CopiesFit
  <1> QED BY <1>1, <1>4, <1>5, CopyStepKeepsSchema

LEMMA FinishCopyKeepsSchema ==
    ASSUME SchemaInv, FinishCopy
    PROVE  SchemaInv'
  <1> DEFINE copied == [files EXCEPT ![copying] = [kind |-> "whole", db |-> db]]
  <1>1. /\ copying # 0 /\ newest' = copying /\ copying' = 0
        /\ UNCHANGED <<db, process>> /\ UNCHANGED <<release, up, at, fallback, day, ran>>
    BY DEF FinishCopy, process
  <1>2. PICK gone \in SUBSET Stale(copied) :
           /\ files' = [d \in DOMAIN files |->
                           IF d \in gone THEN [kind |-> "none"] ELSE copied[d]]
           /\ IF gone = Stale(copied) THEN missed' = 0 /\ trouble' = trouble
                                      ELSE missed' = missed /\ trouble' = trouble + 1
    BY DEF FinishCopy, Trouble
  <1>3. copying \in 1 .. MaxDay /\ up = "running" /\ DOMAIN files = 1 .. MaxDay
    BY <1>1, StorageAssumption DEF SchemaInv, TypeOK
  <1>4. [kind |-> "none"] \in File /\ [kind |-> "whole", db |-> db] \in File
    BY DEF SchemaInv, TypeOK, File
  <1>5. /\ DOMAIN copied = 1 .. MaxDay /\ copied[copying] = [kind |-> "whole", db |-> db]
        /\ \A d \in 1 .. MaxDay : d # copying => copied[d] = files[d]
        /\ \A d \in 1 .. MaxDay : copied[d] \in File
    BY <1>3, <1>4 DEF SchemaInv, TypeOK
  <1> HIDE DEF copied
  <1>6. /\ files' \in [1 .. MaxDay -> File] /\ DOMAIN files' = DOMAIN files
        /\ \A d \in DOMAIN files : files'[d].kind = "whole" =>
              files'[d] = IF d = copying THEN [kind |-> "whole", db |-> db] ELSE files[d]
    BY <1>2, <1>3, <1>4, <1>5
  <1>7. missed' \in Nat /\ trouble' \in Nat
    BY <1>2 DEF SchemaInv, TypeOK
  <1>8. TypeOK'
    BY <1>1, <1>3, <1>6, <1>7, StorageAssumption DEF SchemaInv, TypeOK
  <1>9. /\ Honest(db) /\ db.version <= release
        /\ db.marks = {} => db.schema = Brought[db.version]
    BY <1>3, MadeNone DEF SchemaInv, VersionHonest, NotAhead, Uncut, Pending
  <1>10. CopiesFit'
    <2> SUFFICES ASSUME NEW d \in DOMAIN files, files'[d].kind = "whole"
                 PROVE  /\ Honest(files'[d].db)
                        /\ files'[d].db.version <= release
                        /\ files'[d].db.marks = {}
                              => files'[d].db.schema = Brought[files'[d].db.version]
      BY <1>1, <1>6 DEF CopiesFit
    <2>1. CASE d = copying
      <3>1. files'[d].db = db
        BY <1>6, <2>1
      <3> QED BY <1>9, <3>1
    <2>2. CASE d # copying
      <3>1. files'[d] = files[d]
        BY <1>6, <2>2
      <3> QED BY <3>1 DEF SchemaInv, VersionHonest, NotAhead, Uncut
    <2> QED BY <2>1, <2>2
  <1> QED BY <1>1, <1>8, <1>10, CopyStepKeepsSchema

-----------------------------------------------------------------------------
LEMMA InitIInv == Init => IInv
  <1> SUFFICES ASSUME Init PROVE IInv
    OBVIOUS
  <1>1. /\ db = EmptyDb /\ release \in Releases /\ up = "down" /\ at = 1
        /\ fallback = "no" /\ day = 1 /\ ran = 0 /\ copying = 0 /\ newest = 0
        /\ missed = 0 /\ trouble = 0
        /\ files = [d \in 1 .. MaxDay |-> [kind |-> "none"]]
    BY DEF Init
  <1>2. db \in Database /\ db.schema = {} /\ db.version = 0 /\ db.rows = "none"
    BY <1>1 DEF EmptyDb, Database
  <1>3. [kind |-> "none"] \in File
    BY DEF File
  <1>4. /\ files \in [1 .. MaxDay -> File] /\ DOMAIN files = 1 .. MaxDay
        /\ \A d \in DOMAIN files : files[d].kind = "none"
    BY <1>1, <1>3
  <1>5. TypeOK
    BY <1>1, <1>2, <1>4, StorageAssumption DEF TypeOK
  <1>6. Honest(db)
    BY <1>2, BroughtGrows DEF Honest
  <1>7. VersionHonest /\ NotAhead
    BY <1>1, <1>2, <1>4, <1>6, ReleasesAre DEF VersionHonest, NotAhead
  <1>8. Made = {}
    BY <1>1 DEF Made, Pending
  <1>9. Midway /\ Uncut
    BY <1>1, <1>2, <1>4, <1>8, BroughtGrows DEF Midway, Uncut
  <1>10. Present(files) = {}
    BY <1>4 DEF Present
  <1>11. BackupInv
    <2>1. Cardinality(Present(files)) = 0
      BY <1>10, FS_EmptySet
    <2> QED BY <1>1, <1>10, <2>1, StorageAssumption
            DEF BackupInv, FilesDated, NewestCopyKept, CopiesBounded
  <1> QED BY <1>5, <1>7, <1>9, <1>11 DEF IInv, SchemaInv

\* Every action keeps both halves of the invariant.
LEMMA NextKeepsIInv == IInv /\ [Next]_vars => IInv'
  <1> SUFFICES ASSUME IInv, [Next]_vars PROVE IInv'
    OBVIOUS
  <1>0. SchemaInv /\ BackupInv /\ TypeOK /\ FilesDated /\ trouble \in Nat
    BY DEF IInv, SchemaInv, BackupInv, TypeOK
  <1>1. ASSUME SchemaInv', UNCHANGED <<day, ran, files, newest, missed>>,
               copying' \in {0, copying}
        PROVE  IInv'
    BY <1>0, <1>1, QuietKeepsBackups DEF IInv
  <1>2. CASE Start
    BY <1>0, <1>1, <1>2, StartKeepsSchema DEF Start, backups
  <1>3. CASE StartWithoutIni
    <2>1. CreateAll("no_ini") /\ up # "running" /\ trouble' \in Nat
      BY <1>0, <1>3 DEF StartWithoutIni, Trouble
    <2>2. SchemaInv'
      BY <1>0, <2>1, CreateAllKeepsSchema
    <2> QED BY <1>1, <2>1, <2>2 DEF CreateAll, backups
  <1>4. CASE Statement
    BY <1>0, <1>1, <1>4, StatementKeepsSchema DEF Statement, backups
  <1>5. CASE Stamp
    BY <1>0, <1>1, <1>5, StampKeepsSchema DEF Stamp, backups
  <1>6. CASE Upgraded
    BY <1>0, <1>1, <1>6, UpgradedKeepsSchema DEF Upgraded, backups
  <1>7. CASE FallBack
    <2>1. /\ CreateAll("clash") /\ up # "running" /\ trouble' \in Nat
          /\ Pending /\ at \in DOMAIN Revision /\ Clashes(Revision[at])
      BY <1>0, <1>7 DEF FallBack, Pending
    <2>2. SchemaInv'
      BY <1>0, <2>1, CreateAllKeepsSchema
    <2> QED BY <1>1, <2>1, <2>2 DEF CreateAll, backups
  <1>8. CASE UpgradeError
    <2>1. CreateAll("error") /\ up # "running" /\ trouble' \in Nat
      BY <1>0, <1>8 DEF UpgradeError, Trouble
    <2>2. SchemaInv'
      BY <1>0, <2>1, CreateAllKeepsSchema
    <2> QED BY <1>1, <2>1, <2>2 DEF CreateAll, backups
  <1>9. CASE Crash
    BY <1>0, <1>1, <1>9, CrashKeepsSchema DEF Crash
  <1>10. CASE Deploy
    BY <1>0, <1>1, <1>10, DeployKeepsSchema DEF Deploy, backups
  <1>11. CASE StoreRow
    BY <1>0, <1>1, <1>11, StoreRowKeepsSchema DEF StoreRow, backups
  <1>12. CASE NextDay
    BY <1>0, <1>12, NextDayKeepsSchema, NextDayKeepsBackups DEF IInv
  <1>13. CASE StartCopy
    BY <1>0, <1>13, StartCopyKeepsSchema, StartCopyKeepsBackups DEF IInv
  <1>14. CASE CopyFails
    BY <1>0, <1>1, <1>14, CopyFailsKeepsSchema DEF CopyFails
  <1>15. CASE FinishCopy
    BY <1>0, <1>15, FinishCopyKeepsSchema, FinishCopyKeepsBackups DEF IInv
  <1>16. CASE Restore
    BY <1>0, <1>1, <1>16, RestoreKeepsSchema DEF Restore, backups
  <1>17. CASE UNCHANGED vars
    <2>1. UNCHANGED <<db, process>> /\ UNCHANGED <<day, ran, copying, files, newest, missed>>
      BY <1>17 DEF vars, process
    <2>2. TypeOK'
      BY <1>0, <1>17 DEF vars, TypeOK
    <2>3. CopiesFit'
      BY <1>0, <1>17, CopiesStayFit, ReleasesAre DEF vars, TypeOK
    <2>4. SchemaInv'
      BY <1>0, <2>1, <2>2, <2>3, CopyStepKeepsSchema
    <2> QED BY <1>1, <2>1, <2>4
  <1> QED BY <1>2, <1>3, <1>4, <1>5, <1>6, <1>7, <1>8, <1>9, <1>10, <1>11, <1>12,
             <1>13, <1>14, <1>15, <1>16, <1>17 DEF Next

LEMMA Invariant == Spec => []IInv
  BY InitIInv, NextKeepsIInv, PTL DEF Spec

-----------------------------------------------------------------------------
\* Type correctness: every file keeps its form and the copy under way stays a
\* running process's (run_migrations, backup_database).
THEOREM TypeCorrect == Spec => []TypeOK
  <1>1. IInv => TypeOK
    BY DEF IInv, SchemaInv
  <1> QED BY <1>1, Invariant, PTL

\* However starts are cut, errors met, releases deployed and copies restored, the
\* version in the database and in every whole copy is true (alembic/versions, env.py).
THEOREM VersionIsHonest == Spec => []VersionHonest
  <1>1. IInv => VersionHonest
    BY DEF IInv, SchemaInv
  <1> QED BY <1>1, Invariant, PTL

\* A start that meets no trouble, with a file no trouble has touched before, ends with
\* every column and index that db/models.py names: no statement of the revisions clashes
\* with an earlier one, and together they bring what the models need (run_migrations).
THEOREM UpgradesReachSchema == Spec => []UpgradesWork
  <1>1. IInv => UpgradesWork
    <2> SUFFICES ASSUME IInv, up = "running", db.marks = {}, fallback \in {"no", "clash"}
                 PROVE  Required[release] \subseteq db.schema
      BY DEF UpgradesWork
    <2>1. db.version = release /\ release \in 1 .. 4
      BY ReleasesAre DEF IInv, SchemaInv, Uncut, TypeOK
    <2>2. Brought[release] \subseteq db.schema
      BY <2>1 DEF IInv, SchemaInv, VersionHonest, Honest
    <2> QED BY <2>1, <2>2, ModelsCovered
  <1> QED BY <1>1, Invariant, PTL

\* No failed, cut or partly pruned run takes the last complete copy
\* (backup_database with _copy_and_prune).
THEOREM NewestCopySurvives == Spec => []NewestCopyKept
  <1>1. IInv => NewestCopyKept
    BY DEF IInv, BackupInv
  <1> QED BY <1>1, Invariant, PTL

\* The copies are BACKUP_KEEP at most, and one more for every run since the last one
\* whose pruning ended (_copy_and_prune).
THEOREM CopiesAreBounded == Spec => []CopiesBounded
  <1>1. IInv => CopiesBounded
    BY DEF IInv, BackupInv
  <1> QED BY <1>1, Invariant, PTL
=============================================================================
