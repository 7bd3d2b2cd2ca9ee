--------------------------- MODULE CatalogProofs ----------------------------
(***************************************************************************)
(* What holds of the catalog for any number of versions, models, writers   *)
(* and requests.                                                           *)
(*                                                                         *)
(* The invariants speak of rows; a Save writes what its writer holds.      *)
(* CopyInv says what an object is worth: while nobody else changed its row *)
(* it is the row, so the guards of the object hold for the row too, and    *)
(* once somebody did it never becomes current again, so that a Save of it  *)
(* is seen (odd).  ReqInv says what each statement of a request has left   *)
(* behind for the ones after it.                                           *)
(***************************************************************************)
EXTENDS Catalog, WellFoundedInduction, TLAPS

AllStates == {"none", "live", "active", "revoked", "inactive", "suspended", "draft",
              "published", "archived", "enabled", "disabled"}
Vals == [state: AllStates, cfg: 0..NModels]
Copies == [row: Rows, val: Vals, gen: Int, step: {"idle", "holds", "missed"}]
RequestRecords ==
    [step: {"new", "key", "app", "version", "model", "made", "refused"}, by: {"key", "id"},
     dead: SUBSET Rows, ver: 0..NVersions, model: 0..NModels]
Ver(v) == <<"version", v>>

TypeInv ==
    /\ CatalogTypeOK
    /\ table \in [Rows -> Vals] /\ gen \in [Rows -> Nat]
    /\ copy \in [Writers -> Copies] /\ req \in [Requests -> RequestRecords]
    /\ published \in [1..NVersions -> 0..NModels]

CopyInv(w) ==
    LET c == copy[w] IN
    /\ c.gen <= gen[c.row]
    /\ c.step # "idle" => c.val.state \in States(c.row[1])
    /\ c.step # "idle" /\ c.row[1] = "version" => c.val.cfg # NoModel
    /\ c.step # "idle" /\ c.gen = gen[c.row] /\ c.row \notin odd =>
         \/ c.val = table[c.row]
         \/ table[c.row] = NoRow /\ c.row[1] \notin {"key", "app"}

TableInv ==
    /\ table[Key].state = "revoked" => off
    /\ \A v \in 1..NVersions :
         /\ table[Ver(v)] = NoRow => published[v] = NoModel
         /\ table[Ver(v)].state = "published" => published[v] # NoModel
         /\ table[Ver(v)] # NoRow => table[Ver(v)].cfg # NoModel

ReqInv(q) ==
    /\ Key \in req[q].dead => off \/ table[Key] = NoRow \/ Key \in odd
    /\ App \in req[q].dead => table[App] = NoRow \/ App \in odd
    /\ req[q].dead \subseteq {Key, App}
    /\ req[q].by = "key" /\ req[q].step \in {"app", "version", "model", "made"} =>
         (Key \in req[q].dead => Key \in odd)
    /\ req[q].step \in {"version", "model", "made"} => (App \in req[q].dead => App \in odd)
    /\ req[q].ver # 0 =>
         /\ published[req[q].ver] # NoModel
         /\ req[q].model = published[req[q].ver] \/ Ver(req[q].ver) \in odd

IInv ==
    /\ TypeInv /\ TableInv /\ NothingReverts
    /\ \A w \in Writers : CopyInv(w)
    /\ \A q \in Requests : ReqInv(q)

-----------------------------------------------------------------------------
LEMMA RowFacts ==
    /\ App \in Rows /\ Key \in Rows /\ Tenant \in Rows
    /\ App[1] = "app" /\ Key[1] = "key" /\ Tenant[1] = "tenant"
    /\ App # Key /\ App # Tenant /\ Key # Tenant
    /\ \A v \in 1..NVersions : Ver(v) \in Rows /\ Ver(v)[1] = "version" /\ Ver(v)[2] = v
                               /\ Ver(v) \notin {App, Key, Tenant}
    /\ \A r \in VersionRows : r \in Rows /\ r[2] \in 1..NVersions /\ r = Ver(r[2])
    /\ \A r \in ModelRows : r \in Rows /\ r[1] = "model"
    /\ \A r \in Rows : r[1] = "version" => r \in VersionRows
    /\ \A r \in Rows : r[1] = "key" => r = Key
    /\ \A r \in Rows : r[1] = "app" => r = App
  BY DEF Rows, App, Key, Tenant, VersionRows, ModelRows, Ver

\* The state of a row that is there is not that of one that is not.
LEMMA StateFacts ==
    /\ \A kind : "none" \notin States(kind) \/ kind \notin {"app", "key", "tenant", "version", "model"}
    /\ \A r \in Rows : States(r[1]) \subseteq AllStates \ {"none"}
    /\ NoRow.state = "none" /\ NoRow.cfg = 0 /\ NoRow \in Vals
  BY CatalogAssumption DEF States, Rows, App, Key, Tenant, VersionRows, ModelRows, AllStates, NoRow, Vals

LEMMA LeastOf ==
    ASSUME NEW S \in SUBSET Nat, S # {}
    PROVE  Min(S) \in S
  <1> DEFINE Less == {ss \in Nat \X Nat : ss[1] < ss[2]}
  <1>1. IsWellFoundedOn(Less, Nat)
    BY NatLessThanWellFounded DEF OpToRel
  <1> HIDE DEF Less
  <1>2. PICK x \in S : \A y \in S : ~ (<<y, x>> \in Less)
    BY <1>1, WFMin
  <1>3. ASSUME NEW y \in S PROVE x <= y
    <2>1. x \in Nat /\ y \in Nat
      OBVIOUS
    <2>2. <<y, x>> \in Nat \X Nat /\ <<y, x>>[1] = y /\ <<y, x>>[2] = x
      BY <2>1
    <2>3. y < x => <<y, x>> \in Less
      BY <2>2 DEF Less
    <2> QED
      BY <1>2, <2>1, <2>3
  <1> QED
    BY <1>3 DEF Min

LEMMA InitIInv == Init => IInv
  <1> SUFFICES ASSUME Init PROVE IInv
    OBVIOUS
  <1> USE CatalogAssumption
  <1>1. PICK made \in 1..NVersions : table = [r \in Rows |->
         CASE r = App -> [state |-> "live", cfg |-> 0]
           [] r = Key -> [state |-> "active", cfg |-> 0]
           [] r[1] = "model" -> [state |-> "enabled", cfg |-> 0]
           [] r = <<"version", 1>> -> [state |-> "published", cfg |-> 1]
           [] OTHER -> IF r[1] = "version" /\ r[2] <= made THEN [state |-> "draft", cfg |-> 1] ELSE NoRow]
    BY DEF Init
  <1>2. ASSUME NEW r \in Rows
        PROVE  table[r] \in Vals /\ (table[r] = NoRow \/ table[r].state \in States(r[1]))
    BY <1>1, StateFacts DEF Vals, AllStates, NoRow, States, Rows, App, Key, Tenant, VersionRows, ModelRows
  <1>3. copy \in [Writers -> Copies] /\ req \in [Requests -> RequestRecords]
    BY RowFacts, StateFacts DEF Init, NoCopy, NoReq, Copies, RequestRecords, NoModel
  <1>4. TypeInv
    <2>1. table \in [Rows -> Vals]
      BY <1>1, <1>2
    <2>2. gen \in [Rows -> Nat] /\ published \in [1..NVersions -> 0..NModels]
      BY DEF Init, NoModel
    <2>3. CatalogTypeOK
      <3>1. \A w \in Writers : copy[w].step \in {"idle", "holds", "missed"} /\ copy[w].row \in Rows
        BY <1>3 DEF Copies
      <3>2. \A q \in Requests :
              /\ req[q].step \in {"new", "key", "app", "version", "model", "made", "refused"}
              /\ req[q].model \in 0..NModels /\ req[q].ver \in 0..NVersions
        BY <1>3 DEF RequestRecords
      <3> QED
        BY <1>2, <3>1, <3>2 DEF Init, CatalogTypeOK
    <2> QED
      BY <1>3, <2>1, <2>2, <2>3 DEF TypeInv
  <1>5. table[Key].state = "active" /\ \A v \in 1..NVersions :
          IF v = 1 THEN table[Ver(v)] = [state |-> "published", cfg |-> 1]
                   ELSE table[Ver(v)] = NoRow \/ table[Ver(v)] = [state |-> "draft", cfg |-> 1]
    BY <1>1, RowFacts DEF Ver
  <1>6. TableInv /\ NothingReverts
    <2>1. /\ off = FALSE
          /\ \A v \in 1..NVersions : published[v] = IF v = 1 THEN 1 ELSE NoModel
      BY DEF Init
    <2>2. TableInv
      BY <1>5, <2>1 DEF TableInv, NoRow, NoModel
    <2>3. NothingReverts
      BY <1>5, <2>1 DEF NothingReverts, NoRow, NoModel, Ver
    <2> QED
      BY <2>2, <2>3
  <1>7. ASSUME NEW w \in Writers PROVE CopyInv(w)
    BY RowFacts DEF Init, CopyInv, NoCopy
  <1>8. ASSUME NEW q \in Requests PROVE ReqInv(q)
    BY DEF Init, ReqInv, NoReq
  <1> QED
    BY <1>4, <1>6, <1>7, <1>8 DEF IInv

-----------------------------------------------------------------------------
(* The writers.                                                            *)

\* An object comes into a writer's hands.
LEMMA HoldKeeps ==
    ASSUME IInv, NEW w \in Writers, NEW r \in Rows, NEW val \in Vals, Hold(w, r, val),
           val.state \in States(r[1]),
           r[1] = "version" => val.cfg # NoModel,
           val = table[r] \/ (table[r] = NoRow /\ r[1] \notin {"key", "app"})
    PROVE  IInv'
  <1> DEFINE new == [row |-> r, val |-> val, gen |-> gen[r], step |-> "holds"]
  <1>1. new \in Copies /\ copy' = [copy EXCEPT ![w] = new]
    BY DEF Hold, Copies, IInv, TypeInv
  <1>2. copy'[w] = new /\ \A x \in Writers \ {w} : copy'[x] = copy[x]
    BY <1>1 DEF IInv, TypeInv
  <1>3. UNCHANGED <<table, req, gen, odd, off, published>>
    BY DEF Hold
  <1>4. TypeInv'
    BY <1>1, <1>3 DEF IInv, TypeInv, CatalogTypeOK, Copies
  <1>5. TableInv' /\ NothingReverts'
    BY <1>3 DEF IInv, TableInv, NothingReverts
  <1>6. ASSUME NEW x \in Writers PROVE CopyInv(x)'
    <2>1. CASE x = w
      BY <1>2, <1>3, <2>1 DEF CopyInv, IInv, TypeInv
    <2>2. CASE x # w
      BY <1>2, <1>3, <2>2 DEF CopyInv, IInv
    <2> QED
      BY <2>1, <2>2
  <1>7. ASSUME NEW q \in Requests PROVE ReqInv(q)'
    BY <1>3 DEF IInv, ReqInv
  <1> QED
    BY <1>4, <1>5, <1>6, <1>7 DEF IInv

\* What commands make of an object.
LEMMA ChangedFacts ==
    ASSUME IInv, NEW w \in Writers, copy[w].step # "idle", NEW obj \in Changed(w)
    PROVE  /\ obj \in Vals /\ obj.state \in States(copy[w].row[1])
           /\ copy[w].row = Key => obj = copy[w].val \/ obj.state = "revoked"
           /\ copy[w].row[1] = "version" =>
                /\ obj.cfg = copy[w].val.cfg \/ copy[w].val.state = "draft"
                /\ obj.state = "draft" => copy[w].val.state = "draft"
                /\ obj.cfg # NoModel
  <1> DEFINE kind == copy[w].row[1]  val == copy[w].val
  <1>1. val \in Vals /\ val.state \in States(kind) /\ (kind = "version" => val.cfg # NoModel)
    BY DEF IInv, TypeInv, CopyInv, Copies
  <1>2. kind \in {"app", "key", "tenant", "version", "model"}
    BY DEF IInv, TypeInv, Copies, Rows, App, Key, Tenant, VersionRows, ModelRows
  <1>3. CASE obj = val
    BY <1>1, <1>3
  <1>4. CASE kind = "version" /\ obj \in UpdateConfig(val) \cup Publish(val) \cup Archive(val)
    BY <1>1, <1>4, RowFacts DEF UpdateConfig, NoModel, Publish, Archive, Turn, Vals, AllStates, States
  <1>5. CASE kind = "key" /\ obj \in Revoke(val)
    BY <1>1, <1>5, RowFacts DEF Revoke, Turn, Vals, AllStates, States
  <1>6. CASE kind = "model" /\ obj \in SetEnabled(val)
    BY <1>1, <1>6, RowFacts DEF SetEnabled, Turn, Vals, AllStates, States
  <1>7. CASE kind = "tenant" /\ obj \in SetTenantStatus(val)
    BY <1>1, <1>7, RowFacts DEF SetTenantStatus, Turn, Vals, AllStates, States
  <1> QED
    BY <1>2, <1>3, <1>4, <1>5, <1>6, <1>7 DEF Changed

\* A row is written.
LEMMA WriteKeeps ==
    ASSUME IInv, NEW w \in Writers, copy[w].step # "idle", NEW obj \in Vals, NEW val \in Vals,
           Write(w, obj, val), obj.state \in States(copy[w].row[1]),
           val = obj \/ (val.state \in States(copy[w].row[1]) /\ val.state # "revoked"),
           copy[w].row = Key => obj = copy[w].val \/ obj.state = "revoked",
           copy[w].row[1] = "version" =>
             /\ obj.cfg = copy[w].val.cfg \/ copy[w].val.state = "draft"
             /\ obj.state = "draft" => copy[w].val.state = "draft"
             /\ obj.cfg # NoModel,
           val.cfg = obj.cfg
    PROVE  IInv'
  <1> DEFINE r == copy[w].row
             new == [row |-> r, val |-> obj, gen |-> gen[r] + 1, step |-> "holds"]
  <1>1. r \in Rows /\ val.state \in States(r[1]) /\ gen[r] \in Nat /\ copy[w] \in Copies
    BY DEF IInv, TypeInv, CatalogTypeOK
  <1>2. new \in Copies /\ copy' = [copy EXCEPT ![w] = new]
    BY <1>1 DEF Write, Copies
  <1>3. /\ copy'[w] = new /\ \A x \in Writers \ {w} : copy'[x] = copy[x]
        /\ table'[r] = val /\ \A s \in Rows \ {r} : table'[s] = table[s]
        /\ gen'[r] = gen[r] + 1 /\ \A s \in Rows \ {r} : gen'[s] = gen[s]
        /\ table' \in [Rows -> Vals] /\ gen' \in [Rows -> Nat]
        /\ odd \subseteq odd' /\ odd' \subseteq odd \cup {r} /\ req' = req
    BY <1>1, <1>2 DEF Write, IInv, TypeInv
  <1>4. r \notin odd' =>
          /\ val = obj /\ r \notin odd
          /\ copy[w].val = table[r] \/ (table[r] = NoRow /\ r[1] \notin {"key", "app"})
    BY DEF Write, IInv, CopyInv
  <1>5. off' = (off \/ (r = Key /\ obj.state = "revoked"))
    BY DEF Write
  <1>6. published' = IF r[1] = "version" /\ val.state = "published" /\ published[r[2]] = NoModel
                     THEN [published EXCEPT ![r[2]] = val.cfg] ELSE published
    BY DEF Write
  <1>7. val.state # "none" /\ copy[w].val.state # "none"
    BY <1>1, StateFacts DEF IInv, CopyInv
  <1> HIDE DEF r, new
  <1>8. /\ published' \in [1..NVersions -> 0..NModels]
        /\ \A v \in 1..NVersions : published'[v] =
              IF r = Ver(v) /\ val.state = "published" /\ published[v] = NoModel
              THEN val.cfg ELSE published[v]
    <2>1. r[1] = "version" => r[2] \in 1..NVersions /\ r = Ver(r[2])
      BY <1>1, RowFacts
    <2>2. \A v \in 1..NVersions : r = Ver(v) => r[1] = "version" /\ r[2] = v
      BY RowFacts
    <2>3. published \in [1..NVersions -> 0..NModels] /\ val.cfg \in 0..NModels
      BY DEF IInv, TypeInv, Vals
    <2> QED
      BY <1>6, <2>1, <2>2, <2>3
  <1>9. TypeInv'
    <2>1. \A s \in Rows : table'[s] = NoRow \/ table'[s].state \in States(s[1])
      BY <1>1, <1>3 DEF IInv, TypeInv, CatalogTypeOK
    <2>2. copy' \in [Writers -> Copies] /\ odd' \subseteq Rows /\ off' \in BOOLEAN
      BY <1>1, <1>2, <1>3, <1>5 DEF IInv, TypeInv, CatalogTypeOK
    <2>3. CatalogTypeOK'
      BY <1>3, <2>1, <2>2 DEF IInv, TypeInv, CatalogTypeOK, Copies
    <2> QED
      BY <1>3, <1>8, <2>2, <2>3 DEF IInv, TypeInv
  <1>10. NothingReverts'
    <2>1. ASSUME off', table'[Key].state = "active", Key \notin odd'
          PROVE  FALSE
      <3>1. CASE r = Key
        <4>1. copy[w].row = Key /\ Key[1] = "key"
          BY <3>1, RowFacts DEF r
        <4>2. val = obj /\ Key \notin odd /\ copy[w].val = table[Key] /\ table'[Key] = val
          BY <1>3, <1>4, <2>1, <3>1, <4>1
        <4>3. obj = table[Key] /\ off
          BY <1>5, <2>1, <4>1, <4>2
        <4> QED
          BY <2>1, <4>2, <4>3 DEF IInv, NothingReverts
      <3>2. CASE r # Key
        BY <1>3, <1>5, <2>1, <3>2, RowFacts DEF IInv, NothingReverts
      <3> QED
        BY <3>1, <3>2
    <2>2. ASSUME NEW v \in 1..NVersions, published'[v] # NoModel, Ver(v) \notin odd'
          PROVE  table'[Ver(v)].state # "draft" /\ table'[Ver(v)].cfg = published'[v]
      <3>1. Ver(v) \in Rows /\ Ver(v)[1] = "version" /\ Ver(v) \notin odd
        BY <1>3, <2>2, RowFacts
      <3>2. published[v] # NoModel =>
              table[Ver(v)].state # "draft" /\ table[Ver(v)].cfg = published[v] /\ table[Ver(v)] # NoRow
        BY <3>1 DEF IInv, NothingReverts, TableInv, Ver
      <3>3. CASE r # Ver(v)
        BY <1>3, <1>8, <2>2, <3>1, <3>2, <3>3
      <3>4. CASE r = Ver(v)
        BY <1>3, <1>4, <1>8, <2>2, <3>1, <3>2, <3>4 DEF r
      <3> QED
        BY <3>3, <3>4
    <2> QED
      BY <2>1, <2>2 DEF NothingReverts, Ver
  <1>11. TableInv'
    <2>1. table'[Key].state = "revoked" => off'
      BY <1>1, <1>3, <1>5, RowFacts DEF IInv, TableInv
    <2>2. ASSUME NEW v \in 1..NVersions
          PROVE  /\ table'[Ver(v)] = NoRow => published'[v] = NoModel
                 /\ table'[Ver(v)].state = "published" => published'[v] # NoModel
                 /\ table'[Ver(v)] # NoRow => table'[Ver(v)].cfg # NoModel
      <3>1. Ver(v) \in Rows /\ Ver(v)[1] = "version"
        BY RowFacts
      <3>2. CASE r = Ver(v)
        <4>1. val.cfg # NoModel
          BY <3>1, <3>2 DEF r
        <4> QED
          BY <1>3, <1>7, <1>8, <3>1, <3>2, <4>1, StateFacts DEF IInv, TableInv
      <3>3. CASE r # Ver(v)
        BY <1>3, <1>8, <3>1, <3>3 DEF IInv, TableInv
      <3> QED
        BY <3>2, <3>3
    <2> QED
      BY <2>1, <2>2 DEF TableInv
  <1>12. ASSUME NEW x \in Writers PROVE CopyInv(x)'
    <2>1. CASE x = w
      BY <1>1, <1>3, <1>4, <2>1 DEF CopyInv, new, r
    <2>2. CASE x # w
      <3>1. copy'[x] = copy[x] /\ copy[x].row \in Rows /\ copy[x].gen \in Int /\ CopyInv(x)
        BY <1>3, <2>2 DEF IInv, TypeInv, Copies
      <3>3. CASE copy[x].row = r
        BY <1>1, <1>3, <3>1, <3>3 DEF CopyInv
      <3>4. CASE copy[x].row # r
        BY <1>1, <1>3, <3>1, <3>4 DEF CopyInv
      <3> QED
        BY <3>3, <3>4
    <2> QED
      BY <2>1, <2>2
  <1>13. ASSUME NEW q \in Requests PROVE ReqInv(q)'
    <2>4. \A s \in {Key, App} : table[s] = NoRow => table'[s] = NoRow \/ s \in odd'
      BY <1>3, <1>4, <1>7, RowFacts, StateFacts DEF r
    <2>1. Key \in req[q].dead => off' \/ table'[Key] = NoRow \/ Key \in odd'
      BY <1>3, <1>5, <2>4 DEF IInv, ReqInv
    <2>2. App \in req[q].dead => table'[App] = NoRow \/ App \in odd'
      BY <1>3, <2>4 DEF IInv, ReqInv
    <2>3. req[q].ver # 0 =>
            /\ published'[req[q].ver] # NoModel
            /\ req[q].model = published'[req[q].ver] \/ Ver(req[q].ver) \in odd'
      <3>1. req[q].ver # 0 => req[q].ver \in 1..NVersions
        BY CatalogAssumption DEF IInv, TypeInv, RequestRecords
      <3> QED
        BY <1>3, <1>8, <3>1 DEF IInv, ReqInv
    <2> QED
      BY <1>3, <2>1, <2>2, <2>3 DEF IInv, ReqInv
  <1> QED
    BY <1>9, <1>10, <1>11, <1>12, <1>13 DEF IInv

LEMMA WriterKeeps ==
    ASSUME IInv, NEW w \in Writers,
           \/ FindAppByID(w) \/ FindVersion(w) \/ FindApiKey(w) \/ FindModel(w)
           \/ FindTenantByID(w) \/ CreateTenant(w) \/ NewAppVersion(w)
           \/ SaveUpdates(w) \/ SaveMisses(w) \/ SaveInserts(w)
    PROVE  IInv'
  <1>1. ASSUME NEW r \in Rows, Find(w, r)
        PROVE  IInv'
    <2>1. table[r] \in Vals /\ table[r].state \in States(r[1])
          /\ (r[1] = "version" => table[r].cfg # NoModel)
      BY <1>1, RowFacts DEF Find, IInv, TypeInv, CatalogTypeOK, TableInv
    <2> QED
      BY <1>1, <2>1, HoldKeeps DEF Find
  <1>2. CASE FindAppByID(w) \/ FindVersion(w) \/ FindApiKey(w) \/ FindModel(w) \/ FindTenantByID(w)
    BY <1>1, <1>2, RowFacts DEF FindAppByID, FindVersion, FindApiKey, FindModel, FindTenantByID
  <1>3. CASE CreateTenant(w)
    <2>1. [state |-> "active", cfg |-> 0] \in Vals /\ "active" \in States("tenant")
      BY CatalogAssumption DEF Vals, AllStates, States
    <2> QED
      BY <1>3, <2>1, RowFacts, HoldKeeps DEF CreateTenant, Fresh
  <1>4. CASE NewAppVersion(w)
    <2>1. PICK r \in VersionRows, m \in 1..NModels :
            Fresh(r) /\ Hold(w, r, [state |-> "draft", cfg |-> m])
      BY <1>4 DEF NewAppVersion
    <2>2. r \in Rows /\ r[1] = "version"
      BY RowFacts
    <2>3. [state |-> "draft", cfg |-> m] \in Vals /\ m # NoModel /\ "draft" \in States("version")
      BY DEF Vals, AllStates, States, NoModel
    <2> QED
      BY <2>1, <2>2, <2>3, HoldKeeps DEF Fresh
  <1>5. CASE SaveUpdates(w)
    <2>1. PICK obj \in Changed(w) : Write(w, obj, obj)
      BY <1>5 DEF SaveUpdates
    <2> QED
      BY <1>5, <2>1, ChangedFacts, WriteKeeps DEF SaveUpdates
  <1>6. CASE SaveInserts(w)
    <2> DEFINE obj == copy[w].val  r == copy[w].row
    <2>1. /\ copy[w].step = "missed" /\ Write(w, obj, Inserted(obj))
          /\ obj \in Vals /\ obj.state \in States(r[1]) /\ r \in Rows
          /\ (r[1] = "version" => obj.cfg # NoModel)
      BY <1>6 DEF SaveInserts, IInv, TypeInv, CopyInv, Copies
    <2>2. r[1] \in {"app", "key", "tenant", "version", "model"}
      BY <2>1 DEF Rows, App, Key, Tenant, VersionRows, ModelRows
    <2>3. Inserted(obj) \in Vals /\ Inserted(obj).cfg = obj.cfg
          /\ Inserted(obj).state \in States(r[1]) /\ Inserted(obj).state # "revoked"
      BY <2>1, <2>2 DEF Inserted, Vals, AllStates, States
    <2> QED
      BY <2>1, <2>3, WriteKeeps
  <1>7. CASE SaveMisses(w)
    <2>1. PICK obj \in Changed(w) : copy' = [copy EXCEPT ![w].val = obj, ![w].step = "missed"]
      BY <1>7 DEF SaveMisses
    <2>2. copy[w].step = "holds" /\ table[copy[w].row] = NoRow
          /\ UNCHANGED <<table, req, gen, odd, off, published>>
      BY <1>7 DEF SaveMisses
    <2>3. obj \in Vals /\ obj.state \in States(copy[w].row[1])
          /\ (copy[w].row[1] = "version" => obj.cfg # NoModel)
      BY <2>2, ChangedFacts
    <2>4. /\ copy' \in [Writers -> Copies] /\ copy'[w].row = copy[w].row /\ copy'[w].gen = copy[w].gen
          /\ copy'[w].val = obj /\ \A x \in Writers \ {w} : copy'[x] = copy[x]
      BY <2>1, <2>3 DEF IInv, TypeInv, Copies
    <2>5. TypeInv'
      BY <2>2, <2>4 DEF IInv, TypeInv, CatalogTypeOK, Copies
    <2>6. TableInv' /\ NothingReverts'
      BY <2>2 DEF IInv, TableInv, NothingReverts
    <2>7. ASSUME NEW x \in Writers PROVE CopyInv(x)'
      <3>1. copy[w].val # NoRow
        BY <2>2, StateFacts DEF IInv, TypeInv, Copies, CopyInv
      <3>2. CASE x = w
        BY <2>2, <2>3, <2>4, <3>1, <3>2 DEF IInv, CopyInv
      <3>3. CASE x # w
        BY <2>2, <2>4, <3>3 DEF IInv, CopyInv
      <3> QED
        BY <3>2, <3>3
    <2>8. ASSUME NEW q \in Requests PROVE ReqInv(q)'
      BY <2>2 DEF IInv, ReqInv
    <2> QED
      BY <2>5, <2>6, <2>7, <2>8 DEF IInv
  <1> QED
    BY <1>2, <1>3, <1>4, <1>5, <1>6, <1>7

\* A row is deleted: whoever holds it holds something stale from now on.
LEMMA DeleteKeeps ==
    ASSUME IInv, DeleteApp \/ DeleteApiKey \/ DeleteModel \/ DeleteTenant
    PROVE  IInv'
  <1>1. PICK r \in Rows : Delete(r) /\ \A v \in 1..NVersions : r # Ver(v)
    BY RowFacts DEF DeleteApp, DeleteApiKey, DeleteModel, DeleteTenant, ModelRows, Ver
  <1>2. /\ table'[r] = NoRow /\ \A s \in Rows \ {r} : table'[s] = table[s]
        /\ gen'[r] = gen[r] + 1 /\ \A s \in Rows \ {r} : gen'[s] = gen[s]
        /\ table' \in [Rows -> Vals] /\ gen' \in [Rows -> Nat] /\ gen[r] \in Nat
        /\ UNCHANGED <<copy, req, odd, off, published>>
    BY <1>1, StateFacts DEF Delete, IInv, TypeInv
  <1>3. TypeInv'
    BY <1>2 DEF IInv, TypeInv, CatalogTypeOK
  <1>4. TableInv' /\ NothingReverts'
    <2>1. \A v \in 1..NVersions : table'[Ver(v)] = table[Ver(v)]
      BY <1>1, <1>2, RowFacts
    <2>2. table'[Key] = table[Key] \/ table'[Key].state = "none"
      BY <1>2, RowFacts, StateFacts
    <2>3. TableInv'
      BY <1>2, <2>1, <2>2 DEF IInv, TableInv
    <2>4. NothingReverts'
      BY <1>2, <2>1, <2>2 DEF IInv, NothingReverts, Ver
    <2> QED
      BY <2>3, <2>4
  <1>5. ASSUME NEW x \in Writers PROVE CopyInv(x)'
    <2>1. copy[x].row \in Rows /\ copy[x].gen \in Int /\ CopyInv(x)
      BY DEF IInv, TypeInv, Copies
    <2>2. CASE copy[x].row = r
      BY <1>2, <2>1, <2>2 DEF CopyInv
    <2>3. CASE copy[x].row # r
      BY <1>2, <2>1, <2>3 DEF CopyInv
    <2> QED
      BY <2>2, <2>3
  <1>6. ASSUME NEW q \in Requests PROVE ReqInv(q)'
    BY <1>2, RowFacts DEF IInv, ReqInv
  <1> QED
    BY <1>3, <1>4, <1>5, <1>6 DEF IInv

-----------------------------------------------------------------------------
(* The requests.                                                           *)

\* A request's statement changes nothing but the request.
LEMMA ReqStepKeeps ==
    ASSUME IInv, NEW q \in Requests, NEW from, NEW new \in RequestRecords, ReqStep(q, from, new),
           ReqInv(q)'
    PROVE  IInv'
  <1>1. UNCHANGED <<table, copy, gen, odd, off, published>> /\ req' = [req EXCEPT ![q] = new]
    BY DEF ReqStep
  <1>2. TypeInv'
    BY <1>1 DEF IInv, TypeInv, CatalogTypeOK, RequestRecords
  <1>3. TableInv' /\ NothingReverts'
    BY <1>1 DEF IInv, TableInv, NothingReverts
  <1>4. ASSUME NEW w \in Writers PROVE CopyInv(w)'
    BY <1>1 DEF IInv, CopyInv
  <1>5. ASSUME NEW p \in Requests PROVE ReqInv(p)'
    <2>1. CASE p # q
      BY <1>1, <2>1 DEF IInv, TypeInv, ReqInv
    <2> QED
      BY <2>1
  <1> QED
    BY <1>2, <1>3, <1>4, <1>5 DEF IInv

\* A statement that finds its row lets the request go on.
LEMMA ReadKeeps ==
    ASSUME IInv, NEW q \in Requests, NEW from, NEW row \in BOOLEAN,
           NEW next \in {"app", "version", "made"}, Read(q, from, row, next),
           row /\ req[q].by = "key" => (Key \in req[q].dead => Key \in odd),
           row /\ next # "app" => (App \in req[q].dead => App \in odd)
    PROVE  IInv'
  <1> DEFINE new == [req[q] EXCEPT !.step = IF row THEN next ELSE "refused"]
  <1>1. req[q] \in RequestRecords
    BY DEF IInv, TypeInv
  <1>2. new \in RequestRecords /\ new.step = (IF row THEN next ELSE "refused") /\ new.by = req[q].by
        /\ new.dead = req[q].dead /\ new.ver = req[q].ver /\ new.model = req[q].model
    BY <1>1 DEF RequestRecords
  <1>3. ReqStep(q, from, new)
    BY DEF Read
  <1> HIDE DEF new
  <1>4. req'[q] = new /\ UNCHANGED <<table, odd, off, published>>
    BY <1>3 DEF ReqStep, IInv, TypeInv
  <1>5. ReqInv(q)'
    BY <1>2, <1>4 DEF IInv, ReqInv
  <1> QED
    BY <1>2, <1>3, <1>5, ReqStepKeeps

LEMMA RequestKeeps ==
    ASSUME IInv, NEW q \in Requests,
           \/ Authorize(q) \/ FindAppByApiKey(q) \/ FindApp(q)
           \/ FindPublishedVersion(q) \/ CreateAgent(q)
    PROVE  IInv'
  <1>0. req[q] \in RequestRecords /\ ReqInv(q)
    BY DEF IInv, TypeInv
  <1>1. CASE Authorize(q)
    <2> DEFINE dead == {r \in {Key, App} : table[r].state \in {"none", "revoked"}}
    <2>1. PICK by \in {"key", "id"} :
            ReqStep(q, "new", [req[q] EXCEPT !.step = IF by = "key" THEN "key" ELSE "app",
                                             !.by = by, !.dead = dead])
      BY <1>1 DEF Authorize
    <2> DEFINE new == [req[q] EXCEPT !.step = IF by = "key" THEN "key" ELSE "app",
                                     !.by = by, !.dead = dead]
    <2>2. dead \in SUBSET Rows /\ dead \subseteq {Key, App}
      BY RowFacts
    <2>3. Key \in dead => off \/ table[Key] = NoRow
      BY RowFacts, StateFacts DEF IInv, TableInv, TypeInv, CatalogTypeOK
    <2>4. App \in dead => table[App] = NoRow
      BY RowFacts DEF IInv, TypeInv, CatalogTypeOK, States
    <2> HIDE DEF dead
    <2>5. new \in RequestRecords /\ new.step = (IF by = "key" THEN "key" ELSE "app") /\ new.by = by
          /\ new.dead = dead /\ new.ver = req[q].ver /\ new.model = req[q].model
      BY <1>0, <2>2 DEF RequestRecords
    <2>6. ReqStep(q, "new", new)
      BY <2>1
    <2> HIDE DEF new
    <2>7. req'[q] = new /\ UNCHANGED <<table, odd, off, published>>
      BY <2>6 DEF ReqStep, IInv, TypeInv
    <2>8. ReqInv(q)'
      BY <1>0, <2>2, <2>3, <2>4, <2>5, <2>7 DEF ReqInv
    <2> QED
      BY <2>5, <2>6, <2>8, ReqStepKeeps
  <1>2. CASE FindAppByApiKey(q)
    <2>1. table[Key].state = "active" => (Key \in req[q].dead => Key \in odd)
      BY <1>0, StateFacts DEF ReqInv, IInv, NothingReverts
    <2> QED
      BY <1>2, <2>1, ReadKeeps DEF FindAppByApiKey
  <1>3. CASE FindApp(q)
    <2>1. req[q].by = "key" => (Key \in req[q].dead => Key \in odd)
      BY <1>0, <1>3 DEF FindApp, Read, ReqStep, ReqInv
    <2>2. table[App] # NoRow => (App \in req[q].dead => App \in odd)
      BY <1>0 DEF ReqInv
    <2> QED
      BY <1>3, <2>1, <2>2, ReadKeeps DEF FindApp
  <1>4. CASE FindPublishedVersion(q)
    <2> DEFINE found == VersionsIn({"published"})
               new == IF found = {} THEN [req[q] EXCEPT !.step = "refused"]
                      ELSE [req[q] EXCEPT !.step = "model", !.ver = Min(found),
                                          !.model = table[<<"version", Min(found)>>].cfg]
    <2>1. ReqStep(q, "version", new)
      BY <1>4 DEF FindPublishedVersion
    <2>2. req[q].step = "version"
      BY <2>1 DEF ReqStep
    <2>3. found # {} => Min(found) \in 1..NVersions /\ table[Ver(Min(found))].state = "published"
      <3>1. found \in SUBSET Nat
        BY CatalogAssumption DEF VersionsIn
      <3>2. found # {} => Min(found) \in found
        BY <3>1, LeastOf
      <3> QED
        BY <3>2 DEF VersionsIn, Ver
    <2> HIDE DEF found
    <2>4. CASE found = {}
      <3>1. new \in RequestRecords /\ new.step = "refused" /\ new.by = req[q].by
            /\ new.dead = req[q].dead /\ new.ver = req[q].ver /\ new.model = req[q].model
        BY <1>0, <2>4 DEF RequestRecords
      <3> HIDE DEF new
      <3>2. req'[q] = new /\ UNCHANGED <<table, odd, off, published>>
        BY <2>1 DEF ReqStep, IInv, TypeInv
      <3>3. ReqInv(q)'
        BY <1>0, <3>1, <3>2 DEF ReqInv
      <3> QED
        BY <2>1, <3>1, <3>3, ReqStepKeeps
    <2>5. CASE found # {}
      <3> DEFINE v == Min(found)
      <3>1. v \in 1..NVersions /\ table[Ver(v)].state = "published" /\ table[Ver(v)].cfg \in 0..NModels
        BY <2>3, <2>5, RowFacts DEF IInv, TypeInv, Vals
      <3>2. published[v] # NoModel /\ (table[Ver(v)].cfg = published[v] \/ Ver(v) \in odd)
        BY <3>1 DEF IInv, TableInv, NothingReverts, Ver
      <3> HIDE DEF v
      <3>3. new = [req[q] EXCEPT !.step = "model", !.ver = v, !.model = table[Ver(v)].cfg]
        BY <2>5 DEF Ver, v
      <3> HIDE DEF new
      <3>4. new \in RequestRecords /\ new.step = "model" /\ new.by = req[q].by
            /\ new.dead = req[q].dead /\ new.ver = v /\ new.model = table[Ver(v)].cfg
        <4>1. v \in 0..NVersions /\ table[Ver(v)].cfg \in 0..NModels
          BY <3>1, CatalogAssumption
        <4>2. new \in RequestRecords
          BY <1>0, <3>3, <4>1 DEF RequestRecords
        <4> QED
          BY <1>0, <3>3, <4>2 DEF RequestRecords
      <3>5. req'[q] = new /\ UNCHANGED <<table, odd, off, published>>
        BY <2>1 DEF ReqStep, IInv, TypeInv
      <3>6. ReqInv(q)'
        BY <1>0, <2>2, <3>2, <3>4, <3>5 DEF ReqInv
      <3> QED
        BY <2>1, <3>4, <3>6, ReqStepKeeps
    <2> QED
      BY <2>4, <2>5
  <1>5. CASE CreateAgent(q)
    <2>1. PICK made \in BOOLEAN : Read(q, "model", made, "made")
      BY <1>5 DEF CreateAgent, NewChatModel
    <2>2. req[q].step = "model"
      BY <1>5 DEF CreateAgent
    <2> QED
      BY <1>0, <2>1, <2>2, ReadKeeps DEF ReqInv
  <1> QED
    BY <1>1, <1>2, <1>3, <1>4, <1>5

-----------------------------------------------------------------------------
LEMMA NextIInv == IInv /\ [Next]_vars => IInv'
  <1> SUFFICES ASSUME IInv, [Next]_vars PROVE IInv'
    OBVIOUS
  <1>1. CASE UNCHANGED vars
    <2> USE <1>1 DEF vars
    <2>1. TypeInv' /\ TableInv' /\ NothingReverts'
      BY DEF IInv, TypeInv, CatalogTypeOK, TableInv, NothingReverts
    <2>2. ASSUME NEW w \in Writers PROVE CopyInv(w)'
      BY DEF IInv, CopyInv
    <2>3. ASSUME NEW q \in Requests PROVE ReqInv(q)'
      BY DEF IInv, ReqInv
    <2> QED
      BY <2>1, <2>2, <2>3 DEF IInv
  <1> QED
    BY <1>1, WriterKeeps, DeleteKeeps, RequestKeeps DEF Next

LEMMA Inductive == Spec => []IInv
  BY InitIInv, NextIInv, PTL DEF Spec

\* Every variable keeps to its type.
THEOREM CatalogTypeCorrect == Spec => []CatalogTypeOK
  <1>1. IInv => CatalogTypeOK
    BY DEF IInv, TypeInv
  <1> QED
    BY <1>1, Inductive, PTL

\* However many writers load, change and save, only a Save of a stale object or
\* an insert of a default reverts a revocation or a publication.
THEOREM DecisionsStand == Spec => []NothingReverts
  <1>1. IInv => NothingReverts
    BY DEF IInv
  <1> QED
    BY <1>1, Inductive, PTL

\* The configuration a request runs with was published.
THEOREM RunsPublished == Spec => []RunsWhatWasPublished
  <1>1. IInv => RunsWhatWasPublished
    BY DEF IInv, ReqInv, RunsWhatWasPublished, Ver
  <1> QED
    BY <1>1, Inductive, PTL

\* Neither a revoked key nor a deleted app lets a request through, unless a
\* stale Save brought it back.
THEOREM TakenStaysTaken == Spec => []NothingRunsOnceTaken
  <1>1. IInv => NothingRunsOnceTaken
    BY DEF IInv, ReqInv, NothingRunsOnceTaken
  <1> QED
    BY <1>1, Inductive, PTL
=============================================================================
