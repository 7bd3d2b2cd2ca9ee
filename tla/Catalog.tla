------------------------------ MODULE Catalog -------------------------------
(***************************************************************************)
(* Apps, their versions and API keys, model configurations and tenants:    *)
(* rows that are loaded into domain objects, changed there and saved as a  *)
(* whole, with neither locks nor version numbers; and the chat requests    *)
(* that read a key, an app, a published version and a model, one statement *)
(* after the other.  Statements are atomic: SkipDefaultTransaction is set  *)
(* and nobody opens a transaction around them.                             *)
(***************************************************************************)
EXTENDS Integers, FiniteSets, FiniteSetsExt

CONSTANTS
    NVersions, NModels,   \* IDs are UUIDv7, ordered by creation: 1..N
    Writers,              \* goroutines that use the repositories
    Requests,             \* chat requests
    MaxWrites             \* bound: statements that change a table

ASSUME CatalogAssumption ==
    /\ NVersions \in Nat \ {0} /\ NModels \in Nat \ {0} /\ MaxWrites \in Nat

App == <<"app", 1>>
Key == <<"key", 1>>
Tenant == <<"tenant", 1>>
VersionRows == {"version"} \X (1..NVersions)
ModelRows   == {"model"} \X (1..NModels)
Rows == {App, Key, Tenant} \cup VersionRows \cup ModelRows

States(kind) ==
    CASE kind = "app"     -> {"live"}
      [] kind = "key"     -> {"active", "revoked"}
      [] kind = "tenant"  -> {"active", "inactive", "suspended"}
      [] kind = "version" -> {"draft", "published", "archived"}
      [] kind = "model"   -> {"enabled", "disabled"}

NoRow   == [state |-> "none", cfg |-> 0]
NoCopy  == [row |-> App, val |-> NoRow, gen |-> -1, step |-> "idle"]
NoModel == 0

VARIABLES
    table,      \* the rows
    copy,       \* per writer: the object it holds and where it is with it
    req,        \* per request: where it is and what it has read
    gen,        \* history: changes of each row so far
    odd,        \* history: rows written by a Save that had not read them, or
                \* inserted with the column's default in place of a value
    off,        \* history: the key has been saved revoked
    published   \* history: per version, the model it was first published with

vars == <<table, copy, req, gen, odd, off, published>>

NoReq == [step |-> "new", by |-> "key", dead |-> {}, ver |-> 0, model |-> NoModel]

\* An app in use: version 1 is published, the others are drafts or yet to be made.
Init ==
    /\ \E made \in 1..NVersions : table = [r \in Rows |->
         CASE r = App -> [state |-> "live", cfg |-> 0]
           [] r = Key -> [state |-> "active", cfg |-> 0]
           [] r[1] = "model" -> [state |-> "enabled", cfg |-> 0]
           [] r = <<"version", 1>> -> [state |-> "published", cfg |-> 1]
           [] OTHER -> IF r[1] = "version" /\ r[2] <= made THEN [state |-> "draft", cfg |-> 1] ELSE NoRow]
    /\ copy = [w \in Writers |-> NoCopy]
    /\ req = [q \in Requests |-> NoReq]
    /\ gen = [r \in Rows |-> 0]
    /\ odd = {} /\ off = FALSE
    /\ published = [v \in 1..NVersions |-> IF v = 1 THEN 1 ELSE NoModel]

-----------------------------------------------------------------------------
(* What a writer does with the object it holds.  Changes of the object are   *)
(* local to the writer, so they are part of the Save that follows them.  In *)
(* this revision only tenants have callers (the HTTP handler); the other    *)
(* writers use the repositories' interfaces.                                *)

Hold(w, r, val) ==
    /\ copy[w].step # "missed"
    /\ copy' = [copy EXCEPT ![w] = [row |-> r, val |-> val, gen |-> gen[r], step |-> "holds"]]
    /\ UNCHANGED <<table, req, gen, odd, off, published>>

\* Find...ByID and the lists: the object is what the row is; no row is an error.
Find(w, r) == table[r] # NoRow /\ Hold(w, r, table[r])
FindAppByID(w)    == Find(w, App)
FindVersion(w)    == \E r \in VersionRows : Find(w, r)
FindApiKey(w)     == Find(w, Key)
FindModel(w)      == \E r \in ModelRows : Find(w, r)
FindTenantByID(w) == Find(w, Tenant)

\* A constructor with a fresh ID; it differs from all others.
Fresh(r) == gen[r] = 0 /\ table[r] = NoRow /\ \A w \in Writers : copy[w].row # r
NewAppVersion(w) ==
    \E r \in VersionRows, m \in 1..NModels :
        /\ Fresh(r) /\ \A s \in VersionRows : s[2] < r[2] => ~Fresh(s)
        /\ Hold(w, r, [state |-> "draft", cfg |-> m])

CreateTenant(w) == Fresh(Tenant) /\ Hold(w, Tenant, [state |-> "active", cfg |-> 0])

Turn(val, states) == {[val EXCEPT !.state = s] : s \in states}

\* Faulty: the guard is missing.
UpdateConfigAnyway(val) == {[val EXCEPT !.cfg = m] : m \in 1..NModels}

\* Only a draft takes a new configuration; the object judges by its own status.
UpdateConfig(val) ==
    IF val.state = "draft" THEN {[val EXCEPT !.cfg = m] : m \in 1..NModels} ELSE {}

Publish(val) == Turn(val, {"published"})
Archive(val) == Turn(val, {"archived"})
Revoke(val)  == Turn(val, {"revoked"})
SetEnabled(val) == Turn(val, States("model"))
SetTenantStatus(val) == Turn(val, States("tenant"))

\* The objects that one command, or none, makes of the one held.
Changed(w) ==
    LET kind == copy[w].row[1] val == copy[w].val IN
    {val} \cup CASE kind = "version" -> UpdateConfig(val) \cup Publish(val) \cup Archive(val)
                  [] kind = "key"     -> Revoke(val)
                  [] kind = "model"   -> SetEnabled(val)
                  [] kind = "tenant"  -> SetTenantStatus(val)
                  [] OTHER -> {}

\* gorm inserts a column's default where the field is the zero value: false for
\* is_active and enabled, whose columns default to true.
Inserted(val) ==
    [val EXCEPT !.state = CASE val.state = "revoked"  -> "active"
                            [] val.state = "disabled" -> "enabled"
                            [] OTHER -> val.state]

\* Bound.
WritesLeft == FoldSet(LAMBDA r, n : gen[r] + n, 0, Rows) < MaxWrites

\* A statement of Save wrote the row val for the object obj.
Write(w, obj, val) ==
    LET r == copy[w].row IN
    /\ WritesLeft
    /\ table' = [table EXCEPT ![r] = val]
    /\ gen' = [gen EXCEPT ![r] = @ + 1]
    /\ copy' = [copy EXCEPT ![w] = [row |-> r, val |-> obj, gen |-> gen[r] + 1, step |-> "holds"]]
    /\ odd' = IF copy[w].gen # gen[r] \/ val # obj THEN odd \cup {r} ELSE odd
    /\ off' = (off \/ (r = Key /\ obj.state = "revoked"))
    /\ published' = IF r[1] = "version" /\ val.state = "published" /\ published[r[2]] = NoModel
                    THEN [published EXCEPT ![r[2]] = val.cfg] ELSE published
    /\ UNCHANGED req

\* gorm's Save: an UPDATE of every column ...
SaveUpdates(w) ==
    /\ copy[w].step = "holds" /\ table[copy[w].row] # NoRow
    /\ \E obj \in Changed(w) : Write(w, obj, obj)

\* ... and, when that met no row, an INSERT that overwrites on conflict.
SaveMisses(w) ==
    /\ copy[w].step = "holds" /\ table[copy[w].row] = NoRow
    /\ \E obj \in Changed(w) : copy' = [copy EXCEPT ![w].val = obj, ![w].step = "missed"]
    /\ UNCHANGED <<table, req, gen, odd, off, published>>

SaveInserts(w) ==
    /\ copy[w].step = "missed"
    /\ Write(w, copy[w].val, Inserted(copy[w].val))

\* By ID, at once, whoever holds the object; what refers to the row stays.
Delete(r) ==
    /\ table[r] # NoRow
    /\ WritesLeft
    /\ table' = [table EXCEPT ![r] = NoRow]
    /\ gen' = [gen EXCEPT ![r] = @ + 1]
    /\ UNCHANGED <<copy, req, odd, off, published>>
DeleteApp    == Delete(App)
DeleteApiKey == Delete(Key)
DeleteModel  == \E r \in ModelRows : Delete(r)
DeleteTenant == Delete(Tenant)

-----------------------------------------------------------------------------
(* A chat request up to its agent.                                         *)

ReqStep(q, from, new) ==
    /\ req[q].step = from
    /\ req' = [req EXCEPT ![q] = new]
    /\ UNCHANGED <<table, copy, gen, odd, off, published>>

\* The credential is the app's ID if it parses as a UUID, else an API key.
Authorize(q) ==
    \E by \in {"key", "id"} :
        ReqStep(q, "new",
            [req[q] EXCEPT !.step = IF by = "key" THEN "key" ELSE "app", !.by = by,
                           !.dead = {r \in {Key, App} : table[r].state \in {"none", "revoked"}}])

Read(q, from, row, next) ==
    ReqStep(q, from, [req[q] EXCEPT !.step = IF row THEN next ELSE "refused"])

\* Faulty: any row with that key will do.
FindAppByApiKeyRow(q) == Read(q, "key", table[Key] # NoRow, "app")

FindAppByApiKey(q) == Read(q, "key", table[Key].state = "active", "app")

FindApp(q) == Read(q, "app", table[App] # NoRow, "version")

VersionsIn(states) == {v \in 1..NVersions : table[<<"version", v>>].state \in states}

\* Faulty: the status is left out of the condition.
FindPublishedVersionAny(q) ==
    LET found == VersionsIn(States("version")) IN
    ReqStep(q, "version",
        IF found = {} THEN [req[q] EXCEPT !.step = "refused"]
        ELSE [req[q] EXCEPT !.step = "model", !.ver = Max(found),
                            !.model = table[<<"version", Max(found)>>].cfg])

\* First orders by primary key: the oldest published version, as nothing
\* archives it when a newer one is published.
FindPublishedVersion(q) ==
    LET found == VersionsIn({"published"}) IN
    ReqStep(q, "version",
        IF found = {} THEN [req[q] EXCEPT !.step = "refused"]
        ELSE [req[q] EXCEPT !.step = "model", !.ver = Min(found),
                            !.model = table[<<"version", Min(found)>>].cfg])

\* A client for the model's provider: any row will do, enabled or not, but the
\* provider may be unknown or the library may refuse the configuration.
NewChatModel(row) == IF row = NoRow THEN {FALSE} ELSE BOOLEAN

\* The agent for the type of the app; a type without one is refused as well.
CreateAgent(q) ==
    /\ req[q].step = "model"
    /\ \E made \in NewChatModel(table[<<"model", req[q].model>>]) : Read(q, "model", made, "made")

-----------------------------------------------------------------------------
Next ==
    \/ \E w \in Writers :
        \/ FindAppByID(w) \/ FindVersion(w) \/ FindApiKey(w) \/ FindModel(w)
        \/ FindTenantByID(w) \/ CreateTenant(w) \/ NewAppVersion(w)
        \/ SaveUpdates(w) \/ SaveMisses(w) \/ SaveInserts(w)
    \/ DeleteApp \/ DeleteApiKey \/ DeleteModel \/ DeleteTenant
    \/ \E q \in Requests :
        \/ Authorize(q) \/ FindAppByApiKey(q) \/ FindApp(q)
        \/ FindPublishedVersion(q) \/ CreateAgent(q)

Spec == Init /\ [][Next]_vars

-----------------------------------------------------------------------------
\* Types.
CatalogTypeOK ==
    /\ \A r \in Rows : table[r] = NoRow \/ table[r].state \in States(r[1])
    /\ \A w \in Writers : copy[w].step \in {"idle", "holds", "missed"} /\ copy[w].row \in Rows
    /\ \A q \in Requests :
        /\ req[q].step \in {"new", "key", "app", "version", "model", "made", "refused"}
        /\ req[q].model \in 0..NModels /\ req[q].ver \in 0..NVersions
    /\ odd \subseteq Rows /\ off \in BOOLEAN

\* Decisions stand: a revoked key stays revoked, and what was published keeps
\* its configuration and never becomes a draft again, except through a Save that
\* overwrote what it had not read, or that inserted a column's default.
NothingReverts ==
    /\ off /\ table[Key].state = "active" => Key \in odd
    /\ \A v \in 1..NVersions : LET row == table[<<"version", v>>] IN
        published[v] # NoModel /\ <<"version", v>> \notin odd =>
            row.state # "draft" /\ row.cfg = published[v]

\* A request runs a configuration that was published, whatever writers did
\* between its statements.
RunsWhatWasPublished ==
    \A q \in Requests : req[q].ver # 0 =>
        /\ published[req[q].ver] # NoModel
        /\ req[q].model = published[req[q].ver] \/ <<"version", req[q].ver>> \in odd

\* A request that starts after its key was revoked or its app was deleted is
\* refused, unless a stale Save brought them back.
NothingRunsOnceTaken ==
    \A q \in Requests : req[q].step = "made" =>
        req[q].dead \cap (IF req[q].by = "key" THEN {Key, App} ELSE {App}) \subseteq odd
=============================================================================
