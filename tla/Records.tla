------------------------------- MODULE Records -------------------------------
(***************************************************************************)
(* The services that keep records and do nothing else with them:           *)
(* services/workspace_admin.py, services/secrets.py, services/tokens.py,   *)
(* services/permissions.py and the dashboards of services/preview_sql.py.  *)
(* They share no state, so a behaviour is about one kind of record.        *)
(*                                                                         *)
(* A key is a number or a text with a number in it, as <<"int", n>> or     *)
(* <<"str", n>>: in a JSON snapshot every key is a text.  What a record    *)
(* says is a function from its attributes to values, and a request sends   *)
(* such a function with the attributes it names; None stands for null.     *)
(* An update of a credential, a dashboard, a widget or a visualization is  *)
(* taken over with whatever it holds, the id of the record included; all   *)
(* other requests drop what their model does not name.                     *)
(* Bounds: MaxRecords records created, Values.                             *)
(***************************************************************************)
EXTENDS Integers, FiniteSets, Sequences, Functions, TLC

CONSTANTS MaxRecords, Values, None

VARIABLES
  kind,     \* the kind of record this behaviour is about
  records,  \* key -> [id, attributes]
  created,  \* how many records were created; next_credential_id - 1 for credentials
  relabelled   \* keys of the records whose id a client has overwritten

vars == <<kind, records, created, relabelled>>

Kinds == {"credentials", "ip_access_lists", "init_scripts", "notification_destinations",
          "instance_profiles", "workspace_conf", "tokens", "scopes", "permissions", "dashboards"}

Init == kind \in Kinds /\ records = <<>> /\ created = 0 /\ relabelled = {}

Is(k) == kind = k /\ kind' = kind
Bodies(attributes) == UNION {[sent -> Values] : sent \in SUBSET attributes}
Added(key, attributes) ==
  [k \in DOMAIN records \cup {key} |->
     IF k = key THEN [id |-> key, attributes |-> attributes] ELSE records[k]]
Over(body, old) ==
  [a \in DOMAIN body \cup DOMAIN old |-> IF a \in DOMAIN body THEN body[a] ELSE old[a]]
Merged(key, id, body) ==
  [records EXCEPT ![key] = [id |-> id, attributes |-> Over(body, @.attributes)]]
Text(n) == <<"str", n>>

(* A record under a key that the server makes up, or one under a name; the *)
(* id is set after the body is copied.                                     *)
Create(key, attributes) ==
  /\ created < MaxRecords
  /\ records' = Added(key, attributes) /\ created' = created + 1
  /\ UNCHANGED relabelled

Put(key, attributes) == records' = Added(key, attributes) /\ UNCHANGED <<created, relabelled>>

Update(key, body) ==
  /\ key \in DOMAIN records
  /\ records' = Merged(key, records[key].id, body)
  /\ UNCHANGED <<created, relabelled>>

(* A body without the id, or with one.                                     *)
TakeOver(key, body) ==
  \/ Update(key, body)
  \/ /\ key \in DOMAIN records
     /\ \E n \in 1..MaxRecords, type \in {"int", "str"} :
          records' = Merged(key, <<type, n>>, body)
     /\ relabelled' = relabelled \cup {key} /\ UNCHANGED created

Delete(key) ==
  /\ key \in DOMAIN records
  /\ records' = Restrict(records, DOMAIN records \ {key})
  /\ relabelled' = relabelled \ {key} /\ UNCHANGED created

----------------------------------------------------------------------------
(* Git credentials: the only numbered ones, and the only ones with a part  *)
(* that is kept but never shown.                                           *)
Credential ==
  /\ Is("credentials")
  /\ \/ \E body \in Bodies({"git_provider", "personal_access_token"}) :
          "git_provider" \in DOMAIN body /\ Create(<<"int", created + 1>>, body)
     \/ \E n \in 1..MaxRecords :
          \/ \E body \in Bodies({"git_provider", "personal_access_token"}) : TakeOver(<<"int", n>>, body)
          \/ Delete(<<"int", n>>)

(* IP access lists: replaced as a whole or in parts; the type is checked.  *)
ListTypes == {"ALLOW", "BLOCK"}
ListType(body) == IF "list_type" \in DOMAIN body THEN body["list_type"] \in ListTypes ELSE TRUE
ListBodies ==
  {("list_type" :> type) @@ body : type \in ListTypes \cup {"other"}, body \in Bodies({"label"})}
    \cup Bodies({"label", "enabled"})
Whole(body) == body @@ [a \in {"label", "list_type"} |-> None] @@ ("enabled" :> "true")

IpAccessList ==
  /\ Is("ip_access_lists")
  /\ \/ \E body \in ListBodies :
          /\ ListType(body)
          /\ \/ Create(Text(created + 1), ("enabled" :> "true") @@ Whole(body))
             \/ \E n \in 1..MaxRecords : Update(Text(n), Whole(body)) \/ Update(Text(n), body)
     \/ \E n \in 1..MaxRecords : Delete(Text(n))

(* Global init scripts: a script must decode, and goes to the end of the   *)
(* order, which is the number of scripts there are.                        *)
ScriptBodies ==
  {("script" :> script) @@ body : script \in {"base64", "raw"}, body \in Bodies({"name"})}

InitScript ==
  /\ Is("init_scripts")
  /\ \/ \E body \in ScriptBodies :
          /\ body["script"] # "raw"
          /\ \/ Create(Text(created + 1),
                  body @@ ("position" :> Cardinality(DOMAIN records)) @@ ("enabled" :> "false"))
             \/ \E n \in 1..MaxRecords : Update(Text(n), body)
     \/ \E n \in 1..MaxRecords : Delete(Text(n))

(* Notification destinations: the type follows from the configuration.     *)
Configs == {"email", "slack", "empty"}
DestinationType(config) == IF config = "empty" THEN None ELSE config

NotificationDestination ==
  /\ Is("notification_destinations")
  /\ \/ \E config \in Configs, body \in Bodies({"display_name"}) :
          LET whole == Over([config |-> config, type |-> DestinationType(config)], body)
          IN \/ Create(Text(created + 1), whole)
             \/ \E n \in 1..MaxRecords : Update(Text(n), whole) \/ Update(Text(n), body)
     \/ \E n \in 1..MaxRecords : Delete(Text(n))

(* Instance profiles are named by the client, and named once.              *)
InstanceProfile ==
  /\ Is("instance_profiles")
  /\ \E n \in 1..2 :
       \/ \E body \in Bodies({"iam_role_arn"}) :
            \/ Text(n) \notin DOMAIN records /\ Put(Text(n), body)
            \/ Update(Text(n), body)
       \/ Delete(Text(n))

(* Workspace configuration: every value becomes a text, null the empty one.*)
ConfString(value) ==
  CASE value = None -> "" [] value = "True" -> "true" [] OTHER -> value

WorkspaceConf ==
  /\ Is("workspace_conf")
  /\ \E n \in 1..2, value \in {"True", None} \cup Values : Put(Text(n), "value" :> ConfString(value))

(* Tokens: never without an expiry in the future, unless they have none.   *)
Lifetimes == {None, -1, 0, 60}
Token ==
  /\ Is("tokens")
  /\ \/ \E lifetime \in Lifetimes :
          /\ lifetime # 0
          /\ Create(Text(created + 1),
               "expires" :> IF lifetime \in {None, -1} THEN -1 ELSE lifetime)
     \/ \E n \in 1..MaxRecords : Delete(Text(n))

(* Secret scopes, the secrets and the rights in them.  A scope begins with *)
(* somebody who manages it.                                                *)
Scope ==
  /\ Is("scopes")
  /\ \E n \in 1..2 :
       \/ Text(n) \notin DOMAIN records /\ Put(Text(n), <<"acl", "users">> :> "MANAGE")
       \/ Delete(Text(n))
       \/ \E value \in Values, permission \in {"READ", "MANAGE"} :
            \/ Update(Text(n), <<"secret", "key">> :> value)
            \/ Update(Text(n), <<"acl", "users">> :> permission)
       \/ \E part \in {<<"secret", "key">>, <<"acl", "users">>} :
            /\ Text(n) \in DOMAIN records /\ part \in DOMAIN records[Text(n)].attributes
            /\ records' = [records EXCEPT ![Text(n)].attributes = Restrict(@, DOMAIN @ \ {part})]
            /\ UNCHANGED <<created, relabelled>>

(* Permissions: an object without a list of its own has the default one,   *)
(* to which an update adds; a replacement that is empty brings it back.    *)
DefaultAcl == "minilake-user" :> "CAN_MANAGE"
Acl(key) == IF key \in DOMAIN records THEN records[key].attributes ELSE DefaultAcl

Permissions ==
  /\ Is("permissions")
  /\ \E n \in 1..2, body \in Bodies({"minilake-user", "other"}) :
       \/ Put(Text(n), body @@ Acl(Text(n)))
       \/ IF body # <<>> THEN Put(Text(n), body)
          ELSE /\ records' = Restrict(records, DOMAIN records \ {Text(n)})
               /\ UNCHANGED <<created, relabelled>>

(* Dashboards go to the trash and come back, widgets name the dashboard    *)
(* they are on, visualizations a query.                                    *)
Board(n) == Text(n) \in DOMAIN records /\ "is_archived" \in DOMAIN records[Text(n)].attributes
Part(n) == Text(n) \in DOMAIN records /\ ~Board(n)

Dashboard ==
  /\ Is("dashboards")
  /\ \/ \E value \in Values : Create(Text(created + 1), "name" :> value @@ "is_archived" :> FALSE)
     \/ \E n \in 1..MaxRecords :
          \/ Create(Text(created + 1), "query_id" :> n)
          \/ Board(n) /\ Create(Text(created + 1), "dashboard_id" :> n)
          \/ Board(n) /\ \E body \in {"name" :> value : value \in Values} \cup
                                    {"is_archived" :> trashed : trashed \in BOOLEAN} :
               TakeOver(Text(n), body)
          \/ Part(n) /\ \E m \in 1..MaxRecords, attribute \in {"dashboard_id", "query_id"} :
               attribute \in DOMAIN records[Text(n)].attributes /\ TakeOver(Text(n), attribute :> m)
          \/ Part(n) /\ Delete(Text(n))

----------------------------------------------------------------------------
\* Mutant: the keys stay what JSON made of them.
RestoredAsText(key) == Text(key[2])

(* A restart through the snapshot: every key comes back as a text, and only*)
(* the credentials turn theirs into numbers again.                         *)
RestoredKey(key) == IF kind = "credentials" THEN <<"int", key[2]>> ELSE Text(key[2])

Restart ==
  /\ records' = [k \in {RestoredKey(key) : key \in DOMAIN records} |->
                   records[CHOOSE key \in DOMAIN records : RestoredKey(key) = k]]
  /\ relabelled' = {RestoredKey(key) : key \in relabelled}
  /\ UNCHANGED <<kind, created>>

Reset == records' = <<>> /\ created' = 0 /\ relabelled' = {} /\ kind' = kind

Next ==
  \/ Credential \/ IpAccessList \/ InitScript \/ NotificationDestination \/ InstanceProfile
  \/ WorkspaceConf \/ Token \/ Scope \/ Permissions \/ Dashboard
  \/ Restart \/ Reset

Spec == Init /\ [][Next]_vars

----------------------------------------------------------------------------
(* Every record whose id no client has overwritten is found under the id   *)
(* that it reports, also after it went through a snapshot and was updated  *)
(* since (workspace_admin.restore_state: "or a restored credential is      *)
(* unreachable by the id it reports"); the number that the next credential *)
(* gets is not that of another, whatever was restored and overwritten; and *)
(* the type that a notification destination reports is that of its         *)
(* configuration.                                                          *)
RecordsFound ==
  /\ \A key \in DOMAIN records \ relabelled : records[key].id = key
  /\ kind = "credentials" => \A key \in DOMAIN records : key[2] <= created
  /\ kind = "notification_destinations" =>
       \A key \in DOMAIN records :
         records[key].attributes["type"] = DestinationType(records[key].attributes["config"])
=============================================================================
