------------------------------ MODULE NacosConfig ------------------------------
(***************************************************************************)
(* The configuration object of a service and the listener that keeps it up *)
(* to date (zoe_nacos_config): it asks the nacos server whether the        *)
(* configuration differs from the version noted last, fetches it, notes    *)
(* its version, parses it and replaces the attributes of the one object.   *)
(* A content stands for its version, which is its md5.                     *)
(***************************************************************************)
EXTENDS Integers

CONSTANTS Versions,  \* the contents that may be published
          Parsable,  \* those from which the class can be made
          Fields,    \* the fields of the class
          Annotated, \* those it declares itself, in __annotations__; the others are inherited
          Absent,    \* nothing is published
          ErrorPage, \* what a server in trouble answers; its status is not looked at
          ErrorJson, \* the same as a JSON object, from which the class is made with its defaults
          Default    \* the default value of a field, and the version of nothing

ASSUME FieldsAssumption   == Annotated \subseteq Fields
ASSUME ParsableAssumption == Parsable \subseteq Versions
ASSUME NamesAssumption    == {Absent, ErrorPage, ErrorJson, Default} \cap Versions = {}

VARIABLES
  published, \* what the server has
  noted,     \* current_version_md5
  object,    \* the configuration object
  listening  \* where the service is with it

configVars == <<published, noted, object, listening>>

Contents == Versions \cup {Absent}
Errors   == {ErrorPage, ErrorJson}

Parses(body) == body \in Parsable \cup {ErrorJson}
Value(body)  == IF body \in Parsable THEN body ELSE Default

ConfigInit ==
  /\ published \in Contents
  /\ noted = Default
  /\ object = [a \in Fields |-> Default]
  /\ listening = "start"

\* Somebody publishes another version, or removes it.
Publish ==
  /\ \E v \in Contents \ {published} : published' = v
  /\ UNCHANGED <<noted, object, listening>>

\* get_zoe_nacos_config: no configuration is an empty one; what cannot be parsed ends the process.
\* The version is not noted.
Load(body) ==
  /\ listening = "start"
  /\ body \in {published} \cup Errors
  /\ \/ /\ body = Absent \/ Parses(body)
        /\ object' = [a \in Fields |-> Value(body)]
        /\ listening' = "sleep"
     \/ /\ body # Absent /\ ~Parses(body)
        /\ listening' = "exited"
        /\ UNCHANGED object
  /\ UNCHANGED <<published, noted>>

\* The interval is over; the post with the version noted is sent.
Poll ==
  /\ listening = "sleep"
  /\ listening' = "poll"
  /\ UNCHANGED <<published, noted, object>>

\* The server has held the request for its timeout.
NothingNew ==
  /\ listening = "poll"
  /\ published = noted \/ published = Absent
  /\ listening' = "sleep"
  /\ UNCHANGED <<published, noted, object>>

\* Mutant: the version the server speaks of is noted before it is fetched.
ChangeIsNoted ==
  /\ listening = "poll"
  /\ published # noted
  /\ noted' = published
  /\ listening' = "fetch"
  /\ UNCHANGED <<published, object>>

\* The server names the key.
Change ==
  /\ listening = "poll"
  /\ published # noted
  /\ listening' = "fetch"
  /\ UNCHANGED <<published, noted, object>>

\* The exception of a request, or of the parser for what was answered to the post.
RequestFails ==
  /\ listening \in {"poll", "fetch"}
  /\ listening' = "sleep"
  /\ UNCHANGED <<published, noted, object>>

\* Mutant: the body is not validated.
UpdateUnparsed(body) ==
  /\ noted' = body
  /\ object' = [a \in Fields |-> IF a \in Annotated THEN body ELSE object[a]]

\* Mutant: only attributes that are not set yet are replaced.
UpdateUnset(body) ==
  /\ noted' = body
  /\ object' = [a \in Fields |-> IF a \in Annotated /\ object[a] = Default THEN Value(body) ELSE object[a]]

\* get_config notes the version of the body; parsed, it replaces the fields declared by the class.
Update(body) ==
  /\ noted' = body
  /\ object' = [a \in Fields |-> IF Parses(body) /\ a \in Annotated THEN Value(body) ELSE object[a]]

\* The answer to the get: what is published by then, or an error.
Fetched(body) ==
  /\ listening = "fetch"
  /\ body \in {published} \cup Errors
  /\ Update(body)
  /\ listening' = "sleep"
  /\ UNCHANGED published
=============================================================================
