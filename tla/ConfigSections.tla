--------------------------- MODULE ConfigSections ---------------------------
(***************************************************************************)
(* The sections of a config that hold flat values, and what ConfigParser   *)
(* makes of each value (config.cc): which keys a section has, what a key   *)
(* accepts and which field it sets.  A section is an object of which the   *)
(* keys come in any order and any number of times.  jsini, which makes     *)
(* values of the text, is left out; a value is one of a few.               *)
(***************************************************************************)
EXTENDS Integers, Sequences

CONSTANT MaxKeys

VARIABLES
    section,
    fields, \* its object
    said,   \* the values the config gave for each key, one after the other
    refused \* the key that made Parse return false, "" if none did

sectionVars == <<section, fields, said, refused>>

\* The keys of each section, and which Parse their value is given to.
AdminKeys    == [listen |-> "int"]
LoggerKeys   == [file |-> "string", level |-> "level"]
ProxyKeys    == [listen |-> "int"]
UpstreamKeys == [host |-> "string", port |-> "int", connect_timeout |-> "int", tags |-> "strings"]
CommandKeys  == [file |-> "string", args |-> "strings", env |-> "strings", cwd |-> "strings",
                 timeout |-> "int"]
AppKeys      == [name |-> "text", max_start_time |-> "int", tags |-> "strings"]
DummyKeys    == [type |-> "type", listen |-> "int", echo |-> "bool"]
Keys == [admin |-> AdminKeys, logger |-> LoggerKeys, proxy |-> ProxyKeys, upstream |-> UpstreamKeys,
         command |-> CommandKeys, app |-> AppKeys, dummy |-> DummyKeys]

\* Keys that tests or users write where the parser knows none.
StrayKeys == {"port"}

\* Variant: a command's time limit goes to its environment as its cwd does.
FieldMixed(key) == IF key \in {"cwd", "timeout"} THEN "env" ELSE key

\* The field that holds what a key says.
Field(key) == IF key = "cwd" THEN "env" ELSE key

\* Values by their JSON type; among the strings the name of a log level and
\* of the types of dummy servers, and another.
Json ==
    [int |-> {"1", "2"}, bool |-> {"true", "false"}, strings |-> {"[a]", "[b]"},
     string |-> {"TRACE", "tcp", "udp", "http", "other"}]
Value == UNION {Json[type] : type \in DOMAIN Json}

\* The values the Parse of a key returns true for: text takes any value, as
\* it is written.
Accepted(parse) ==
    CASE parse \in {"int", "bool", "string", "strings"} -> Json[parse]
      [] parse = "level" -> Json["string"]
      [] parse = "type" -> {"tcp", "udp", "http"}
      [] parse = "text" -> Value

\* A name that is none leaves the level as it was, and so does "http" the
\* type of a dummy.
ParseLevel(old, v) == IF v = "TRACE" THEN <<v>> ELSE old
ParseType(old, v)  == IF v = "http" THEN old ELSE <<v>>

\* What a field holds after that; a list grows.
Set(parse, old, v) ==
    CASE parse = "strings" -> Append(old, v)
      [] parse = "level" -> ParseLevel(old, v)
      [] parse = "type" -> ParseType(old, v)
      [] OTHER -> <<v>>

-----------------------------------------------------------------------------

\* A key and its value.
Key(key, v) ==
    /\ refused = "" /\ key \in DOMAIN Keys[section]
    /\ LET parse == Keys[section][key]
       IN IF v \in Accepted(parse)
          THEN /\ fields' = [fields EXCEPT ![Field(key)] = Set(parse, @, v)]
               /\ said' = [said EXCEPT ![key] = Append(@, v)]
               /\ UNCHANGED refused
          ELSE refused' = key /\ UNCHANGED <<fields, said>>
    /\ UNCHANGED section

UnknownKey(key) ==
    /\ refused = "" /\ key \notin DOMAIN Keys[section]
    /\ refused' = key
    /\ UNCHANGED <<section, fields, said>>

SectionsInit ==
    /\ section \in DOMAIN Keys
    /\ fields = [key \in DOMAIN Keys[section] |-> <<>>]
    /\ said = [key \in DOMAIN Keys[section] |-> <<>>]
    /\ refused = ""

SectionsNext ==
    \/ \E key \in DOMAIN Keys[section], v \in Value :
          /\ \A k \in DOMAIN said : Len(said[k]) < MaxKeys
          /\ Key(key, v)
    \/ \E key \in StrayKeys : UnknownKey(key)

SectionsSpec == SectionsInit /\ [][SectionsNext]_sectionVars

-----------------------------------------------------------------------------
(* Properties. *)

\* Values that are taken and leave their field as it was.
NotUsed(parse, v) == (parse = "level" /\ v # "TRACE") \/ (parse = "type" /\ v = "http")

\* The last value a config gives a key of one value is what its field holds,
\* and a list holds all it was given, in order, whichever other keys came
\* between (config.cc:137-360).  Not so for what the parser takes without
\* using it: a log level that is none, the type "http" of a dummy, and the
\* cwd of a command, which gets into its environment.
FieldsAreAsSaid ==
    \A key \in DOMAIN said :
        LET parse == Keys[section][key]
            values == said[key]
        IN \/ key = "cwd" \/ (key = "env" /\ said["cwd"] # <<>>)
           \/ parse = "strings" /\ fields[key] = values
           \/ /\ parse # "strings" /\ fields[key] = <<>>
              /\ \A i \in DOMAIN values : NotUsed(parse, values[i])
           \/ /\ parse # "strings"
              /\ \E i \in DOMAIN values :
                    /\ fields[key] = <<values[i]>> /\ ~NotUsed(parse, values[i])
                    /\ \A j \in DOMAIN values : j > i => NotUsed(parse, values[j])

\* test/test_config.cc:33 gives a logger the key "port" and line 38 asserts
\* that Parse accepts the config; lines 62 and 80 do the same for a proxy.
TestsParse == ~(section \in {"proxy", "logger"} /\ refused = "port")
=============================================================================
