--------------------------- MODULE Configuration ---------------------------
(***************************************************************************)
(* What the two commands make of the settings they are started with: which *)
(* of the environment variables and flags that carry one option counts,    *)
(* which backends that enables, and how the MongoDB options become, each   *)
(* in its own way, the arguments of mongorestore and the client that       *)
(* applies the updates after it.  A behaviour is an operator giving one    *)
(* setting after another; every command line and environment with at most  *)
(* MaxSettings settings is a state.                                        *)
(***************************************************************************)
EXTENDS Naturals, FiniteSets, Sequences

CONSTANTS
  Varied,     \* options that are set in this instance
  Given,      \* [option -> values an operator gives it]
  HostList,   \* [text of --host -> the replica set and the members it names]
  Uri,        \* [text of --uri -> members and credentials in it]
  MaxSettings \* bound: settings given at once

VARIABLE settings \* [<<where, option>> -> text]: variables and flags that are set

Command == {"archive", "restore"}

BoolOption == {"ssl", "uriPrune", "sslFIPSMode"}
MongoOption ==
  {"host", "port", "username", "password", "authenticationDatabase",
   "authenticationMechanism", "ssl", "sslCAFile", "sslPEMKeyFile", "sslCRLFile",
   "sslFIPSMode", "db", "uri", "uriPrune"}
Required ==   \* what useAzure, useAWS, useGCP and useLocal ask for
  [azure |-> {"azAccountName", "azAccountKey", "azContainerName"},
   aws   |-> {"awsAccessKeyID", "awsSecretAccessKey", "awsBucket"},
   gcp   |-> {"gcpBucket"},
   local |-> {"localPath"}]
StorageOption == {"backupPrefix"} \cup UNION {Required[b] : b \in DOMAIN Required}
Option == MongoOption \cup StorageOption

ASSUME ConfigurationAssumption ==
  /\ Varied \subseteq Option /\ Varied \subseteq DOMAIN Given
  /\ MaxSettings \in Nat
  /\ \A u \in DOMAIN Uri : \E v \in DOMAIN Uri :
       Uri[v] = [Uri[u] EXCEPT !.username = "", !.password = ""]

-----------------------------------------------------------------------------
(* Which setting of an option counts. *)

(* utils.NewEnv(envPrefix, fallbackEnvPrefix, "") *)
OwnPrefix(c) == IF c = "archive" THEN "MONGOARCHIVE__" ELSE "MONGOUNARCHIVE__"
EnvPrefixes(c) == <<OwnPrefix(c), "MONGO__", "">>
CommandLine(c) == IF c = "archive" THEN "mongo-archive" ELSE "mongo-unarchive"
Where == {OwnPrefix(c) : c \in Command} \cup {CommandLine(c) : c \in Command}
           \cup {"MONGO__", ""}

IsSet(w, o) == <<w, o>> \in DOMAIN settings
Getenv(prefix, o) == IF IsSet(prefix, o) THEN settings[<<prefix, o>>] ELSE ""
Default(o) == IF o = "backupPrefix" THEN "mongo-archive/" ELSE ""

First(indices) == CHOOSE i \in indices : \A j \in indices : i <= j

FirstThatIsSet(c, o) ==
  LET set == {i \in 1..3 : IsSet(EnvPrefixes(c)[i], o)} IN
  IF set = {} THEN Default(o) ELSE Getenv(EnvPrefixes(c)[First(set)], o)
GetValue(c, o) ==
  LET set == {i \in 1..3 : Getenv(EnvPrefixes(c)[i], o) # ""} IN
  IF set = {} THEN Default(o) ELSE Getenv(EnvPrefixes(c)[First(set)], o)

FromEnv(c, o) ==
  IF o \in BoolOption THEN (IF GetValue(c, o) = "true" THEN "true" ELSE "false")
  ELSE GetValue(c, o)

(* A flag that is given counts, also when it is empty. *)
Bind(c, o) ==
  IF IsSet(CommandLine(c), o) THEN settings[<<CommandLine(c), o>>] ELSE FromEnv(c, o)

Config(c) == [o \in Option |-> Bind(c, o)]

-----------------------------------------------------------------------------
(* The storage backends of a command. *)

Enabled(c) ==
  {b \in DOMAIN Required : \A o \in Required[b] : Bind(c, o) # ""}

(* Where a command keeps or looks for its backups on a backend. *)
Place(c, b) ==
  [o \in IF b \in Enabled(c) THEN Required[b] \cup {"backupPrefix"} ELSE {} |->
     Bind(c, o)]

-----------------------------------------------------------------------------
(* The arguments of mongorestore, and what it connects to. *)

PruneMongoDBURI(uri) ==
  CHOOSE v \in DOMAIN Uri : Uri[v] = [Uri[uri] EXCEPT !.username = "", !.password = ""]

IsOn(m, o) == IF o \in BoolOption THEN m[o] = "true" ELSE m[o] # ""

AppendToolOptions(m) ==
  [o \in {p \in MongoOption \ {"uriPrune"} : IsOn(m, p)} |->
     IF o = "uri" /\ m.uriPrune = "true" THEN PruneMongoDBURI(m.uri) ELSE m[o]]

(* A member without a port of its own gets the one of --port. *)
WithPort(member, port) ==
  IF member.port = "" THEN [member EXCEPT !.port = port] ELSE member
Addresses(members, port) ==
  {WithPort(members[i], port) : i \in DOMAIN members}

Localhost == [set |-> "", members |-> <<[name |-> "localhost", port |-> ""]>>]
Hosts(host) == IF host = "" THEN Localhost ELSE HostList[host]

(* Whose credentials these are, and where they are kept: in the database   *)
(* that is named, in $external, in the one fallen back to, or in admin.    *)
ExternalMechanism == {"GSSAPI", "PLAIN", "MONGODB-X509"}
SourceOf(mechanism, named, fallback) ==
  IF named # "" THEN named
  ELSE IF mechanism \in ExternalMechanism THEN "$external"
  ELSE IF fallback # "" THEN fallback ELSE "admin"

NoLogin == [username |-> "", password |-> "", mechanism |-> "", source |-> ""]
Login(username, password, mechanism, source) ==
  IF username = "" /\ mechanism = "" THEN NoLogin
  ELSE [username |-> username, password |-> IF username = "" THEN "" ELSE password,
        mechanism |-> mechanism, source |-> source]

Tls(on, ca, key) ==
  [on |-> on, ca |-> IF on THEN ca ELSE "", key |-> IF on THEN key ELSE ""]

(* mongorestore looks for the user in --db when no authentication database *)
(* is given, and at the files of --sslCAFile and --sslPEMKeyFile only with *)
(* --ssl.                                                                  *)
ToolConnection(args) ==
  LET arg(o) == IF o \in DOMAIN args THEN args[o] ELSE ""
      byUri == arg("uri") # ""
      uri == Uri[arg("uri")]
      hosts == Hosts(arg("host"))
      username == IF byUri /\ uri.username # "" THEN uri.username ELSE arg("username")
      password == IF byUri /\ uri.password # "" THEN uri.password ELSE arg("password")
      mechanism == arg("authenticationMechanism")
  IN [set |-> IF byUri THEN "" ELSE hosts.set,
      members |-> IF byUri THEN Addresses(uri.members, "")
                  ELSE Addresses(hosts.members, arg("port")),
      login |-> Login(username, password, mechanism,
                      SourceOf(mechanism, arg("authenticationDatabase"), arg("db"))),
      tls |-> Tls(arg("ssl") = "true", arg("sslCAFile"), arg("sslPEMKeyFile")),
      db |-> arg("db")]

(* It refuses flags that contradict its URI.                               *)
ToolMayRefuse(args) ==
  /\ "uri" \in DOMAIN args
  /\ \/ DOMAIN args \cap {"host", "port"} # {}
     \/ \E o \in DOMAIN args \cap {"username", "password"} :
          Uri[args.uri][o] \notin {"", args[o]}

-----------------------------------------------------------------------------
(* The client of the updates. *)

PortOnlyWhenAlone(m) ==
  LET members == Hosts(m.host).members IN
  Addresses(members, IF Len(members) = 1 THEN m.port ELSE "")
ClientMembers(m) == Addresses(Hosts(m.host).members, m.port)

(* A URI that is given is the whole answer, but for InvalidHostList. The   *)
(* one that is built names no database: the driver falls back to admin.    *)
MongoConnectionURI(m) ==
  IF m.uri # "" THEN
    LET uri == Uri[m.uri] IN
    [set |-> "", members |-> Addresses(uri.members, ""),
     login |-> Login(uri.username, uri.password, "", "admin"), tls |-> FALSE]
  ELSE
    LET mechanism == m.authenticationMechanism IN
    [set |-> Hosts(m.host).set, members |-> ClientMembers(m),
     login |-> Login(m.username, m.password, mechanism,
                     SourceOf(mechanism, m.authenticationDatabase, "")),
     tls |-> m.ssl = "true"]

InvalidHostList(m) ==
  /\ m.uri = ""
  /\ \E i \in DOMAIN Hosts(m.host).members : Hosts(m.host).members[i].name = ""
ClientRefused(m) == InvalidHostList(m) \/ m.sslCRLFile # "" \/ m.sslFIPSMode = "true"

(* The options of the client, tlsCAFile and tlsCertificateKeyFile of which *)
(* turn TLS on, and the database that GetMongoClient takes.                *)
MongoClientOptions(m) ==
  LET uri == MongoConnectionURI(m) IN
  [set |-> uri.set, members |-> uri.members, login |-> uri.login,
   tls |-> Tls(uri.tls \/ m.sslCAFile # "" \/ m.sslPEMKeyFile # "",
               m.sslCAFile, m.sslPEMKeyFile),
   db |-> m.db]

-----------------------------------------------------------------------------

SettingsInit == settings = [p \in {} |-> ""]

(* The operator sets a variable or gives a flag, possibly to nothing. *)
Give(w, o, text) ==
  /\ ~IsSet(w, o)
  /\ Cardinality(DOMAIN settings) < MaxSettings
  /\ settings' = [p \in DOMAIN settings \cup {<<w, o>>} |->
                    IF p = <<w, o>> THEN text ELSE settings[p]]

SettingsNext ==
  \E w \in Where, o \in Varied : \E text \in Given[o] \cup {""} :
    /\ o \in BoolOption /\ w \in {CommandLine(c) : c \in Command} => text # ""
    /\ Give(w, o, text)

SettingsSpec == SettingsInit /\ [][SettingsNext]_settings

-----------------------------------------------------------------------------
(* Properties. *)

(* Without a --uri the updates go to the servers and the database of the   *)
(* restore before them, as the same user, and never less protected by TLS, *)
(* unless the client is refused: AppendToolOptions and MongoConnectionURI  *)
(* say the same in two languages. They differ in two defaults. When no     *)
(* authentication database is given mongorestore looks for the user in     *)
(* --db and the updates in admin, as the URI built for them has neither an *)
(* authSource nor a path; and a file for TLS turns it on for the updates   *)
(* only.                                                                   *)
UpdatesFollowHost ==
  LET m == Config("restore")
      restore == ToolConnection(AppendToolOptions(m))
      updates == MongoClientOptions(m)
  IN m.uri = "" /\ ~ClientRefused(m) =>
       /\ updates.set = restore.set /\ updates.members = restore.members
       /\ updates.db = restore.db
       /\ \/ updates.login = restore.login
          \/ /\ m.authenticationDatabase = "" /\ restore.login.source = m.db
             /\ updates.login = [restore.login EXCEPT !.source = "admin"]
       /\ restore.tls.on => updates.tls = restore.tls

(* Every configuration that neither side refuses gives the restore and the *)
(* updates one connection, as UPDATE-01 of the remediation plan requires:  *)
(* "Construct driver TLS/auth options from the same typed Mongo            *)
(* configuration used for mongorestore".                                   *)
UpdatesFollowRestore ==
  LET m == Config("restore")
      args == AppendToolOptions(m)
  IN ~ClientRefused(m) /\ ~ToolMayRefuse(args) =>
       MongoClientOptions(m) = ToolConnection(args)

(* The restore looks for backups where the archive puts them, backend by   *)
(* backend, unless the operator gave one of the two commands an option of  *)
(* its own there: whatever is set for both reaches both alike, and a       *)
(* variable that is set to nothing, as container tools do, hides nothing.  *)
RestoreLooksWhereArchivePuts ==
  \A b \in DOMAIN Required :
    \/ Place("archive", b) = Place("restore", b)
    \/ \E c \in Command, o \in Required[b] \cup {"backupPrefix"} :
         Getenv(OwnPrefix(c), o) # "" \/ IsSet(CommandLine(c), o)
=============================================================================
