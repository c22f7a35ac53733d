---------------------------- MODULE CommandLine ----------------------------
(***************************************************************************)
(* The commands of sist2 on one index file: how options are checked and    *)
(* turned into the settings of a command, how a scan makes the index file  *)
(* or finds the one that is there, and what the others read of it.         *)
(*                                                                         *)
(* Several commands may run at once, and any may be killed between two     *)
(* statements: no transaction spans two of them.  What a scan then does to *)
(* the documents is IndexDatabase; here it only adds the files that are    *)
(* not too deep.  Texts are told apart by what the checks ask of them.     *)
(***************************************************************************)
EXTENDS Naturals, Integers, Sequences, FiniteSets, FiniteSetsExt

CONSTANTS Processes,
          Commands,     \* command lines that users give: their options
          Absent,       \* an option that is not given
          MaxLevel,     \* files of the folder are 1 to MaxLevel levels below it
          MaxCommands, MaxKills, MaxTime  \* bounds on events

\* argparse reads integers, and an option that is not given is none of them.
ASSUME CommandAssumption ==
    /\ MaxLevel \in Nat /\ MaxCommands \in Nat /\ MaxKills \in Nat
    /\ Absent \notin Int
    /\ \A o \in Commands : o.command = "scan" =>
          \A n \in {"quality", "size", "count", "content", "threads", "depth"} : o[n] \in Int \cup {Absent}

VARIABLES
    file,        \* the index file: "absent", "partial" (part of its schema) or "whole"
    descriptor,  \* rows of its table descriptor: id, major version, root
    version,     \* number of rows in its table version
    documents,   \* levels of the folder whose files have been scanned
    now,         \* time(), in seconds
    proc,        \* of each process: the command it runs, or how the last one ended
    \* --- history
    identity,    \* id and major version of the first descriptor; {} before
    commands, kills

commandVars == <<file, descriptor, version, documents, now, proc, identity, commands, kills>>

\* Exit statuses: of a command that did its work or refused its options, of argparse,
\* of LOG_FATAL, of SIGSEGV.
Success == 0
Usage == 1
Fatal == 255
Crash == 139
Idle(status) == [pc |-> "idle", exit |-> status]

CommandInit ==
    /\ file = "absent" /\ descriptor = {} /\ version = 0 /\ documents = {}
    /\ now = 1
    /\ proc = [p \in Processes |-> Idle(Success)]
    /\ identity = {}
    /\ commands = 0 /\ kills = 0

-----------------------------------------------------------------------------
(* Options.                                                                *)

IsGiven(v) == v # Absent
MaxInt == 2147483647
Incremented(n) == IF n = MaxInt THEN -MaxInt - 1 ELSE n + 1
Or(v, default) == IF IsGiven(v) THEN v ELSE default

\* set_to_negative_if_value_is_zero: what scan_args hold for a number, 0 if none is given.
Parsed(v) == IF ~IsGiven(v) THEN 0 ELSE IF v = 0 THEN -1 ELSE v
Defaulted(v, default) == IF Parsed(v) = 0 THEN default ELSE Parsed(v)

\* Mutant: 0 is taken for a number that is not given.
ScanSettingsZeroIsDefault(o) ==
    [quality |-> Defaulted(o.quality, 50), size |-> Defaulted(o.size, 552),
     count |-> IF o.count = 0 THEN 1 ELSE Or(o.count, 1),
     content |-> Defaulted(o.content, 32768),
     threads |-> IF Or(o.threads, 0) = 0 THEN 1 ELSE o.threads,
     depth |-> IF Or(o.depth, -1) <= 0 THEN MaxInt ELSE Incremented(o.depth),
     incremental |-> o.incremental /\ file # "absent",
     archive |-> Or(o.archive, "recurse")]

\* scan_args_validate
ScanSettings(o) ==
    [quality |-> Defaulted(o.quality, 50), size |-> Defaulted(o.size, 552),
     count |-> IF Parsed(o.count) = -1 THEN 0 ELSE Defaulted(o.count, 1),
     content |-> Defaulted(o.content, 32768),
     threads |-> IF Or(o.threads, 0) = 0 THEN 1 ELSE o.threads,
     depth |-> IF Or(o.depth, -1) <= 0 THEN MaxInt ELSE Incremented(o.depth),
     incremental |-> o.incremental /\ file # "absent",
     archive |-> Or(o.archive, "recurse")]

\* What is told of a command that fails the first of its checks.
Fails(verdict, failed) == IF failed THEN verdict ELSE "none"
FirstFailure(checks) ==
    LET failed == {n \in DOMAIN checks : checks[n] # "none"}
    IN  IF failed = {} THEN "none" ELSE checks[Min(failed)]

ArchiveModes == {"recurse", "list", "shallow", "skip"}
\* Languages whose data is in none of the folders, or not in one.
NoTessdata == {"not found", "in several folders"}

ScanChecks(o) ==
    LET a == ScanSettings(o)
    IN  << Fails("refused", ~IsGiven(o.path)),
           Fails("fatal", o.path = "missing"),
           Fails("refused", a.quality < 0 \/ a.quality > 100),
           Fails("refused", a.size < 32),
           Fails("refused", a.count > 1000),
           Fails("refused", a.threads < 0 \/ a.threads > 256),
           Fails("fatal", ~o.incremental /\ file # "absent"),
           Fails("refused", a.archive \notin ArchiveModes),
           Fails("refused", o.ocr # {} /\ ~IsGiven(o.lang)),
           Fails("refused", o.ocr = {} /\ IsGiven(o.lang)),
           Fails("fatal", o.lang \in NoTessdata),
           Fails("refused", o.lang = "broken"),
           Fails("fatal", o.exclude = "invalid"),
           Fails("fatal", o.list = "missing") >>

IndexChecks(o) ==
    << Fails("refused", ~IsGiven(o.path)), Fails("refused", Or(o.threads, 0) < 0),
       Fails("fatal", o.path = "missing" \/ file = "absent"),
       Fails("refused", o.external = "unreadable") >>

SqliteIndexChecks(o) ==
    << Fails("refused", ~IsGiven(o.path)), Fails("fatal", o.path = "missing" \/ file = "absent"),
       Fails("fatal", ~IsGiven(o.search_index)) >>

BadCredentials == {"no colon", "no user"}
Auth0Members == {"public_key", "audience", "client_id", "domain"}

\* web_args_validate
WebChecks(o) ==
    << Fails("refused", ~IsGiven(o.path)),
       Fails("fatal", IsGiven(o.search_index) /\ o.es # {}),
       Fails("refused", Or(o.lang, 2) \notin {2, 5}),
       Fails("refused", o.auth \in BadCredentials),
       Fails("refused", IsGiven(o.auth) /\ IsGiven(o.tag_auth)),
       Fails("refused", o.tag_auth \in BadCredentials),
       Fails("refused", o.auth0 # {} /\ o.auth0 # Auth0Members),
       Fails("refused", o.auth0 # {} /\ o.external = "unreadable"),
       Fails("fatal", o.path = "missing" \/ file = "absent"),
       Fails("fatal", o.search_index = "missing") >>

WebSettings(o) ==
    [backend |-> IF IsGiven(o.search_index) THEN "sqlite" ELSE "es",
     auth |-> IsGiven(o.auth), tag_auth |-> IsGiven(o.tag_auth),
     auth0 |-> "public_key" \in o.auth0]

IndexSettings(o) ==
    [threads |-> IF Or(o.threads, 0) = 0 THEN 1 ELSE o.threads,
     batch_size |-> IF Or(o.batch_size, 0) = 0 THEN 70 ELSE o.batch_size]

Numbers == {"quality", "size", "count", "content"}

\* argparse, then the checks of the command.
Verdict(o) ==
    IF o.command = "scan" /\ \E n \in Numbers : IsGiven(o[n]) /\ o[n] < 0 THEN "usage"
    ELSE CASE o.command = "scan" -> FirstFailure(ScanChecks(o))
           [] o.command = "index" -> FirstFailure(IndexChecks(o))
           [] o.command = "sqlite-index" -> FirstFailure(SqliteIndexChecks(o))
           [] o.command = "web" -> FirstFailure(WebChecks(o))
           [] OTHER -> "fatal"

SettingsOf(o) ==
    CASE o.command = "scan" -> ScanSettings(o)
      [] o.command = "web" -> WebSettings(o)
      [] o.command = "index" -> IndexSettings(o)
      [] OTHER -> [search_index |-> o.search_index]

\* main: validation errors go to the end of it, and return 0.
ExitOf(verdict) == CASE verdict = "usage" -> Usage [] verdict = "fatal" -> Fatal [] OTHER -> Success

FirstStep(o, a) ==
    CASE o.command = "scan" -> IF a.incremental THEN "read descriptor" ELSE "initialize"
      [] OTHER -> "open"

Start(p, o) ==
    /\ proc[p].pc = "idle"
    /\ commands < MaxCommands
    /\ commands' = commands + 1
    /\ proc' = [proc EXCEPT ![p] =
          IF Verdict(o) = "none"
          THEN [pc |-> FirstStep(o, SettingsOf(o)), of |-> o, args |-> SettingsOf(o), desc |-> {}]
          ELSE Idle(ExitOf(Verdict(o)))]
    /\ UNCHANGED <<file, descriptor, version, documents, now, identity, kills>>

-----------------------------------------------------------------------------
(* database_scan_begin.                                                    *)

At(p, pc) == proc[p].pc = pc
Goto(p, pc) == proc' = [proc EXCEPT ![p].pc = pc]
Exit(p, status) == proc' = [proc EXCEPT ![p] = Idle(status)]

\* The id is taken from the time, then comes the first statement of the schema: of two
\* scans that both found no file, one fails.
CreateTable(p) ==
    /\ At(p, "initialize")
    /\ IF file = "absent"
       THEN /\ file' = "partial"
            /\ proc' = [proc EXCEPT ![p].pc = "schema",
                                    ![p].desc = {[id |-> now, major |-> proc[p].of.major]}]
       ELSE Exit(p, Fatal) /\ UNCHANGED file
    /\ UNCHANGED <<descriptor, version, documents, now, identity, commands, kills>>

CreateSchema(p) ==
    /\ At(p, "schema")
    /\ file' = "whole"
    /\ Goto(p, "delete descriptor")
    /\ UNCHANGED <<descriptor, version, documents, now, identity, commands, kills>>

\* Mutant: the id of an incremental scan is made of the time, too.
ReadOriginalNewId(p) ==
    /\ At(p, "read descriptor")
    /\ IF file = "partial" THEN Exit(p, Fatal)
       ELSE IF descriptor = {} THEN Exit(p, Crash)
       ELSE \E row \in descriptor :
            IF row.major # proc[p].of.major THEN Exit(p, Fatal)
            ELSE proc' = [proc EXCEPT ![p].pc = "delete descriptor", ![p].desc = {[row EXCEPT !.id = now]}]
    /\ UNCHANGED <<file, descriptor, version, documents, now, identity, commands, kills>>

\* Statements on tables that are not there do not compile; of a table without a row
\* the texts are NULL, and strcpy reads them.
ReadOriginal(p) ==
    /\ At(p, "read descriptor")
    /\ IF file = "partial" THEN Exit(p, Fatal)
       ELSE IF descriptor = {} THEN Exit(p, Crash)
       ELSE \E row \in descriptor :
            IF row.major # proc[p].of.major THEN Exit(p, Fatal)
            ELSE proc' = [proc EXCEPT ![p].pc = "delete descriptor", ![p].desc = {row}]
    /\ UNCHANGED <<file, descriptor, version, documents, now, identity, commands, kills>>

DeleteDescriptor(p) ==
    /\ At(p, "delete descriptor")
    /\ descriptor' = {}
    /\ Goto(p, "insert descriptor")
    /\ UNCHANGED <<file, version, documents, now, identity, commands, kills>>

\* id is the primary key.
InsertDescriptor(p) ==
    /\ At(p, "insert descriptor")
    /\ IF \E row \in descriptor, new \in proc[p].desc : row.id = new.id
       THEN Exit(p, Fatal) /\ UNCHANGED <<descriptor, identity>>
       ELSE /\ descriptor' = descriptor \cup proc[p].desc
            /\ identity' = IF identity = {} THEN proc[p].desc ELSE identity
            /\ Goto(p, "prepare")
    /\ UNCHANGED <<file, version, documents, now, commands, kills>>

\* marked is filled (IndexDatabase), and the tables version and mime.
PrepareScan(p) ==
    /\ At(p, "prepare")
    /\ version' = version + 1
    /\ Goto(p, "scan")
    /\ UNCHANGED <<file, descriptor, documents, now, identity, commands, kills>>

-----------------------------------------------------------------------------
(* The work.                                                               *)

\* handle_entry passes over what is deeper than ScanCtx.depth; a file list is not
\* bound to a depth, and one with a file out of the folder is fatal.
Scan(p) ==
    /\ At(p, "scan")
    /\ documents' = documents \cup
          (IF IsGiven(proc[p].of.list) THEN 1 .. MaxLevel ELSE {n \in 1 .. MaxLevel : n <= proc[p].args.depth})
    /\ Exit(p, IF proc[p].of.list = "outside" THEN Fatal ELSE Success)
    /\ UNCHANGED <<file, descriptor, version, now, identity, commands, kills>>

\* Without a descriptor sqlite-index selects NULL for the id of the index, which no row of
\* document_index may have; the others copy NULL texts.
NoDescriptor(command) ==
    CASE command # "sqlite-index" -> Crash
      [] command = "sqlite-index" /\ documents # {} -> Fatal
      [] OTHER -> Success

\* What is read of the descriptor: by sist2_index once Elasticsearch is set up
\* (ElasticSetup), which alone compares the version, and by sqlite-index with the
\* documents that it copies.
OpenIndex(p) ==
    /\ At(p, "open")
    /\ LET o == proc[p].of
       IN  IF file = "partial" THEN Exit(p, Fatal)
           ELSE IF descriptor = {} THEN Exit(p, NoDescriptor(o.command))
           ELSE \E row \in descriptor :
                IF o.command = "index" /\ row.major # o.major THEN Exit(p, Fatal)
                ELSE proc' = [proc EXCEPT ![p].pc = "work", ![p].desc = {row}]
    /\ UNCHANGED <<file, descriptor, version, documents, now, identity, commands, kills>>

\* An indexer is done, or a server is told to stop.
Finish(p) ==
    /\ At(p, "work")
    /\ Exit(p, Success)
    /\ UNCHANGED <<file, descriptor, version, documents, now, identity, commands, kills>>

KillCommand(p) ==
    /\ ~At(p, "idle")
    /\ kills < MaxKills /\ kills' = kills + 1
    /\ Exit(p, 137)
    /\ UNCHANGED <<file, descriptor, version, documents, now, identity, commands>>

Tick ==
    /\ now < MaxTime /\ now' = now + 1
    /\ UNCHANGED <<file, descriptor, version, documents, proc, identity, commands, kills>>

CommandNext ==
    \/ Tick
    \/ \E p \in Processes :
          \/ \E o \in Commands : Start(p, o)
          \/ CreateTable(p) \/ CreateSchema(p) \/ ReadOriginal(p)
          \/ DeleteDescriptor(p) \/ InsertDescriptor(p) \/ PrepareScan(p)
          \/ Scan(p) \/ OpenIndex(p) \/ Finish(p) \/ KillCommand(p)

CommandSpec == CommandInit /\ [][CommandNext]_commandVars
-----------------------------------------------------------------------------
(* Properties.                                                             *)

Pcs == {"idle", "initialize", "schema", "read descriptor", "delete descriptor",
        "insert descriptor", "prepare", "scan", "open", "work"}

CommandTypeOK ==
    /\ file \in {"absent", "partial", "whole"}
    /\ \A row \in descriptor : row.id \in 1 .. now
    /\ documents \subseteq 1 .. MaxLevel
    /\ \A p \in Processes :
          /\ proc[p].pc \in Pcs
          /\ At(p, "idle") => proc[p].exit \in {Success, Usage, Fatal, Crash, 137}
          /\ ~At(p, "idle") => proc[p].of \in Commands /\ Cardinality(proc[p].desc) <= 1
    /\ version <= commands

\* However many commands run at once and whichever is killed, the index file keeps the
\* id and version that its first scan gave it: ids of documents are made of it, in both
\* search backends. Whoever works on the file goes by that id. The descriptor is gone
\* only while a scan replaces it, or for ever once one was killed there.
IdentityKept ==
    /\ descriptor \subseteq identity
    /\ \A p \in Processes : proc[p].pc \in {"prepare", "scan", "work"} => proc[p].desc \subseteq identity
    /\ identity # {} /\ descriptor = {} => kills > 0 \/ \E p \in Processes : At(p, "insert descriptor")

\* A scan that is not incremental has made the file that it works on: of two that found
\* none one fails, and there is nothing in the file that it could scan over.
MakesFile(p) ==
    /\ proc[p].pc \in {"schema", "delete descriptor", "insert descriptor", "prepare", "scan"}
    /\ ~proc[p].args.incremental

NothingOverwritten ==
    \A p \in Processes : MakesFile(p) =>
        /\ proc[p].pc \notin {"prepare", "scan"} => identity = {} /\ documents = {} /\ version = 0
        /\ \A q \in Processes \ {p} : ~MakesFile(q)

\* What the documents of an index are known by, and the documents, outlive every command.
IndexFileKept == IdentityKept /\ NothingOverwritten

\* What the settings a of a command mean, which was given the options o: of a number that
\* is left out its default; 0 thumbnails are none, a depth of n is n directories below the
\* folder and a depth that is left out or negative no limit, and what protects a server is
\* never left out. Not in it is a depth of 0: "Use 0 to only scan files in PATH" (USAGE.md:28),
\* but the code sets no limit then, as it does when a depth is left out. Nor is it that a
\* quality of 0, on the documented scale of [0, 100], starts no command at all, nor the
\* largest depth of an int, which overflows.
Meant(o, a) ==
    /\ o.command = "scan" =>
          /\ a.quality = Or(o.quality, 50) /\ a.size = Or(o.size, 552) /\ a.count = Or(o.count, 1)
          /\ IF o.content = 0 THEN a.content <= 0 ELSE a.content = Or(o.content, 32768)
          /\ a.quality \in 0 .. 100 /\ a.size >= 32 /\ a.count \in 0 .. 1000
          /\ a.threads \in 1 .. 256
          /\ IsGiven(o.lang) <=> o.ocr # {}
          /\ Or(o.depth, -1) \in 1 .. MaxInt - 1 => a.depth = o.depth + 1
          /\ Or(o.depth, -1) < 0 => a.depth = MaxInt
    /\ o.command = "web" =>
          /\ IsGiven(o.auth) <=> a.auth
          /\ IsGiven(o.tag_auth) <=> a.tag_auth
          /\ o.auth0 # {} <=> a.auth0
          /\ ~(a.auth /\ a.tag_auth)
          /\ a.backend = "sqlite" => o.es = {}

\* The settings that a command works by are those it was given.
SettingsAsGiven == \A p \in Processes : ~At(p, "idle") => Meant(proc[p].of, proc[p].args)
=============================================================================
