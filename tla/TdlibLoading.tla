---------------------------- MODULE TdlibLoading ----------------------------
(***************************************************************************)
(* Which native library the client runs on: what loader.py finds, trusts,  *)
(* opens and asks, what binary.py and dependencies.py read in its headers, *)
(* and what the doctor command makes of it.                                *)
(*                                                                         *)
(* A file is what can be told from it; nobody replaces it while it is      *)
(* looked at.  Paths, names of libraries and remedies are left out.        *)
(***************************************************************************)
EXTENDS Naturals, Sequences, FiniteSets, SequencesExt

CONSTANTS
    Interpreter,    \* what the running interpreter needs, or "unknown"
    Platform,       \* the platform the manifest is asked for
    Manifest,       \* the trusted digests, in the order of the file
    Minimum,        \* the least version accepted
    Nothing         \* no file, no version, no answer

RequiredSymbols == {"td_create_client_id", "td_send", "td_receive", "td_execute"}

-----------------------------------------------------------------------------
(***************************************************************************)
(* The host.                                                               *)
(***************************************************************************)
DetectPlatform(system, machine) ==
    <<CASE system \in {"win32", "cygwin-win"} -> "windows"
        [] system = "darwin" -> "darwin"
        [] OTHER -> "linux",
      CASE machine \in {"x86_64", "amd64"} -> "amd64"
        [] machine \in {"aarch64", "arm64"} -> "arm64"
        [] OTHER -> machine>>

\* An interpreter of 32 bits on a machine of 64 needs a library of 32.
CurrentArchitecture(machine, wide) ==
    CASE machine \in {"aarch64", "arm64"} -> IF wide THEN "arm64" ELSE "arm"
      [] machine \in {"x86_64", "amd64", "i386", "i686", "x86"} -> IF wide THEN "amd64" ELSE "x86"
      [] OTHER -> "unknown"

-----------------------------------------------------------------------------
(***************************************************************************)
(* The headers of a file: how many of its parts are whole, what machine    *)
(* they name, and where the table of imports leads.                        *)
(***************************************************************************)
Inspection(format, architecture, imports, readable) ==
    [format |-> format, architecture |-> architecture, imports |-> imports, readable |-> readable]

\* Imports are never read in this format.
ReadElf(h) == Inspection("elf", IF h.whole = 0 THEN "unknown" ELSE h.machine, {}, FALSE)

\* A table that lies in no section is read as a table without entries.
ReadPe(h) ==
    CASE h.whole = 0 -> Inspection("pe", "unknown", {}, FALSE)
      [] h.whole = 1 -> Inspection("pe", h.machine, {}, FALSE)
      [] OTHER -> Inspection("pe", h.machine, IF h.table = "found" THEN h.imports ELSE {}, TRUE)

InspectBinary(h) ==
    CASE h.format = "elf" -> ReadElf(h)
      [] h.format = "pe" -> ReadPe(h)
      [] OTHER -> Inspection("unknown", "unknown", {}, FALSE)

\* Imports are told apart by their kind only.
ClassifyDependencies(inspection) ==
    CASE ~inspection.readable -> "not_checked"
      [] "forbidden" \in inspection.imports -> "forbidden"
      [] inspection.imports \subseteq {"system", "redistributable"} -> "acceptable"
      [] OTHER -> "unrecognised"

-----------------------------------------------------------------------------
(***************************************************************************)
(* Trust, and versions.                                                    *)
(***************************************************************************)
\* One entry that does not parse spoils the manifest; a missing file is one
\* without entries.
ParseEntry(raw) ==
    IF raw.platform = Nothing \/ raw.digest = Nothing THEN Nothing ELSE raw

LoadManifest(document) ==
    CASE document = Nothing -> <<>>
      [] \E i \in DOMAIN document : ParseEntry(document[i]) = Nothing -> Nothing
      [] OTHER -> [i \in DOMAIN document |-> ParseEntry(document[i])]

\* The first entry of the platform with this digest.
Find(digest) ==
    LET matching == SelectSeq(Manifest, LAMBDA e : e.platform = Platform /\ e.digest = digest)
    IN  IF matching = <<>> THEN Nothing ELSE Head(matching)

\* The numbers before the first part that has none, which is Nothing.
ParseVersion(parts) ==
    LET numbers == SelectInSeq(parts, LAMBDA part : part = Nothing)
    IN  IF numbers = 0 THEN parts ELSE SubSeq(parts, 1, numbers - 1)

Older(a, b) ==
    \E i \in 1..Len(b) :
        /\ \A j \in 1..(i - 1) : j <= Len(a) /\ a[j] = b[j]
        /\ i > Len(a) \/ a[i] < b[i]

-----------------------------------------------------------------------------
(***************************************************************************)
(* The search.  Where to look is a record: a configured file if there is   *)
(* one, the vendored file, those of versioned directories from the newest, *)
(* and what the system finds; Nothing where no file is.                    *)
(***************************************************************************)
VendoredPaths(places) == <<places.vendored>> \o places.versions

ResolveCandidates(places) ==
    (IF places.named THEN <<places.configured>> ELSE <<>>)
    \o VendoredPaths(places)
    \o (IF places.search THEN <<places.system>> ELSE <<>>)

\* The first that is there; what it turns out to be sends nobody further.
Selected(places) ==
    LET present == SelectSeq(ResolveCandidates(places), LAMBDA file : file # Nothing)
    IN  IF present = <<>> THEN Nothing ELSE Head(present)

-----------------------------------------------------------------------------
(***************************************************************************)
(* What a selected file goes through, each stage if it passed those before.*)
(***************************************************************************)
Stages == <<"found", "read", "digest", "architecture", "dependencies", "open", "symbols",
            "answer", "minimum", "recorded">>

CheckVersion(file, stage) ==
    CASE stage = "answer" -> file.version # Nothing
      [] stage = "minimum" -> ~Older(ParseVersion(file.version), ParseVersion(Minimum))
      [] stage = "recorded" -> Find(file.digest).version \in {Nothing, file.version}

Passes(file, stage) ==
    CASE stage = "found" -> file # Nothing
      [] stage = "read" -> file.readable
      [] stage = "digest" -> Find(file.digest) # Nothing
      [] stage = "architecture" ->
            InspectBinary(file.headers).architecture \in {"unknown", Interpreter}
      [] stage = "dependencies" ->
            ClassifyDependencies(InspectBinary(file.headers)) \in {"acceptable", "not_checked"}
      [] stage = "open" -> file.opens
      [] stage = "symbols" -> RequiredSymbols \subseteq file.symbols
      [] OTHER -> CheckVersion(file, stage)

\* How many stages a file passes before its first failure.
Reached(file) ==
    CHOOSE n \in 0..Len(Stages) :
        /\ \A i \in 1..n : Passes(file, Stages[i])
        /\ n = Len(Stages) \/ ~Passes(file, Stages[n + 1])

After(n, stage) == \E i \in 1..n : Stages[i] = stage

\* TdjsonLoader.inspect: what is known of the library; what no stage reached
\* is as it was at first.
Inspect(places) ==
    LET file == Selected(places)
        n == Reached(file)
        inspected == InspectBinary(file.headers)
    IN  [selected |-> file # Nothing,
         verification |-> CASE n = 0 -> Nothing
                            [] n = 1 -> "unreadable"
                            [] n = 2 -> "unknown_digest"
                            [] OTHER -> "verified",
         architecture |-> IF After(n, "digest") THEN inspected.architecture ELSE "unknown",
         dependencies |-> IF After(n, "digest") THEN ClassifyDependencies(inspected) ELSE Nothing,
         loaded |-> After(n, "open"),
         missing |-> IF After(n, "open") THEN RequiredSymbols \ file.symbols ELSE {},
         version |-> IF After(n, "answer") THEN file.version ELSE Nothing,
         problem |-> n < Len(Stages)]

ArchitectureMatches(runtime) == runtime.architecture = Interpreter /\ Interpreter # "unknown"
WrongArchitecture(runtime) == runtime.architecture # "unknown" /\ ~ArchitectureMatches(runtime)
WrongDependencies(runtime) == runtime.dependencies \in {"forbidden", "unrecognised"}

\* TdjsonLoader._error_for, which sees the report only.
ErrorFor(runtime) ==
    CASE ~runtime.selected -> "not_found"
      [] WrongArchitecture(runtime) -> "incompatible"
      [] WrongDependencies(runtime) -> "unverified"
      [] runtime.verification # "verified" -> "unverified"
      [] ~runtime.loaded -> "load_failed"
      [] OTHER -> "incompatible"

\* TdjsonLoader.load: the file the report is about, or an error.
Load(places) ==
    LET runtime == Inspect(places)
    IN  IF runtime.problem THEN [error |-> ErrorFor(runtime)] ELSE [library |-> Selected(places)]

-----------------------------------------------------------------------------
(***************************************************************************)
(* The doctor: seven checks of the report, TRUE, FALSE or Nothing.         *)
(***************************************************************************)
ArchitectureCheck(runtime) ==
    IF runtime.architecture = "unknown" THEN Nothing ELSE ArchitectureMatches(runtime)

DependencyCheck(runtime) ==
    IF runtime.dependencies \in {Nothing, "not_checked"} THEN Nothing
    ELSE runtime.dependencies = "acceptable"

TdlibChecks(runtime) ==
    LET all == <<runtime.selected, runtime.verification = "verified", ArchitectureCheck(runtime),
                 DependencyCheck(runtime), runtime.loaded, runtime.missing = {},
                 runtime.version # Nothing /\ ~runtime.problem>>
        failed == SelectInSeq(all, LAMBDA check : check = FALSE)
    IN  [i \in DOMAIN all |-> IF failed # 0 /\ i > failed THEN Nothing ELSE all[i]]

\* Whether the commands of the tdlib group end in success.
TdlibDoctor(runtime) == ~runtime.problem
TdlibVersion(runtime) == runtime.version # Nothing
TdlibVerify(runtime) == runtime.selected /\ runtime.verification = "verified"

-----------------------------------------------------------------------------
(***************************************************************************)
(* What all this promises.                                                 *)
(***************************************************************************)
\* A library is loaded exactly when the first file there is can be read, is
\* trusted here, is built for this interpreter and imports nothing that the
\* digest should have covered, as far as either can be told, opens, has the
\* entry points, and is of a version that is new enough and is the recorded one.
LoadsWhatIsVetted(places) ==
    LET file == Selected(places)
        headers == InspectBinary(file.headers)
        entry == Find(file.digest)
        Vetted == /\ file.readable /\ entry # Nothing
                  /\ headers.architecture # "unknown" => headers.architecture = Interpreter
                  /\ headers.readable => headers.imports \subseteq {"system", "redistributable"}
                  /\ file.opens /\ RequiredSymbols \subseteq file.symbols
                  /\ file.version # Nothing
                  /\ ~Older(ParseVersion(file.version), ParseVersion(Minimum))
                  /\ entry.version # Nothing => entry.version = file.version
    IN  Load(places) = [library |-> file] <=> file # Nothing /\ Vetted

\* A file that fails is not passed over for another.
NeverFallsThrough(places) ==
    "library" \in DOMAIN Load(places) =>
        \E i \in DOMAIN ResolveCandidates(places) :
            /\ Load(places).library = ResolveCandidates(places)[i]
            /\ \A j \in 1..(i - 1) : ResolveCandidates(places)[j] = Nothing

\* The doctor finds fault exactly with what will not load, with one stage only,
\* and with the one the error of a load is about.
DoctorAgrees(places) ==
    LET checks == TdlibChecks(Inspect(places))
        failed == {i \in DOMAIN checks : checks[i] = FALSE}
        Blamed == <<"not_found", "unverified", "incompatible", "unverified", "load_failed",
                    "incompatible", "incompatible">>
    IN  /\ TdlibDoctor(Inspect(places)) => TdlibVersion(Inspect(places)) /\ TdlibVerify(Inspect(places))
        /\ IF "library" \in DOMAIN Load(places) THEN failed = {} /\ TdlibDoctor(Inspect(places))
           ELSE \E i \in failed : failed = {i} /\ Load(places).error = Blamed[i]

\* A manifest is trusted as a whole or not at all, and never taken for empty.
TrustIsWhole(document) ==
    LET loaded == LoadManifest(document)
    IN  loaded # Nothing /\ document # Nothing => loaded = document

\* The order of versions is total, and nothing comparable is older than all.
VersionsCompare(parts, others) ==
    LET a == ParseVersion(parts)
        b == ParseVersion(others)
    IN  /\ ~(Older(a, b) /\ Older(b, a))
        /\ a = b \/ Older(a, b) \/ Older(b, a)
        /\ a = <<>> /\ b # <<>> => Older(a, b)
=============================================================================
