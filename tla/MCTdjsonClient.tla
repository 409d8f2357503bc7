--------------------------- MODULE MCTdjsonClient ---------------------------
(***************************************************************************)
(* A small instance of TdjsonClient.  The library it runs on is found and  *)
(* vetted before it starts: that is a calculation, compared with what it   *)
(* promises before the run begins.                                         *)
(***************************************************************************)
EXTENDS TdjsonClient, TdlibLoading, TLC

TrustedHere == <<
    [platform |-> "elsewhere", digest |-> "foreign", version |-> Nothing],
    [platform |-> "here", digest |-> "versioned", version |-> <<1, 8, 5>>],
    [platform |-> "here", digest |-> "plain", version |-> Nothing]>>
LeastVersion == <<1, 8, 0>>

Headers ==
    [format : {"pe", "elf", "other"}, whole : 0..2, machine : {"amd64", "arm64", "unknown"},
     table : {"none", "lost", "found"},
     imports : {{}, {"system", "redistributable"}, {"forbidden", "other"}, {"system", "other"}}]

Versions == {Nothing, <<1, 8, 5>>, <<1, 8, 0, Nothing>>, <<1, 8>>, <<1, 10>>, <<Nothing>>}

Files ==
    [readable : BOOLEAN, digest : {"foreign", "versioned", "plain", "other"}, headers : Headers,
     opens : BOOLEAN, symbols : {RequiredSymbols, {"td_send"}}, version : Versions]

Sound == [readable |-> TRUE, digest |-> "plain",
          headers |-> [format |-> "pe", whole |-> 2, machine |-> "amd64", table |-> "found",
                       imports |-> {"system"}],
          opens |-> TRUE, symbols |-> RequiredSymbols, version |-> <<1, 10>>]
Untrusted == [Sound EXCEPT !.digest = "other"]
Outdated == [Sound EXCEPT !.version = <<1, 8>>]

Here(file) == [named |-> TRUE, configured |-> file, vendored |-> Sound, versions |-> <<>>,
               search |-> TRUE, system |-> Sound]

Entries == [platform : {"here", Nothing}, digest : {"plain", Nothing}]

Anything == {Nothing, Sound, Untrusted, Outdated}
Searches ==
    [named : BOOLEAN, configured : Anything, vendored : Anything,
     versions : {<<>>} \cup [1..2 -> Anything], search : BOOLEAN, system : Anything]

\* A load takes the first file there is, and that if it is sound; the doctor
\* finds the fault an error of a load is about; versions are in one order.
ASSUME LoadingIsVetted ==
    /\ \A file \in Files : LoadsWhatIsVetted(Here(file)) /\ DoctorAgrees(Here(file))
    /\ \A places \in Searches :
          LoadsWhatIsVetted(places) /\ NeverFallsThrough(places) /\ DoctorAgrees(places)
    /\ \A a, b \in Versions \ {Nothing} : VersionsCompare(a, b)
    /\ \A document \in {<<>>} \cup UNION {[1..n -> Entries] : n \in 1..2} : TrustIsWhole(document)
=============================================================================
