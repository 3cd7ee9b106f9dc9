----------------------------- MODULE MCCuration -----------------------------
(* Model-checking instance of Curation.                                      *)
EXTENDS Curation, TLC

\* Two local files of one base name, the first below two rule words; a file of
\* the protected drive, as it is mounted; a remote copy of the first file.
MCCatalog ==
  <<[origin |-> "home", type |-> "LOCAL", path |-> <<"home", "movies", "backups", "a">>,
     ext |-> "mp4", mime |-> "video", data |-> 0],
    [origin |-> "home", type |-> "LOCAL", path |-> <<"home", "new", "a">>,
     ext |-> "pdf", mime |-> "text", data |-> 1],
    [origin |-> "drive", type |-> "LOCAL", path |-> <<"prod", "b">>,
     ext |-> "none", mime |-> "image", data |-> 2],
    [origin |-> "remote", type |-> "TELDRIVE", path |-> <<"remote", "c">>,
     ext |-> "none", mime |-> "none", data |-> 0]>>

MCArchiveRoot == <<"store">>
MCRawRoot     == <<"raw">>
MCCryptRoot   == <<"crypt">>
MCBuiltin     == {<<"prod">>}
MCExtra       == {{}, {<<"store">>, <<"crypt", "backup">>}}
MCOccupied    == {<<"store", "archive", "a">>}
MCExisting    == {<<4>>, <<4, 1>>}
Symmetric     == Permutations(Command)

\* What two of the theorems about Curation ask of the configuration.
ASSUME ConfigurationAssumption == RootsApart /\ PlacesApart
=============================================================================
