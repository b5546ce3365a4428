------------------------------ MODULE MCSodCheck ------------------------------
(***************************************************************************)
(* The SODs that verifySod is checked on: those of a few documents, with   *)
(* each part changed, or taken from another of them.                       *)
(***************************************************************************)
EXTENDS SodCheck, SequencesExt

(* Numbers of data groups of one octet or two, or none; two entries for a  *)
(* data group; an entry that is not one.                                   *)
HashLists ==
  {<<<<<<1>>, "p">>, <<<<2>>, "q">>>>, <<<<<<1>>, "q">>, <<<<1>>, "p">>>>,
   <<<<<<1>>, "q">>, <<<<1, 5>>, "p">>>>, <<<<<<0, 161>>, "p">>, <<<<1>>, "q">>>>,
   <<<<<<>>, "p">>, <<Malformed, "p">>>>, <<<<<<1>>, "p">>, <<Malformed, "p">>>>}
FileHashes == [{1, 2} -> {"p", "q"}] \cup [{1} -> {"p", "q"}] \cup [{161} -> {"p"}]

(* A name of two sets, one of one, and one of a set of two attributes. *)
Names == [two |-> <<<<<<"c", "it">>>>, <<<<"o", "ds">>>>>>, one |-> <<<<<<"c", "it">>>>>>,
          multi |-> <<<<<<"c", "it">>, <<"o", "ds">>>>>>]

Certificate(key, rsa, name, serial) ==
  [key |-> key, rsa |-> rsa, issuer |-> Names[name], entries |-> FlattenSeq(Names[name]),
   serial |-> serial]

Certificates ==
  {Certificate("k1", TRUE, "two", <<1>>), Certificate("k2", TRUE, "one", <<0, 128>>),
   Certificate("k2", TRUE, "one", <<128>>), Certificate("k2", TRUE, "one", <<255, 0>>),
   Certificate("k1", TRUE, "multi", <<1>>), Certificate("k1", FALSE, "two", <<1>>),
   Certificate(Missing, FALSE, "two", <<1>>)}

SodOf(l, c) ==
  [shape |-> "right", hashes |-> l, digest |-> l, algorithm |-> "sha256", certificate |-> c,
   signature |-> [key |-> c.key, over |-> l, algorithm |-> "sha256"],
   issuer |-> c.issuer, serial |-> c.serial]
Genuine ==
  {SodOf(l, Certificate("k1", TRUE, "two", <<1>>)) : l \in HashLists}
  \cup {SodOf(<<<<<<1>>, "p">>, <<<<2>>, "q">>>>, c) : c \in Certificates}

Changed(g) ==
  {g} \cup {[g EXCEPT !.shape = v] : v \in {"wrong", Missing}}
  \cup {[g EXCEPT !.algorithm = a, !.signature.algorithm = a] : a \in {"sha1", "md5"}}
  \cup {[g EXCEPT !.issuer = v] :
          v \in {<<>>, <<<<<<"c", "it">>>>, <<>>>>, <<<<<<"c", "it">>>>, <<<<>>>>>>,
                 <<<<<<"c", "it">>>>, <<<<"o">>>>>>, <<<<<<"d">>>>, <<<<"o", "ds">>>>>>,
                 <<<<<<"c", "it", "more">>, <<"d", "x">>>>, <<<<"o", "ds">>>>>>,
                 <<<<<<"c", "fr">>>>>>}}
  \cup {[g EXCEPT !.certificate = Missing], [g EXCEPT !.hashes = Missing]}
Mixed(g, h) ==
  {[g EXCEPT ![p] = h[p]] : p \in Parts}
  \cup {[g EXCEPT !.hashes = h.hashes, !.digest = h.digest]}

VerifiedSods ==
  UNION {Changed(g) : g \in Genuine} \cup UNION {Mixed(g, h) : g, h \in Genuine}

=============================================================================
