--------------------------- MODULE MCHashEngines ----------------------------
(* Programs and CPUs for model checking HashEngines. *)
EXTENDS HashEngines

CONSTANTS t1, t2

All == [max_id |-> 7,
        leaf1 |-> {"SSE2", "SSSE3", "SSE41", "OSXSAVE", "AVX"},
        leaf7 |-> {"AVX2", "AVX512F", "AVX512VL"},
        xcr0 |-> {"SSE", "AVX", "Opmask", "ZMM_Hi256", "Hi16_Zmm"}]

\* One CPU of each way to hash.
MCStreamCpus ==
  {All,
   [All EXCEPT !.leaf7 = {"AVX2"}],
   [All EXCEPT !.leaf1 = {"SSE2"}, !.leaf7 = {}, !.xcr0 = {}],
   [All EXCEPT !.leaf1 = {}, !.leaf7 = {}, !.xcr0 = {}, !.max_id = 1]}

\* And CPUs whose features the system does not use in whole or in part, and
\* one without leaf 7.
MCCpus == MCStreamCpus \cup
  {[All EXCEPT !.leaf7 = {}, !.xcr0 = {"SSE", "AVX"}],
   [All EXCEPT !.xcr0 = {"SSE", "AVX"}],
   [All EXCEPT !.xcr0 = {"SSE"}],
   [All EXCEPT !.leaf1 = @ \ {"OSXSAVE"}],
   [All EXCEPT !.max_id = 5]}

Keys(engine, nbytes, inputs) ==
  [use |-> "keys", engine |-> engine, nbytes |-> nbytes, size |-> 28, inputs |-> inputs,
   threads |-> {t1, t2}, cpus |-> IF engine = "Blake3" THEN MCCpus ELSE {All}]

Stream(engine) ==
  [use |-> "stream", engine |-> engine, nbytes |-> 0, size |-> 0, inputs |-> {},
   threads |-> {t1}, cpus |-> IF engine = "Blake3" THEN MCStreamCpus ELSE {All}]

MCPrograms ==
  {Keys("Blake3", 32, {<<0, 1>>, <<0, 2>>, <<1, 17>>}),
   Keys("SHA", 20, {<<0, 1>>, <<0, 2>>, <<1, 2>>}),
   Keys("SHA", 32, {<<0, 1>>, <<0, 2>>, <<1, 2>>}),
   Keys("XXhash64", 8, {<<0, 3>>, <<1, 3>>, <<1, 85>>}),
   Keys("City256", 32, {<<0, 3>>, <<0, 5>>, <<1, 240>>, <<1, 295>>, <<2, 480>>}),
   [Keys("City256", 16, {<<0, 3>>, <<0, 5>>, <<1, 240>>}) EXCEPT !.threads = {t1}],
   Keys("Dummy", 32, {<<1, 40>>, <<1, 640>>}),
   Stream("Blake3"), Stream("XXhash64")}

\* The tests' two inputs, "abcde" and "abcdef", one after the other.
MCShortPrograms ==
  {[Keys("XXhash64", 4, {<<1, 6>>, <<1, 7>>}) EXCEPT !.threads = {t1}]}

MCSeeks == {<<0, 32>>, <<60, 70>>, <<64, 1>>}

=============================================================================
