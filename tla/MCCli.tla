--------------------------------- MODULE MCCli ---------------------------------
EXTENDS Cli

\* Short argument lists of any arguments.
Tokens == {"-h", "-o", "--bin", "--listing", "--lgo-full", "--lgo-compact", "--base-addr",
           "-", "--bogus", "x.s", "x.lgo", "0x10"}
Short == BoundedSeq(Tokens, 3)

\* Complete ones: an input and any of the options, one of each.
Choice(opt, values) == {<<>>} \cup {<<opt, v>> : v \in values}
Complete ==
  {i \o o \o b \o l \o m :
     i \in {<<"x.s">>, <<"x.lgo">>, <<"-">>},
     o \in Choice("-o", {"-", "y", "x.s"}),
     b \in Choice("--bin", {"-", "y", "--bin"}),
     l \in Choice("--listing", {"-", "y"}),
     m \in {<<>>, <<"--lgo-compact">>, <<"--base-addr", "0x10">>}}

MCArgvs == Short \cup Complete
BinArgvs == {<<"x.s", "--bin", "-">>}

MCLgoOf == ("x.s" :> "x.lgo") @@ ("x.lgo" :> "x.lgo") @@ ("0x10" :> "0x10.lgo")
MCAddressOf == [x \in {"0x10"} |-> 16]

MCResults == {[zero |-> <<FALSE, TRUE>>, lines |-> <<"source", "bytes", "blank">>],
              [zero |-> <<TRUE>>, lines |-> <<"bytes">>],
              NoResult}
=============================================================================
