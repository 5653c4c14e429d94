------------------------------- MODULE MCFit ---------------------------------
(* Instances of Fit: one to three images, as in boards/*/fit/*.its; lengths *)
(* around FIT_ALIGN; names of the real lengths.                            *)
EXTENDS Fit

MCPropNames == OwnProps \union {"type"}
MCNodeNames == OwnNodes \union {"uboot", "optee", "fdt"}
Img(n, b, d, a, h) == [name |-> n, before |-> b, data |-> d, after |-> a, hash |-> h]
Uboot == Img("uboot", <<"description">>, TRUE, <<"type">>, "algo")
Optee == Img("optee", <<"description">>, TRUE, <<>>, "algo")
Fdt == Img("fdt", <<>>, TRUE, <<"type">>, "none")
T(images, conf, d) == [images |-> images, conf |-> conf, described |-> d]
MCTrees == {T(<<Uboot>>, FALSE, TRUE), T(<<Uboot, Optee, Fdt>>, TRUE, TRUE), T(<<Fdt>>, TRUE, TRUE),
            T(<<Uboot, Img("optee", <<>>, FALSE, <<>>, "none")>>, TRUE, TRUE), T(<<Fdt>>, TRUE, FALSE),
            T(<<Img("fdt", <<>>, TRUE, <<>>, "bare")>>, FALSE, TRUE)}
MCContents == MCPropNames \union {"", "garbage", "a", "b", "c"}
MCBlobs == {[src |-> "", len |-> 0], [src |-> "a", len |-> 512], [src |-> "b", len |-> 511],
            [src |-> "c", len |-> 513]}
MCNameLen ==
  [n \in MCPropNames \union MCNodeNames |->
     CASE n = "" -> 0
       [] n \in {"type", "algo", "data", "hash", "conf"} -> 4
       [] n = "fdt" -> 3
       [] n \in {"value", "uboot", "optee"} -> 5
       [] n = "images" -> 6
       [] n \in {"version", "default"} -> 7
       [] n \in {"totalsize", "timestamp", "data-size"} -> 9
       [] n \in {"description", "data-offset"} -> 11
       [] n = "data-position" -> 13
       [] OTHER -> 14]
MCValueLen ==
  [p \in MCPropNames |-> CASE p = "description" -> 18 [] p = "type" -> 9 [] p = "algo" -> 7 [] OTHER -> 4]
=============================================================================
