--------------------------- MODULE MCIdentityVault ---------------------------
(* IdentityVault with the images and failures the configurations choose.    *)
EXTENDS IdentityVault

Img(b, c) == [build |-> b, code |-> c]

\* Two vault images with different codes, the plain build and the ephemeral one.
AllImages == {Img("vault", "c1"), Img("vault", "c2"),
              Img("plain", "c1"), Img("ephemeral", "c1")}
VaultImages == {Img("vault", "c1"), Img("vault", "c2")}

NoFaults == {}
\* Every failure but the silent loss of the attempt counter, in a write or a read.
CountedFaults == FaultKinds \ {"tries_write", "tries_read"}
=============================================================================
