-------------------------- MODULE MCChannelHandler --------------------------
(* Five short PDUs for model-checking ChannelHandler.                         *)
EXTENDS ChannelHandler

Short == <<3, 2, 1, 4, 2>>
=============================================================================
