--------------------------------- MODULE MCLgo ---------------------------------
EXTENDS Lgo, SequencesExt

MCImages == BoundedSeq(Value, 3)
=============================================================================
