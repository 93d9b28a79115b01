--------------------------- MODULE ColourMatrices ---------------------------
(* The colour matrices of a raw file: from its main directory, or built in *)
(* (src/src/rawfile.rs), and the copy the C API makes into an array of the *)
(* caller (src/src/capi/rawfile.rs).  A matrix is its number of values.    *)
EXTENDS Naturals, Sequences

CONSTANTS
  Provided,   \* the sizes of a matrix in a file; none is an empty sequence
  BuiltIn,    \* the same for the table of the camera
  Sizes       \* the sizes of the arrays of the caller

VARIABLES
  matrices,   \* the file's two and the built in one
  size,       \* *size, before and after the call
  outcome     \* what the call returned

matrixVars == <<matrices, size, outcome>>

(* RawFile::colour_matrix: the built in matrix is for index 1 only.        *)
Matrix(index) ==
  CASE index \notin {1, 2} -> <<>>
    [] matrices.provided[index] # <<>> -> matrices.provided[index]
    [] index = 1 -> matrices.builtin
    [] OTHER -> <<>>

(* The array of the caller is as long as size says; the copy is of as many *)
(* values of the matrix, which has to have them.                           *)
CopyMatrix(index) ==
  /\ outcome = "none"
  /\ LET m == Matrix(index) IN
     \/ /\ m = <<>>
        /\ outcome' = "NOT_FOUND" /\ UNCHANGED size
     \/ /\ m # <<>> /\ size < Head(m)
        /\ outcome' = "BUF_TOO_SMALL" /\ UNCHANGED size
     \/ /\ m # <<>> /\ size = Head(m)
        /\ outcome' = "NONE" /\ size' = Head(m)
     \/ /\ m # <<>> /\ size > Head(m)
        /\ outcome' = "panic" /\ UNCHANGED size
  /\ UNCHANGED matrices

MatricesInit ==
  /\ matrices \in [provided : [1 .. 2 -> Provided], builtin : BuiltIn]
  /\ size \in Sizes
  /\ outcome = "none"

MatricesStep == \E index \in 1 .. 2 : CopyMatrix(index)

(* libopenraw/rawfile.h: size is that of the array, and on output the      *)
(* actual size of the matrix; when the array is too small it says how much *)
(* is needed.  So a call that found a matrix leaves its size in size.      *)
SizeIsTheMatrixs ==
  [][outcome' \notin {"none", "NOT_FOUND"} =>
       \E index \in 1 .. 2 : Matrix(index) = <<size'>>]_matrixVars
=============================================================================
